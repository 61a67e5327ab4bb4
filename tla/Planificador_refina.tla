-------------------------- MODULE Planificador_refina --------------------------
(***************************************************************************)
(* The scheduler implements the five-state diagram: proof that every step  *)
(* of the threads of the Kernel is a transition of CincoEstados or changes *)
(* no state, and of what that needs: each PCB is in one queue, the one of  *)
(* its state, and in the order in which the code put it there.             *)
(*                                                                         *)
(* Layout: queues seen as sets; the six kinds of step that move a PCB, one *)
(* lemma each, with the place and the transition they give; the theorems;  *)
(* the order of Ready; the count of Blocked; who attends each blocked      *)
(* process, and that no NULL PCB is used; last, t_pcb.estado, which is     *)
(* written after the PCB has moved.                                        *)
(***************************************************************************)
EXTENDS Planificador_proofs

EnCola(c) == ToSet(cola[c])

SinRepetidos == \A c \in Colas : IsInjective(cola[c])
Separadas == \A c, d \in Colas : c # d => EnCola(c) \cap EnCola(d) = {}

\* Pids are given in increasing order, so the queue of new processes is sorted.
PorOrden ==
  /\ \A p, q \in Pids : q < p /\ lugar[p] # "NO_CREADO" => lugar[q] # "NO_CREADO"
  /\ \A j, k \in DOMAIN cola["New"] : j < k => cola["New"][j] < cola["New"][k]

Lugar == SinRepetidos /\ Separadas /\ LugarFiel /\ PorOrden

\* Who has the processor: "cde" keeps pcb_en_ejecucion a little longer.
EnCpu == IF pc["cde"] = "anota" THEN Nulo ELSE pcb_en_ejecucion

\* A thread writes the estado of processes that exist, and no other.
Nacidos ==
  /\ \A p \in Pids : estado[p] = "NO_CREADO" <=> lugar[p] = "NO_CREADO"
  /\ \A p \in Pids : PorAnotar(p) => lugar[p] # "NO_CREADO"

\* The inductive invariant of the refinement.
RInv == IInv /\ BusquedaVigente /\ Lugar /\ Nacidos

(***************************************************************************)
(* Queues as sets.                                                         *)
(***************************************************************************)

\* Being in a queue, position by position.
LEMMA PosicionesDe ==
  ASSUME TipoColas, NEW c \in Colas
  PROVE  /\ cola[c] \in Seq(Pids) /\ Len(cola[c]) \in Nat
         /\ DOMAIN cola[c] = 1..Len(cola[c])
         /\ EnCola(c) \subseteq Pids
         /\ \A x : x \in EnCola(c) <=> \E k \in DOMAIN cola[c] : cola[c][k] = x
         /\ \A x : Contains(cola[c], x) <=> x \in EnCola(c)
<1>1. cola[c] \in Seq(Pids)
  BY DEF TipoColas
<1>2. DOMAIN cola[c] = 1..Len(cola[c]) /\ Len(cola[c]) \in Nat
  BY <1>1
<1> QED BY <1>1, <1>2, Elementos DEF EnCola

\* "Never in two queues, nor twice in one", in both forms.
LEMMA UnaSolaColaEsSeparadas ==
  ASSUME TipoColas
  PROVE  UnaSolaCola <=> SinRepetidos /\ Separadas
<1>1. ASSUME UnaSolaCola PROVE SinRepetidos /\ Separadas
  <2>1. SinRepetidos
    BY <1>1 DEF UnaSolaCola, SinRepetidos, IsInjective
  <2>2. ASSUME NEW c \in Colas, NEW d \in Colas, c # d, NEW x \in EnCola(c), x \in EnCola(d)
        PROVE  FALSE
    <3>1. PICK j \in DOMAIN cola[c] : cola[c][j] = x
      BY PosicionesDe
    <3>2. PICK k \in DOMAIN cola[d] : cola[d][k] = x
      BY <2>2, PosicionesDe
    <3> QED BY <1>1, <2>2, <3>1, <3>2 DEF UnaSolaCola
  <2> QED BY <2>1, <2>2 DEF Separadas
<1>2. ASSUME SinRepetidos, Separadas PROVE UnaSolaCola
  <2> SUFFICES ASSUME NEW c \in Colas, NEW d \in Colas, NEW j \in DOMAIN cola[c],
                      NEW k \in DOMAIN cola[d], cola[c][j] = cola[d][k]
               PROVE  c = d /\ j = k
    BY DEF UnaSolaCola
  <2>1. cola[c][j] \in EnCola(c) /\ cola[c][j] \in EnCola(d)
    BY PosicionesDe
  <2>2. c = d
    BY <1>2, <2>1 DEF Separadas
  <2> QED BY <1>2, <2>2 DEF SinRepetidos, IsInjective
<1> QED BY <1>1, <1>2

\* LugarFiel without positions.
FielPorConjuntos ==
  /\ \A c \in Colas : \A p \in EnCola(c) : lugar[p] = EstadoDe(c)
  /\ \A p \in Pids :
       /\ lugar[p] = "EXEC" <=> EnCpu = p
       /\ lugar[p] \in {"NEW", "READY", "BLOCKED"} =>
            \E c \in Colas : EstadoDe(c) = lugar[p] /\ p \in EnCola(c)
       /\ lugar[p] \in {"NEW", "READY", "EXEC", "BLOCKED"} => p \in memoria

\* Both forms of LugarFiel say the same.
LEMMA FielEsPorConjuntos ==
  ASSUME TipoColas
  PROVE  LugarFiel <=> FielPorConjuntos
<1>1. (\A c \in Colas : \A k \in DOMAIN cola[c] : lugar[cola[c][k]] = EstadoDe(c))
        <=> (\A c \in Colas : \A p \in EnCola(c) : lugar[p] = EstadoDe(c))
  BY PosicionesDe
<1>2. \A c \in Colas : \A p : Contains(cola[c], p) <=> p \in EnCola(c)
  BY PosicionesDe
<1>3. \A p \in Pids : EnCpu = p <=> pcb_en_ejecucion = p /\ pc["cde"] # "anota"
  BY NuloAssumption DEF EnCpu
<1> QED BY <1>1, <1>2, <1>3 DEF LugarFiel, FielPorConjuntos

\* The same, in the next state.
LEMMA FielDespues == TipoColas' /\ FielPorConjuntos' => LugarFiel'
<1>1. TipoColas /\ FielPorConjuntos => LugarFiel
  BY FielEsPorConjuntos
<1> QED BY <1>1, PTL

\* Nobody enters or leaves the processor.
LEMMA MismoEnCpu ==
  ASSUME pcb_en_ejecucion' = pcb_en_ejecucion, pc'["cde"] = pc["cde"]
  PROVE  EnCpu' = EnCpu
BY DEF EnCpu

\* A step of another thread.
LEMMA OtroPunto ==
  ASSUME TypeOK, NEW h \in Hilos \ {"cde"}, NEW v, pc' = [pc EXCEPT ![h] = v]
  PROVE  pc'["cde"] = pc["cde"]
BY SonHilos DEF TypeOK, TipoHilos

\* A process p takes place e: the queue of D, if there is one.
LEMMA Traslado ==
  ASSUME TypeOK, TypeOK', Lugar, NEW p \in Pids, NEW e \in Estados \ {"NO_CREADO"},
         NEW D \in SUBSET Colas,
         lugar' = [lugar EXCEPT ![p] = e],
         \A c \in Colas : /\ IsInjective(cola'[c])
                          /\ EnCola(c)' = IF c \in D THEN EnCola(c) \cup {p} ELSE EnCola(c) \ {p},
         \A c, d \in D : c = d,
         \A d \in D : EstadoDe(d) = e,
         D = {} => e \in {"EXEC", "EXIT"},
         e = "EXEC" => EnCpu = Nulo /\ EnCpu' = p,
         e # "EXEC" => EnCpu' = IF EnCpu = p THEN Nulo ELSE EnCpu,
         memoria \ {p} \subseteq memoria', e # "EXIT" => p \in memoria'
  PROVE  SinRepetidos' /\ Separadas' /\ LugarFiel'
<1>1. TipoColas /\ TipoColas' /\ FielPorConjuntos
  BY FielEsPorConjuntos DEF TypeOK, TipoProcesos, TipoColas, Lugar
<1>2. lugar'[p] = e /\ \A q \in Pids \ {p} : lugar'[q] = lugar[q]
  BY DEF TypeOK, TipoProcesos
<1>3. SinRepetidos'
  BY DEF SinRepetidos
<1>4. Separadas'
  BY DEF Lugar, Separadas
<1>5. \A c \in Colas : \A q \in EnCola(c)' : lugar'[q] = EstadoDe(c)
  <2> SUFFICES ASSUME NEW c \in Colas, NEW q \in EnCola(c)' PROVE lugar'[q] = EstadoDe(c)
    OBVIOUS
  <2>1. CASE q = p
    BY <1>2, <2>1
  <2>2. CASE q # p
    <3>1. q \in EnCola(c) /\ q \in Pids
      BY <1>1, <2>2, PosicionesDe
    <3> QED BY <1>1, <1>2, <2>2, <3>1 DEF FielPorConjuntos
  <2> QED BY <2>1, <2>2
<1>6. \A q \in Pids :
        /\ lugar'[q] = "EXEC" <=> EnCpu' = q
        /\ lugar'[q] \in {"NEW", "READY", "EXEC", "BLOCKED"} => q \in memoria'
  BY <1>1, <1>2, NuloAssumption DEF FielPorConjuntos
<1>7. \A q \in Pids : lugar'[q] \in {"NEW", "READY", "BLOCKED"} =>
        \E c \in Colas : EstadoDe(c) = lugar'[q] /\ q \in EnCola(c)'
  <2> SUFFICES ASSUME NEW q \in Pids, lugar'[q] \in {"NEW", "READY", "BLOCKED"}
               PROVE  \E c \in Colas : EstadoDe(c) = lugar'[q] /\ q \in EnCola(c)'
    OBVIOUS
  <2>1. CASE q = p
    <3>1. PICK d \in D : TRUE
      BY <1>2, <2>1
    <3> QED BY <1>2, <2>1, <3>1
  <2>2. CASE q # p
    <3>1. PICK c \in Colas : EstadoDe(c) = lugar[q] /\ q \in EnCola(c)
      BY <1>1, <1>2, <2>2 DEF FielPorConjuntos
    <3>2. q \in EnCola(c)'
      BY <2>2, <3>1
    <3> QED BY <1>2, <2>2, <3>1, <3>2
  <2> QED BY <2>1, <2>2
<1>8. LugarFiel'
  <2>1. FielPorConjuntos'
    BY <1>5, <1>6, <1>7 DEF FielPorConjuntos, EstadoDe
  <2> QED BY <1>1, <2>1, FielDespues
<1> QED BY <1>3, <1>4, <1>8

\* No step but INICIAR_PROCESO creates, and New only loses its head.
LEMMA OrdenQueda ==
  ASSUME TypeOK, PorOrden, NEW p \in Pids, NEW e, e # "NO_CREADO", lugar[p] # "NO_CREADO",
         lugar' = [lugar EXCEPT ![p] = e],
         \/ cola'["New"] = cola["New"]
         \/ cola["New"] # <<>> /\ cola'["New"] = Tail(cola["New"])
  PROVE  PorOrden'
<1>1. \A q \in Pids : lugar'[q] # "NO_CREADO" <=> lugar[q] # "NO_CREADO"
  BY DEF TypeOK, TipoProcesos
<1>2. \A a, q \in Pids : q < a /\ lugar'[a] # "NO_CREADO" => lugar'[q] # "NO_CREADO"
  BY <1>1 DEF PorOrden
<1>3. CASE cola'["New"] = cola["New"]
  BY <1>2, <1>3 DEF PorOrden
<1>4. CASE cola["New"] # <<>> /\ cola'["New"] = Tail(cola["New"])
  <2> DEFINE s == cola["New"]
  <2>1. s \in Seq(Pids) /\ DOMAIN s = 1..Len(s) /\ Len(s) \in Nat
    BY PosicionesDe DEF TypeOK, TipoProcesos, TipoColas, Colas
  <2>2. /\ Tail(s) \in Seq(Pids) /\ Len(Tail(s)) = Len(s) - 1
        /\ \A k \in 1..(Len(s) - 1) : Tail(s)[k] = s[k + 1]
    BY <1>4, <2>1, HeadTailProperties
  <2>3. DOMAIN Tail(s) = 1..(Len(s) - 1)
    BY <2>2
  <2> HIDE DEF s
  <2>4. ASSUME NEW j \in 1..(Len(s) - 1), NEW k \in 1..(Len(s) - 1), j < k
        PROVE  Tail(s)[j] < Tail(s)[k]
    <3>1. j + 1 \in DOMAIN s /\ k + 1 \in DOMAIN s /\ j + 1 < k + 1
      BY <2>1, <2>4
    <3>2. s[j + 1] < s[k + 1]
      BY <3>1 DEF PorOrden, s
    <3> QED BY <2>2, <3>2
  <2> QED BY <1>2, <1>4, <2>3, <2>4 DEF PorOrden, s
<1> QED BY <1>3, <1>4

(***************************************************************************)
(* The steps that move a PCB.                                              *)
(***************************************************************************)
\* Which actions touch the queues or the processor at all.
Quieto == UNCHANGED <<lugar, cola, memoria, EnCpu>>

MueveUno ==
  \/ IniciarProceso \/ NewAReady \/ ReadyAExec \/ TerminarProceso
  \/ ExecAFinalizado \/ ExecAReady \/ ExecABlock
  \/ \E i \in Interfaces : BlockAReady(i)

\* Every other action of every thread leaves the processes where they were.
LEMMA QuietoOMueve ==
  ASSUME TypeOK, [Next]_vars
  PROVE  Quieto \/ MueveUno
<1> USE DEF colas, Quieto
<1>1. ASSUME pc' = pc \/ \E h \in Hilos \ {"cde"}, v \in Puntos : pc' = [pc EXCEPT ![h] = v],
             UNCHANGED <<lugar, cola, memoria, pcb_en_ejecucion>>
      PROVE  Quieto
  BY <1>1, OtroPunto, MismoEnCpu
<1>2. \A h \in {"largo", "corto", "reloj", "exit"} \cup Interfaces : h \in Hilos \ {"cde"}
  BY SonHilos DEF Hilos, HilosKernel
<1>3. CASE Consola
  BY <1>1, <1>3 DEF Consola, MueveUno, DetenerPlanificacion, IniciarPlanificacion
<1>4. CASE PlanificadorLargo
  BY <1>1, <1>2, <1>4 DEF PlanificadorLargo, MueveUno, LargoEsperaNew, LargoEsperaGrado,
     NewAReadyAnota, Ir, Puntos, EnPausa
<1>5. CASE PlanificadorCorto
  BY <1>1, <1>2, <1>5 DEF PlanificadorCorto, MueveUno, CortoEsperaCpu, CortoEsperaReady,
     CortoEsperaReloj, EnviarCdeACpu, Ir, Puntos, EnPausa
<1>6. CASE Reloj
  BY <1>1, <1>2, <1>6 DEF Reloj, RelojInicia, RelojVence, RelojInterrumpe, RelojCaduca, RelojNulo,
     Muere, Ir, Puntos
<1>7. CASE Cpu
  BY <1>1, <1>7 DEF Cpu, CpuBloqueante, CpuSigue, CpuDevuelve, CpuInterrumpida
<1>8. CASE AtenderCpu
  <2>1. ASSUME NEW v \in Puntos \ {"anota"}, pc' = [pc EXCEPT !["cde"] = v], pc["cde"] # "anota",
               UNCHANGED <<lugar, cola, memoria, pcb_en_ejecucion>>
        PROVE  Quieto
    <3>1. pc'["cde"] = v
      BY <2>1, SonHilos DEF TypeOK, TipoHilos
    <3> QED BY <2>1, <3>1 DEF EnCpu
  <2>2. CASE \/ CdeTermina \/ CdeFinDeQuantum \/ (\E i \in Interfaces : CdeIO(i)) \/ CdeIOInvalida
             \/ CdeEncola \/ CdeDespacha \/ CdeEsperaExec
    BY <2>1, <2>2 DEF CdeTermina, CdeFinDeQuantum, CdeIO, PideIO, CdeIOInvalida,
       RecibeCde, CdeEncola, CdeDespacha, CdeEsperaExec, Ir, Puntos, EnPausa
  <2>3. CASE ExecABlockAnota
    <3>1. pc["cde"] = "anota" /\ pc'["cde"] = "inicio"
      BY <2>3, SonHilos DEF ExecABlockAnota, FinDeBloqueo, Ir, TypeOK, TipoHilos
    <3> QED BY <2>3, <3>1 DEF ExecABlockAnota, FinDeBloqueo, EnCpu
  <2> QED BY <1>8, <2>2, <2>3 DEF AtenderCpu, MueveUno
<1>9. CASE TerminarProceso
  BY <1>9 DEF MueveUno
<1>10. ASSUME NEW i \in Interfaces, DispositivoTermina(i) \/ AtenderIO(i) PROVE Quieto \/ MueveUno
  <2>1. CASE DispositivoTermina(i) \/ BlockAReadyNulo(i)
    BY <1>1, <2>1 DEF DispositivoTermina, BlockAReadyNulo, Muere
  <2>2. CASE \/ IoRecibeLibre(i) \/ IoEsperaBlocked(i) \/ BlockAReadyBusca(i)
             \/ BlockAReadyAnota(i) \/ IoLibera(i) \/ IoSiguiente(i)
    BY <1>1, <1>2, <2>2 DEF IoRecibeLibre, IoEsperaBlocked, BlockAReadyBusca, Transita,
       BlockAReadyAnota, FinDeDesbloqueo, IoLibera, IoSiguiente, Ir, Puntos, EnPausa
  <2> QED BY <1>10, <2>1, <2>2 DEF AtenderIO, MueveUno
<1>11. ASSUME NEW h \in Hilos, Pausar(h) PROVE Quieto
  <2>1. PICK v \in EnPausa : pc[h] \in EnPausa /\ pc' = [pc EXCEPT ![h] = v]
    BY <1>11 DEF Pausar, Detenerse, Dormirse, Ir, EnPausa
  <2>2. pc'["cde"] = "anota" <=> pc["cde"] = "anota"
    BY <2>1, SonHilos DEF EnPausa, TypeOK, TipoHilos
  <2> QED BY <1>11, <2>2 DEF Pausar, Detenerse, Dormirse, EnCpu
<1>12. CASE UNCHANGED vars
  BY <1>1, <1>12 DEF vars
<1> QED BY <1>3, <1>4, <1>5, <1>6, <1>7, <1>8, <1>9, <1>10, <1>11, <1>12 DEF Next

\* A step that moves nobody keeps everyone in place.
LEMMA QuietoQueda == ASSUME TipoColas, TipoColas', Lugar, Quieto PROVE Lugar'
<1>1. FielPorConjuntos
  BY FielEsPorConjuntos DEF Lugar
<1>2. FielPorConjuntos'
  BY <1>1 DEF FielPorConjuntos, Quieto, EnCola, EstadoDe
<1> QED BY <1>2, FielDespues DEF Lugar, Quieto, SinRepetidos, Separadas, EnCola, PorOrden

\* The queues and the states of a state of the system.
LEMMA Partes ==
  ASSUME RInv
  PROVE  /\ TypeOK /\ TipoColas /\ FielPorConjuntos /\ SinRepetidos /\ Separadas /\ PorOrden
         /\ lugar \in [Pids -> Estados]
         /\ \A c \in Colas : cola[c] \in Seq(Pids) /\ IsInjective(cola[c])
<1>1. TypeOK /\ TipoColas
  BY Numeros DEF RInv, IInv
<1> QED BY <1>1, FielEsPorConjuntos
        DEF RInv, Lugar, TypeOK, TipoProcesos, TipoColas, SinRepetidos

\* INICIAR_PROCESO: the next pid, which was nowhere, enters New behind the
\* processes of smaller pid.
LEMMA Creado == ASSUME RInv, TypeOK', IniciarProceso PROVE Lugar' /\ Diagrama!Next
<1>1. PICK p \in Pids :
        /\ lugar[p] = "NO_CREADO"
        /\ \A q \in Pids : q < p => lugar[q] # "NO_CREADO"
        /\ lugar' = [lugar EXCEPT ![p] = "NEW"]
        /\ Agregar(p, "New")
        /\ memoria' = memoria \cup {p}
        /\ EnCpu' = EnCpu
  BY MismoEnCpu DEF IniciarProceso, Ubicar, RInv, Nacidos
<1> DEFINE s == cola["New"]
<1>2. "New" \in Colas /\ EstadoDe("New") = "NEW"
  BY DEF Colas, EstadoDe
<1>3. \A c \in Colas : p \notin EnCola(c)
  BY <1>1, Partes DEF FielPorConjuntos, EstadoDe, Colas
<1>4. cola'["New"] = Append(s, p) /\ \A c \in Colas \ {"New"} : cola'[c] = cola[c]
  BY <1>1, <1>2, Partes DEF Agregar, TipoColas
<1>5. \A c \in Colas : /\ IsInjective(cola'[c])
                       /\ EnCola(c)' = IF c \in {"New"} THEN EnCola(c) \cup {p} ELSE EnCola(c) \ {p}
  <2>1. s \in Seq(Pids) /\ IsInjective(s) /\ p \notin ToSet(s)
    BY <1>2, <1>3, Partes DEF EnCola
  <2>2. ToSet(Append(s, p)) = ToSet(s) \cup {p} /\ IsInjective(Append(s, p))
    BY <2>1, ElementosAgrega
  <2>3. ASSUME NEW c \in Colas \ {"New"}
        PROVE  IsInjective(cola'[c]) /\ EnCola(c)' = EnCola(c) \ {p}
    BY <1>3, <1>4, Partes DEF EnCola
  <2> QED BY <1>4, <2>2, <2>3 DEF EnCola
<1>6. SinRepetidos' /\ Separadas' /\ LugarFiel'
  <2>1. p # EnCpu
    BY <1>1, Partes DEF FielPorConjuntos
  <2>2. "NEW" \in Estados \ {"NO_CREADO"} /\ {"New"} \in SUBSET Colas /\ TypeOK /\ Lugar
    BY <1>2, Partes DEF RInv, Estados
  <2>3. /\ \A c, d \in {"New"} : c = d
        /\ \A d \in {"New"} : EstadoDe(d) = "NEW"
        /\ memoria \ {p} \subseteq memoria' /\ p \in memoria'
        /\ EnCpu' = IF EnCpu = p THEN Nulo ELSE EnCpu
    BY <1>1, <1>2, <2>1
  <2> QED BY <1>1, <1>5, <2>2, <2>3, Traslado
<1>7. PorOrden'
  <2>1. \A a, q \in Pids : q < a /\ lugar'[a] # "NO_CREADO" => lugar'[q] # "NO_CREADO"
    <3>1. lugar'[p] = "NEW" /\ \A q \in Pids \ {p} : lugar'[q] = lugar[q]
      BY <1>1, Partes
    <3> QED BY <1>1, <3>1, Partes DEF PorOrden
  <2>2. s \in Seq(Pids) /\ DOMAIN s = 1..Len(s) /\ Len(s) \in Nat
    BY <1>2, Partes, PosicionesDe
  <2>3. /\ DOMAIN cola'["New"] = 1..(Len(s) + 1)
        /\ \A j \in 1..Len(s) : cola'["New"][j] = s[j]
        /\ cola'["New"][Len(s) + 1] = p
    BY <1>4, <2>2, AppendProperties
  <2>4. \A j \in 1..Len(s) : s[j] \in Pids /\ s[j] < p
    <3> SUFFICES ASSUME NEW j \in 1..Len(s) PROVE s[j] \in Pids /\ s[j] < p
      OBVIOUS
    <3>1. s[j] \in Pids /\ s[j] \in EnCola("New")
      BY <1>2, <2>2, Partes, PosicionesDe
    <3>2. lugar[s[j]] = "NEW" /\ s[j] # p
      BY <1>1, <1>2, <3>1, Partes DEF FielPorConjuntos
    <3>3. ~(p < s[j])
      BY <1>1, <3>1, <3>2, Partes DEF PorOrden
    <3> QED BY <3>1, <3>2, <3>3, CotasAssumption DEF Pids
  <2> HIDE DEF s
  <2>5. \A j, k \in 1..(Len(s) + 1) : j < k => cola'["New"][j] < cola'["New"][k]
    <3> SUFFICES ASSUME NEW j \in 1..(Len(s) + 1), NEW k \in 1..(Len(s) + 1), j < k
                 PROVE  cola'["New"][j] < cola'["New"][k]
      OBVIOUS
    <3>1. j \in 1..Len(s) /\ cola'["New"][j] = s[j]
      BY <2>2, <2>3
    <3>2. CASE k = Len(s) + 1
      BY <2>3, <2>4, <3>1, <3>2
    <3>3. CASE k # Len(s) + 1
      <4>1. k \in 1..Len(s) /\ cola'["New"][k] = s[k]
        BY <2>2, <2>3, <3>3
      <4>2. s[j] < s[k]
        BY <2>2, <3>1, <4>1, Partes DEF PorOrden, s
      <4> QED BY <3>1, <4>1, <4>2
    <3> QED BY <3>2, <3>3
  <2> QED BY <2>1, <2>3, <2>5 DEF PorOrden
<1>8. Diagrama!Next
  <2>1. \A q \in Diagrama!En({"NO_CREADO"}) : p <= q
    BY <1>1, CotasAssumption DEF Diagrama!En, Pids
  <2> QED BY <1>1, <2>1 DEF Diagrama!Next, Diagrama!Crear, Diagrama!Pasa
<1> QED BY <1>6, <1>7, <1>8 DEF Lugar

\* The head of a queue is in that queue only, and has its state; without it
\* the rest of the queue stays.
LEMMA LaCabeza ==
  ASSUME RInv, NEW c \in Colas, cola[c] # <<>>
  PROVE  /\ Head(cola[c]) \in Pids
         /\ Head(cola[c]) \in EnCola(c)
         /\ lugar[Head(cola[c])] = EstadoDe(c)
         /\ \A d \in Colas \ {c} : Head(cola[c]) \notin EnCola(d)
         /\ ToSet(Tail(cola[c])) = EnCola(c) \ {Head(cola[c])}
         /\ IsInjective(Tail(cola[c]))
<1>1. cola[c] \in Seq(Pids) /\ IsInjective(cola[c])
  BY Partes
<1>2. /\ Head(cola[c]) \in EnCola(c)
      /\ ToSet(Tail(cola[c])) = EnCola(c) \ {Head(cola[c])}
      /\ IsInjective(Tail(cola[c]))
  BY <1>1, ElementosSaca DEF EnCola
<1>3. Head(cola[c]) \in Pids
  BY <1>1, HeadTailProperties
<1>4. lugar[Head(cola[c])] = EstadoDe(c)
  BY <1>2, Partes DEF FielPorConjuntos
<1>5. \A d \in Colas \ {c} : Head(cola[c]) \notin EnCola(d)
  BY <1>2, Partes DEF Separadas
<1> QED BY <1>2, <1>3, <1>4, <1>5

\* The processes in READY, EXEC and BLOCKED are at most the places taken.
LEMMA ActivosContados ==
  ASSUME RInv
  PROVE  /\ Cardinality(Diagrama!Activos) \in Nat
         /\ Cardinality(Diagrama!Activos)
              <= list_size("Ready") + list_size("ReadyPlus") + list_size("Bloqueados")
                   + Uno(EnCpu # Nulo)
<1> DEFINE A == EnCola("Ready")
           B == EnCola("ReadyPlus")
           C == EnCola("Bloqueados")
           E == IF EnCpu # Nulo THEN {EnCpu} ELSE {}
<1>1. "Ready" \in Colas /\ "ReadyPlus" \in Colas /\ "Bloqueados" \in Colas
  BY DEF Colas
<1>2. /\ IsFiniteSet(A) /\ Cardinality(A) \in Nat /\ Cardinality(A) <= list_size("Ready")
      /\ IsFiniteSet(B) /\ Cardinality(B) \in Nat /\ Cardinality(B) <= list_size("ReadyPlus")
      /\ IsFiniteSet(C) /\ Cardinality(C) \in Nat /\ Cardinality(C) <= list_size("Bloqueados")
  BY <1>1, Partes, ElementosCuenta DEF EnCola, list_size
<1>3. IsFiniteSet(E) /\ Cardinality(E) = Uno(EnCpu # Nulo)
  BY FS_EmptySet, FS_Singleton DEF Uno
<1>4. Diagrama!Activos \subseteq (A \cup B) \cup (C \cup E)
  <2> SUFFICES ASSUME NEW p \in Pids, lugar[p] \in {"READY", "EXEC", "BLOCKED"}
               PROVE  p \in (A \cup B) \cup (C \cup E)
    BY DEF Diagrama!Activos, Diagrama!En
  <2>1. CASE lugar[p] = "EXEC"
    BY <2>1, Partes, NuloAssumption DEF FielPorConjuntos
  <2>2. CASE lugar[p] \in {"READY", "BLOCKED"}
    <3>1. PICK c \in Colas : EstadoDe(c) = lugar[p] /\ p \in EnCola(c)
      BY <2>2, Partes DEF FielPorConjuntos
    <3>2. c \in {"Ready", "ReadyPlus", "Bloqueados"}
      BY <2>2, <3>1 DEF Colas, EstadoDe
    <3> QED BY <3>1, <3>2
  <2> QED BY <2>1, <2>2
<1> HIDE DEF A, B, C, E
<1>5. /\ IsFiniteSet(A \cup B) /\ Cardinality(A \cup B) <= Cardinality(A) + Cardinality(B)
      /\ Cardinality(A \cup B) \in Nat
  BY <1>2, UnionCuenta
<1>6. Uno(EnCpu # Nulo) \in Nat
  BY DEF Uno
<1>7. /\ IsFiniteSet(C \cup E) /\ Cardinality(C \cup E) <= Cardinality(C) + Cardinality(E)
      /\ Cardinality(C \cup E) \in Nat
  BY <1>2, <1>3, UnionCuenta
<1>8. /\ IsFiniteSet((A \cup B) \cup (C \cup E))
      /\ Cardinality((A \cup B) \cup (C \cup E)) <= Cardinality(A \cup B) + Cardinality(C \cup E)
      /\ Cardinality((A \cup B) \cup (C \cup E)) \in Nat
  BY <1>5, <1>7, UnionCuenta
<1>9. /\ Cardinality(Diagrama!Activos) <= Cardinality((A \cup B) \cup (C \cup E))
      /\ Cardinality(Diagrama!Activos) \in Nat
  BY <1>4, <1>8, FS_Subset, FS_CardinalityType
<1>10. /\ list_size("Ready") \in Nat /\ list_size("ReadyPlus") \in Nat
       /\ list_size("Bloqueados") \in Nat
  BY Numeros DEF RInv, IInv
<1> QED BY <1>2, <1>3, <1>5, <1>6, <1>7, <1>8, <1>9, <1>10

\* CincoEstados counts with the same Cardinality.
LEMMA MismaCardinalidad == \A S : Diagrama!Cardinality(S) = Cardinality(S)
BY DEF Cardinality, Diagrama!Cardinality

\* enviar_de_new_a_ready: the oldest new process is admitted, and there was a
\* place for it.
LEMMA Admitido == ASSUME BusquedaSola, RInv, TypeOK', NewAReady PROVE Lugar' /\ Diagrama!Next
<1> DEFINE p == Head(cola["New"])
<1>1. /\ EnTransicion("largo")
      /\ Mover(p, "New", "Ready")
      /\ lugar' = [lugar EXCEPT ![p] = "READY"]
      /\ UNCHANGED <<EnCpu, memoria>>
  <2>1. EnTransicion("largo") /\ pc' = [pc EXCEPT !["largo"] = "anota"]
    BY PausaBaja, SonHilos DEF NewAReady, RInv, IInv
  <2> QED BY <2>1, OtroPunto, MismoEnCpu, SonHilos, Partes DEF NewAReady, Ubicar
<1>2. "New" \in Colas /\ "Ready" \in Colas /\ EstadoDe("New") = "NEW" /\ EstadoDe("Ready") = "READY"
  BY DEF Colas, EstadoDe
<1>3. cola["New"] # <<>>
  <2>1. list_size("New") > 0
    BY <1>1, Numeros DEF RInv, IInv, SemaforosFieles, Uno
  <2> QED BY <2>1 DEF list_size
<1>4. /\ p \in Pids /\ p \in EnCola("New") /\ lugar[p] = "NEW"
      /\ \A d \in Colas \ {"New"} : p \notin EnCola(d)
      /\ ToSet(Tail(cola["New"])) = EnCola("New") \ {p} /\ IsInjective(Tail(cola["New"]))
  BY <1>2, <1>3, LaCabeza
<1>5. /\ cola'["New"] = Tail(cola["New"]) /\ cola'["Ready"] = Append(cola["Ready"], p)
      /\ \A c \in Colas \ {"New", "Ready"} : cola'[c] = cola[c]
  BY <1>1, <1>2, Partes DEF Mover, TipoColas
<1>6. \A c \in Colas : /\ IsInjective(cola'[c])
                       /\ EnCola(c)' = IF c \in {"Ready"} THEN EnCola(c) \cup {p} ELSE EnCola(c) \ {p}
  <2>1. ToSet(Append(cola["Ready"], p)) = EnCola("Ready") \cup {p} /\ IsInjective(Append(cola["Ready"], p))
    BY <1>2, <1>4, Partes, ElementosAgrega DEF EnCola
  <2>2. ASSUME NEW c \in Colas \ {"New", "Ready"}
        PROVE  IsInjective(cola'[c]) /\ EnCola(c)' = EnCola(c) \ {p}
    BY <1>4, <1>5, Partes DEF EnCola
  <2>3. IsInjective(cola'["New"]) /\ EnCola("New")' = EnCola("New") \ {p}
    BY <1>4, <1>5 DEF EnCola
  <2>4. IsInjective(cola'["Ready"]) /\ EnCola("Ready")' = EnCola("Ready") \cup {p}
    BY <1>5, <2>1 DEF EnCola
  <2> QED BY <2>2, <2>3, <2>4
<1> HIDE DEF p
<1>7. p # EnCpu /\ p \in memoria
  BY <1>4, Partes DEF FielPorConjuntos
<1>8. SinRepetidos' /\ Separadas' /\ LugarFiel'
  <2>1. "READY" \in Estados \ {"NO_CREADO"} /\ {"Ready"} \in SUBSET Colas /\ TypeOK /\ Lugar
    BY <1>2, Partes DEF RInv, Estados
  <2>2. /\ \A c, d \in {"Ready"} : c = d
        /\ \A d \in {"Ready"} : EstadoDe(d) = "READY"
        /\ memoria \ {p} \subseteq memoria' /\ p \in memoria'
        /\ EnCpu' = IF EnCpu = p THEN Nulo ELSE EnCpu
    BY <1>1, <1>2, <1>7
  <2> QED BY <1>1, <1>4, <1>6, <2>1, <2>2, Traslado
<1>9. PorOrden'
  BY <1>1, <1>3, <1>4, <1>5, Partes, OrdenQueda
<1>10. Diagrama!Next
  <2>1. \A q \in Diagrama!En({"NEW"}) : p <= q
    <3> SUFFICES ASSUME NEW q \in Pids, lugar[q] = "NEW" PROVE p <= q
      BY DEF Diagrama!En
    <3>1. q \in EnCola("New")
      BY Partes DEF FielPorConjuntos, EstadoDe, Colas
    <3>2. /\ cola["New"] \in Seq(Pids) /\ DOMAIN cola["New"] = 1..Len(cola["New"])
          /\ Len(cola["New"]) \in Nat
      BY <1>2, Partes, PosicionesDe
    <3>3. PICK k \in DOMAIN cola["New"] : cola["New"][k] = q
      BY <1>2, <3>1, Partes, PosicionesDe
    <3>4. p = cola["New"][1] /\ 1 \in DOMAIN cola["New"] /\ (k = 1 \/ 1 < k)
      BY <3>2, <3>3 DEF p
    <3>5. p = q \/ p < q
      BY <3>3, <3>4, Partes DEF PorOrden
    <3> QED BY <1>4, <3>5, CotasAssumption DEF Pids
  <2>2. Cardinality(Diagrama!Activos) < GradoMax
    <3>1. sem["grado_de_multiprogramacion"] + 1
            + list_size("Ready") + list_size("ReadyPlus") + list_size("Bloqueados")
            + Uno(EnCpu # Nulo) = GradoMax
      <4>1. EnCpu # Nulo <=> pcb_en_ejecucion # Nulo /\ pc["cde"] # "anota"
        BY DEF EnCpu
      <4> QED BY <1>1, <4>1 DEF RInv, IInv, GradoSiBusca, GradoConservado, Uno
    <3>2. Uno(EnCpu # Nulo) \in Nat
      BY DEF Uno
    <3> QED BY <3>1, <3>2, ActivosContados, Numeros, GradoAssumption DEF RInv, IInv
  <2> QED BY <1>1, <1>4, <2>1, <2>2, MismaCardinalidad
          DEF Diagrama!Next, Diagrama!Admitir, Diagrama!Pasa
<1> QED BY <1>8, <1>9, <1>10 DEF Lugar

\* enviar_de_ready_a_exec: with the processor free, the process chosen leaves
\* its Ready queue and becomes pcb_en_ejecucion.
LEMMA Ejecutado == ASSUME RInv, TypeOK', ReadyAExec PROVE Lugar' /\ Diagrama!Next
<1>1. EnTransicion("corto")
  BY PausaBaja, SonHilos DEF ReadyAExec, RInv, IInv
<1>2. PICK c \in {"Ready", "ReadyPlus"} : c = ColaElegida /\ list_size(c) > 0
  BY <1>1, HayListo DEF RInv
<1>3. c \in Colas /\ c # "New" /\ EstadoDe(c) = "READY" /\ cola[c] # <<>>
  BY <1>2 DEF Colas, EstadoDe, list_size
<1> DEFINE p == Head(cola[c])
<1>4. /\ cola' = [cola EXCEPT ![c] = Tail(cola[c])]
      /\ pcb_en_ejecucion' = p /\ pc' = [pc EXCEPT !["corto"] = IF ConReloj THEN "reloj" ELSE "enviar"]
      /\ lugar' = [lugar EXCEPT ![p] = "EXEC"]
      /\ memoria' = memoria
  BY <1>2 DEF ReadyAExec, Ubicar, Transita
<1>5. /\ p \in Pids /\ p \in EnCola(c) /\ lugar[p] = "READY"
      /\ \A d \in Colas \ {c} : p \notin EnCola(d)
      /\ ToSet(Tail(cola[c])) = EnCola(c) \ {p} /\ IsInjective(Tail(cola[c]))
  BY <1>3, LaCabeza
<1>6. EnCpu = Nulo /\ EnCpu' = p
  <2>1. pcb_en_ejecucion = Nulo /\ pc["cde"] = "inicio"
    BY <1>1, Numeros DEF RInv, IInv, CpuExclusiva, Uno
  <2>2. pc'["cde"] = pc["cde"]
    BY <1>4, OtroPunto, SonHilos, Partes
  <2> QED BY <2>1, <2>2, <1>4 DEF EnCpu
<1>7. \A d \in Colas : IsInjective(cola'[d]) /\ EnCola(d)' = EnCola(d) \ {p}
  <2>1. cola'[c] = Tail(cola[c]) /\ \A d \in Colas \ {c} : cola'[d] = cola[d]
    BY <1>3, <1>4, Partes DEF TipoColas
  <2>2. ASSUME NEW d \in Colas \ {c} PROVE IsInjective(cola'[d]) /\ EnCola(d)' = EnCola(d) \ {p}
    BY <1>5, <2>1, Partes DEF EnCola
  <2>3. IsInjective(cola'[c]) /\ EnCola(c)' = EnCola(c) \ {p}
    BY <1>5, <2>1 DEF EnCola
  <2> QED BY <2>2, <2>3
<1> HIDE DEF p
<1>8. SinRepetidos' /\ Separadas' /\ LugarFiel'
  <2>1. "EXEC" \in Estados \ {"NO_CREADO"} /\ TypeOK /\ Lugar
    BY Partes DEF RInv, Estados
  <2>2. memoria \ {p} \subseteq memoria' /\ p \in memoria'
    BY <1>4, <1>5, Partes DEF FielPorConjuntos
  <2>3. PICK D \in SUBSET Colas : D = {}
    OBVIOUS
  <2>4. \A d \in Colas :
          /\ IsInjective(cola'[d])
          /\ EnCola(d)' = IF d \in D THEN EnCola(d) \cup {p} ELSE EnCola(d) \ {p}
    BY <1>7, <2>3
  <2>5. (\A d, f \in D : d = f) /\ (\A d \in D : EstadoDe(d) = "EXEC")
    BY <2>3
  <2> QED BY <1>4, <1>5, <1>6, <1>7, <2>1, <2>2, <2>4, <2>5, Traslado
<1>9. PorOrden'
  <2>1. cola'["New"] = cola["New"]
    BY <1>3, <1>4, Partes DEF TipoColas, Colas
  <2> QED BY <1>4, <1>5, <2>1, Partes, OrdenQueda
<1>10. Diagrama!Next
  <2>1. Diagrama!En({"EXEC"}) = {}
    BY <1>6, Partes, NuloAssumption DEF Diagrama!En, FielPorConjuntos
  <2> QED BY <1>4, <1>5, <2>1 DEF Diagrama!Next, Diagrama!Ejecutar, Diagrama!Pasa
<1> QED BY <1>8, <1>9, <1>10 DEF Lugar

\* enviar_de_exec_a_finalizado, _a_ready and _a_block: pcb_en_ejecucion, which
\* was in no queue, goes to the end of one.
LEMMA DejaLaCpu ==
  ASSUME RInv, TypeOK', ExecAFinalizado \/ ExecAReady \/ ExecABlock
  PROVE  Lugar' /\ Diagrama!Next
<1>1. /\ EnTransicion("cde")
      /\ ExecABlock => pc' = [pc EXCEPT !["cde"] = "anota"]
      /\ ~ExecABlock => pc' = [pc EXCEPT !["cde"] = "inicio"]
  BY PausaBaja, SonHilos DEF ExecAFinalizado, ExecAReady, DejaExec, ExecABlock, Transita, RInv, IInv
<1>2. PICK c \in {"Finalizados", "Ready", "Bloqueados"} :
        /\ Agregar(pcb_en_ejecucion, c) /\ Ubicar(pcb_en_ejecucion, EstadoDe(c))
        /\ memoria' = memoria /\ (~ExecABlock => pcb_en_ejecucion' = Nulo)
  <2>1. CASE ExecAFinalizado
    BY <2>1, <1>1 DEF ExecAFinalizado, DejaExec, EstadoDe
  <2>2. CASE ExecAReady
    BY <2>2 DEF ExecAReady, DejaExec, EstadoDe
  <2>3. CASE ExecABlock
    BY <2>3 DEF ExecABlock, EstadoDe
  <2> QED BY <2>1, <2>2, <2>3
<1>3. PICK p \in Pids : p = pcb_en_ejecucion /\ p = EnCpu
  BY <1>1 DEF RInv, IInv, CpuExclusiva, EnTransicion, EnPausa, TypeOK, TipoProcesos, EnCpu
<1>4. PICK e \in {"EXIT", "READY", "BLOCKED"} : e = EstadoDe(c)
  BY DEF EstadoDe
<1>5. /\ Agregar(p, c) /\ lugar' = [lugar EXCEPT ![p] = e]
      /\ EnCpu' = Nulo /\ memoria' = memoria
  <2>1. (ExecABlock /\ pc'["cde"] = "anota") \/ (~ExecABlock /\ pc'["cde"] = "inicio")
    BY <1>1, SonHilos DEF RInv, IInv, TypeOK, TipoHilos
  <2>2. EnCpu' = Nulo
    BY <2>1, <1>2 DEF EnCpu
  <2> QED BY <2>2, <1>2, <1>3, <1>4 DEF Ubicar
<1>6. c \in Colas /\ c # "New"
  BY DEF Colas
<1>7. lugar[p] = "EXEC" /\ p \in memoria /\ \A d \in Colas : p \notin EnCola(d)
  BY <1>3, Partes DEF FielPorConjuntos, EstadoDe, Colas
<1>8. cola'[c] = Append(cola[c], p) /\ \A d \in Colas \ {c} : cola'[d] = cola[d]
  BY <1>5, <1>6, Partes DEF Agregar, TipoColas
<1>9. \A d \in Colas : /\ IsInjective(cola'[d])
                       /\ EnCola(d)' = IF d \in {c} THEN EnCola(d) \cup {p} ELSE EnCola(d) \ {p}
  <2>1. IsInjective(cola'[c]) /\ EnCola(c)' = EnCola(c) \cup {p}
    BY <1>6, <1>7, <1>8, Partes, ElementosAgrega DEF EnCola
  <2>2. ASSUME NEW d \in Colas \ {c} PROVE IsInjective(cola'[d]) /\ EnCola(d)' = EnCola(d) \ {p}
    BY <1>7, <1>8, Partes DEF EnCola
  <2> QED BY <2>1, <2>2
<1>10. SinRepetidos' /\ Separadas' /\ LugarFiel'
  <2>1. e \in Estados \ {"NO_CREADO"} /\ {c} \in SUBSET Colas /\ TypeOK /\ Lugar /\ e # "EXEC"
    BY <1>6, Partes DEF RInv, Estados
  <2>2. /\ \A d, f \in {c} : d = f
        /\ \A d \in {c} : EstadoDe(d) = e
        /\ {c} # {}
        /\ memoria \ {p} \subseteq memoria' /\ p \in memoria'
        /\ EnCpu' = IF EnCpu = p THEN Nulo ELSE EnCpu
    BY <1>3, <1>4, <1>5, <1>7
  <2> QED BY <1>5, <1>9, <2>1, <2>2, Traslado
<1>11. PorOrden'
  <2>1. cola'["New"] = cola["New"]
    BY <1>6, <1>8 DEF Colas
  <2> QED BY <1>5, <1>7, <2>1, Partes, OrdenQueda
<1>12. Diagrama!Next
  <2>1. \E q \in Pids : Diagrama!Terminar(q) \/ Diagrama!Desalojar(q) \/ Diagrama!Bloquear(q)
    BY <1>5, <1>7 DEF Diagrama!Terminar, Diagrama!Desalojar, Diagrama!Bloquear, Diagrama!Pasa
  <2> QED BY <2>1 DEF Diagrama!Next
<1> QED BY <1>10, <1>11, <1>12 DEF Lugar

\* terminar_proceso: what leaves procesosFinalizados had left the diagram.
LEMMA Liberado == ASSUME RInv, TypeOK', TerminarProceso PROVE Lugar' /\ UNCHANGED lugar
<1> DEFINE p == Head(cola["Finalizados"])
<1>1. /\ sem_wait("procesos_en_exit")
      /\ cola' = [cola EXCEPT !["Finalizados"] = Tail(cola["Finalizados"])]
      /\ memoria' = memoria \ {p}
      /\ UNCHANGED <<lugar, EnCpu>>
  BY MismoEnCpu DEF TerminarProceso
<1>2. "Finalizados" \in Colas /\ "New" \in Colas /\ EstadoDe("Finalizados") = "EXIT"
  BY DEF Colas, EstadoDe
<1>3. cola["Finalizados"] # <<>>
  <2>1. list_size("Finalizados") > 0
    BY <1>1 DEF RInv, IInv, SemaforosFieles, sem_wait
  <2> QED BY <2>1 DEF list_size
<1>4. /\ p \in Pids /\ lugar[p] = "EXIT"
      /\ \A d \in Colas \ {"Finalizados"} : p \notin EnCola(d)
      /\ ToSet(Tail(cola["Finalizados"])) = EnCola("Finalizados") \ {p}
      /\ IsInjective(Tail(cola["Finalizados"]))
  BY <1>2, <1>3, LaCabeza
<1>5. \A d \in Colas : IsInjective(cola'[d]) /\ EnCola(d)' = EnCola(d) \ {p}
  <2>1. /\ cola'["Finalizados"] = Tail(cola["Finalizados"])
        /\ \A d \in Colas \ {"Finalizados"} : cola'[d] = cola[d]
    BY <1>1, <1>2, Partes DEF TipoColas
  <2>2. ASSUME NEW d \in Colas \ {"Finalizados"}
        PROVE  IsInjective(cola'[d]) /\ EnCola(d)' = EnCola(d) \ {p}
    BY <1>4, <2>1, Partes DEF EnCola
  <2>3. IsInjective(cola'["Finalizados"]) /\ EnCola("Finalizados")' = EnCola("Finalizados") \ {p}
    BY <1>4, <2>1 DEF EnCola
  <2> QED BY <2>2, <2>3
<1> HIDE DEF p
<1>6. lugar' = [lugar EXCEPT ![p] = "EXIT"] /\ p # EnCpu
  BY <1>1, <1>4, Partes DEF FielPorConjuntos
<1>7. SinRepetidos' /\ Separadas' /\ LugarFiel'
  <2>1. "EXIT" \in Estados \ {"NO_CREADO"} /\ TypeOK /\ Lugar
    BY Partes DEF RInv, Estados
  <2>2. memoria \ {p} \subseteq memoria'
    BY <1>1
  <2>3. PICK D \in SUBSET Colas : D = {}
    OBVIOUS
  <2>4. \A d \in Colas :
          /\ IsInjective(cola'[d])
          /\ EnCola(d)' = IF d \in D THEN EnCola(d) \cup {p} ELSE EnCola(d) \ {p}
    BY <1>5, <2>3
  <2>5. (\A c, d \in D : c = d) /\ (\A d \in D : EstadoDe(d) = "EXIT")
    BY <2>3
  <2> QED BY <1>1, <1>4, <1>5, <1>6, <2>1, <2>2, <2>4, <2>5, Traslado
<1>8. PorOrden'
  <2>1. cola'["New"] = cola["New"]
    BY <1>1, <1>2, Partes DEF TipoColas
  <2> QED BY <1>4, <1>6, <2>1, Partes, OrdenQueda
<1> QED BY <1>1, <1>7, <1>8 DEF Lugar

\* enviar_pcb_de_block_a_ready: the PCB leaves the place it had in
\* procesosBloqueados, wherever it was, for the end of a Ready queue.
LEMMA Desbloqueado ==
  ASSUME RInv, TypeOK', NEW i \in Interfaces, BlockAReady(i)
  PROVE  Lugar' /\ Diagrama!Next
<1>1. PICK c \in {"Ready", "ReadyPlus"} : c = ColaDestino(transicion[i])
  BY DEF ColaDestino
<1>2. PICK p, k : p = io[i].pcb /\ k = io[i].posicion
  OBVIOUS
<1> DEFINE s == cola["Bloqueados"]
<1>3. /\ s \in Seq(Pids) /\ k \in DOMAIN s /\ s[k] = p /\ Contains(s, p)
      /\ cola' = [cola EXCEPT !["Bloqueados"] = RemoveAt(@, k), ![c] = Append(@, p)]
      /\ lugar' = [lugar EXCEPT ![p] = "READY"]
      /\ UNCHANGED <<memoria, EnCpu>>
  <2>1. pc[i] = "mueve" /\ pc' = [pc EXCEPT ![i] = "anota"] /\ k \in DOMAIN s
    BY <1>2 DEF BlockAReady, Ir
  <2>2. s \in Seq(Pids) /\ DOMAIN s = 1..Len(s) /\ IsInjective(s)
    BY Partes DEF Colas
  <2>3. s[k] = p
    <3>1. k # 0
      BY <2>1, <2>2
    <3> QED BY <3>1, <2>1, <1>2 DEF RInv, BusquedaVigente
  <2>4. Contains(s, p)
    BY <2>1, <2>2, <2>3 DEF Contains
  <2>5. Quitar("Bloqueados", p) = RemoveAt(s, k)
    <3>1. \A j \in DOMAIN s : s[j] = p => j = k
      BY <2>1, <2>2, <2>3 DEF IsInjective
    <3>2. (CHOOSE j \in DOMAIN s : s[j] = p) = k
      BY <2>1, <2>3, <3>1
    <3> QED BY <2>4, <3>2 DEF Quitar
  <2>6. UNCHANGED EnCpu
    BY <2>1, OtroPunto, MismoEnCpu, SonHilos, Partes DEF BlockAReady
  <2> QED BY <1>1, <1>2, <2>1, <2>2, <2>3, <2>4, <2>5, <2>6 DEF BlockAReady, Ubicar
<1>4. /\ "Bloqueados" \in Colas /\ c \in Colas /\ c # "Bloqueados" /\ c # "New" /\ "New" \in Colas
      /\ EstadoDe("Bloqueados") = "BLOCKED" /\ EstadoDe(c) = "READY"
  BY DEF Colas, EstadoDe
<1>5. s \in Seq(Pids) /\ DOMAIN s = 1..Len(s) /\ IsInjective(s)
  BY <1>4, Partes
<1>6. k \in 1..Len(s) /\ s[k] = p
  BY <1>3, <1>5
<1>7. p \in Pids /\ p \in EnCola("Bloqueados")
  BY <1>3, <1>4, Partes, PosicionesDe
<1>8. lugar[p] = "BLOCKED" /\ p \in memoria /\ p # EnCpu
  BY <1>4, <1>7, Partes DEF FielPorConjuntos
<1>9. \A d \in Colas \ {"Bloqueados"} : p \notin EnCola(d)
  BY <1>4, <1>7, Partes DEF Separadas
<1>10. ToSet(RemoveAt(s, k)) = ToSet(s) \ {p} /\ IsInjective(RemoveAt(s, k))
  BY <1>5, <1>6, ElementosQuita
<1>11. ToSet(Append(cola[c], p)) = EnCola(c) \cup {p} /\ IsInjective(Append(cola[c], p))
  BY <1>4, <1>7, <1>9, Partes, ElementosAgrega DEF EnCola
<1>12. /\ cola'["Bloqueados"] = RemoveAt(s, k) /\ cola'[c] = Append(cola[c], p)
       /\ \A d \in Colas \ {"Bloqueados", c} : cola'[d] = cola[d]
  BY <1>3, <1>4, Partes DEF TipoColas
<1>13. \A d \in Colas : /\ IsInjective(cola'[d])
                        /\ EnCola(d)' = IF d \in {c} THEN EnCola(d) \cup {p} ELSE EnCola(d) \ {p}
  <2>1. IsInjective(cola'["Bloqueados"]) /\ EnCola("Bloqueados")' = EnCola("Bloqueados") \ {p}
    BY <1>10, <1>12 DEF EnCola
  <2>2. IsInjective(cola'[c]) /\ EnCola(c)' = EnCola(c) \cup {p}
    BY <1>11, <1>12 DEF EnCola
  <2>3. ASSUME NEW d \in Colas \ {"Bloqueados", c}
        PROVE  IsInjective(cola'[d]) /\ EnCola(d)' = EnCola(d) \ {p}
    BY <1>9, <1>12, Partes DEF EnCola
  <2> QED BY <1>4, <2>1, <2>2, <2>3
<1>14. SinRepetidos' /\ Separadas' /\ LugarFiel'
  <2>1. "READY" \in Estados \ {"NO_CREADO"} /\ {c} \in SUBSET Colas /\ TypeOK /\ Lugar
    BY <1>4, Partes DEF RInv, Estados
  <2>2. /\ \A d, f \in {c} : d = f
        /\ \A d \in {c} : EstadoDe(d) = "READY"
        /\ {c} # {}
        /\ memoria \ {p} \subseteq memoria' /\ p \in memoria'
        /\ EnCpu' = IF EnCpu = p THEN Nulo ELSE EnCpu
    BY <1>3, <1>4, <1>8
  <2> QED BY <1>3, <1>7, <1>13, <2>1, <2>2, Traslado
<1>15. PorOrden'
  <2>1. cola'["New"] = cola["New"]
    BY <1>4, <1>12
  <2> QED BY <1>3, <1>7, <1>8, <2>1, Partes, OrdenQueda
<1>16. Diagrama!Next
  BY <1>3, <1>7, <1>8 DEF Diagrama!Next, Diagrama!Desbloquear, Diagrama!Pasa
<1> QED BY <1>14, <1>15, <1>16 DEF Lugar

(***************************************************************************)
(* When the estado of a PCB is written.                                    *)
(***************************************************************************)
HilosQueAnotan == {"largo", "cde"} \cup Interfaces

\* h has put a PCB in a queue and is about to write its estado: which one,
\* and what.
Anota(h) == pc[h] = "anota"
PcbDe(h) == CASE h = "largo" -> pcb_a_ready
              [] h = "cde"   -> pcb_en_ejecucion
              [] OTHER       -> io[h].pcb
DestinoDe(h) == IF h = "cde" THEN "BLOCKED" ELSE "READY"

MismoApunte(h) == (Anota(h)' <=> Anota(h)) /\ (Anota(h) => PcbDe(h)' = PcbDe(h))

\* PorAnotar, thread by thread.
PorHilos ==
  \A p \in Pids : PorAnotar(p) <=> \E h \in HilosQueAnotan : Anota(h) /\ PcbDe(h) = p

LEMMA QuienAnota == PorHilos
BY SonHilos DEF PorHilos, PorAnotar, HilosQueAnotan, Anota, PcbDe

LEMMA QuienAnotaDespues == PorHilos'
BY QuienAnota, PTL

\* The four kinds of step: nothing is written; the place and the estado are
\* written together; only the place is; only the estado is.
NadaEscrito == UNCHANGED <<estado, lugar>> /\ \A h \in HilosQueAnotan : MismoApunte(h)
Juntos ==
  /\ \A h \in HilosQueAnotan : MismoApunte(h)
  /\ \E p \in Pids, e \in Estados \ {"NO_CREADO"} :
       /\ Anotar(p, e) /\ Ubicar(p, e)
       /\ lugar[p] \in {"NO_CREADO", "EXEC"} \/ CarreraEstado \/ ~PorAnotar(p)
SoloLugar ==
  \E k \in HilosQueAnotan, p \in Pids :
    /\ ~Anota(k) /\ Anota(k)' /\ PcbDe(k)' = p
    /\ \A h \in HilosQueAnotan \ {k} : MismoApunte(h)
    /\ estado' = estado /\ Ubicar(p, DestinoDe(k))
    /\ \/ lugar[p] \in {"NEW", "EXEC"}
       \/ k \in Interfaces /\ pc[k] = "mueve" /\ io[k].posicion # 0 /\ io[k].pcb = p
SoloEstado ==
  \E k \in HilosQueAnotan :
    /\ Anota(k) /\ ~Anota(k)'
    /\ \A h \in HilosQueAnotan \ {k} : MismoApunte(h)
    /\ lugar' = lugar /\ Anotar(PcbDe(k), DestinoDe(k))

\* A step of a thread that is not about to write, nor will be.
LEMMA ApuntesQuietos ==
  ASSUME TypeOK,
         pc' = pc \/ \E h \in Hilos, v \in Puntos \ {"anota"} :
                       pc[h] # "anota" /\ pc' = [pc EXCEPT ![h] = v],
         pcb_a_ready' = pcb_a_ready,
         pc["cde"] = "anota" => pcb_en_ejecucion' = pcb_en_ejecucion,
         \A i \in Interfaces : pc[i] = "anota" => io'[i].pcb = io[i].pcb
  PROVE  \A h \in HilosQueAnotan : MismoApunte(h)
<1>1. \A h \in HilosQueAnotan : h \in Hilos
  BY SonHilos DEF HilosQueAnotan
<1>2. \A h \in Hilos : pc'[h] = "anota" <=> pc[h] = "anota"
  BY DEF TypeOK, TipoHilos
<1>3. \A h \in HilosQueAnotan : Anota(h) => PcbDe(h)' = PcbDe(h)
  BY SonHilos DEF HilosQueAnotan, Anota, PcbDe
<1> QED BY <1>1, <1>2, <1>3 DEF MismoApunte, Anota

\* One of them is: it starts or ends, and the others go on.
LEMMA ApunteUno ==
  ASSUME TypeOK, NEW k \in HilosQueAnotan, NEW v \in Puntos, pc' = [pc EXCEPT ![k] = v],
         k # "largo" => pcb_a_ready' = pcb_a_ready,
         k # "cde" => pcb_en_ejecucion' = pcb_en_ejecucion,
         \A i \in Interfaces \ {k} : io'[i] = io[i]
  PROVE  /\ Anota(k)' <=> v = "anota"
         /\ \A h \in HilosQueAnotan \ {k} : MismoApunte(h)
<1>1. \A h \in HilosQueAnotan : h \in Hilos
  BY SonHilos DEF HilosQueAnotan
<1>2. pc'[k] = v /\ \A h \in Hilos \ {k} : pc'[h] = pc[h]
  BY <1>1 DEF TypeOK, TipoHilos
<1>3. \A h \in HilosQueAnotan \ {k} : PcbDe(h)' = PcbDe(h)
  BY SonHilos DEF HilosQueAnotan, PcbDe
<1> QED BY <1>1, <1>2, <1>3 DEF MismoApunte, Anota

\* The steps that write together.
LEMMA EscribeJuntos ==
  ASSUME RInv, IniciarProceso \/ ReadyAExec \/ ExecAFinalizado \/ ExecAReady
  PROVE  Juntos
<1>1. TypeOK /\ io \in [Interfaces -> TipoIo]
  BY Partes DEF TypeOK, TipoInterfaces, TipoIo
<1>2. CASE IniciarProceso
  <2>1. \A h \in HilosQueAnotan : MismoApunte(h)
    BY <1>1, <1>2, ApuntesQuietos DEF IniciarProceso, locales, dispositivos
  <2>2. PICK p \in Pids : estado[p] = "NO_CREADO" /\ Anotar(p, "NEW") /\ Ubicar(p, "NEW")
    BY <1>2 DEF IniciarProceso
  <2>3. lugar[p] = "NO_CREADO"
    BY <2>2 DEF RInv, Nacidos
  <2> QED BY <2>1, <2>2, <2>3 DEF Juntos, Estados
<1>3. CASE ReadyAExec
  <2>1. /\ EnTransicion("corto")
        /\ pc' = [pc EXCEPT !["corto"] = IF ConReloj THEN "reloj" ELSE "enviar"]
    BY <1>3, PausaBaja, SonHilos DEF ReadyAExec, RInv, IInv
  <2>2. PICK c \in {"Ready", "ReadyPlus"} : c = ColaElegida /\ list_size(c) > 0
    BY <2>1, HayListo DEF RInv
  <2>3. c \in Colas /\ cola[c] # <<>>
    BY <2>2 DEF Colas, list_size
  <2>4. PICK p \in Pids : p = Head(cola[ColaElegida])
    BY <2>2, <2>3, LaCabeza
  <2>5. pc["cde"] # "anota"
    BY <2>1, Numeros DEF RInv, IInv, CpuExclusiva, Uno
  <2>6. \A h \in HilosQueAnotan : MismoApunte(h)
    BY <1>1, <1>3, <2>1, <2>5, ApuntesQuietos, SonHilos
       DEF ReadyAExec, locales, dispositivos, Puntos, EnTransicion, EnPausa
  <2> QED BY <1>3, <2>4, <2>6 DEF ReadyAExec, Juntos, Estados
<1>4. CASE ExecAFinalizado \/ ExecAReady
  <2>1. \E t, c, S : \E e \in {"EXIT", "READY"} : DejaExec(t, c, e, S)
    BY <1>4 DEF ExecAFinalizado, ExecAReady
  <2>6. PICK e \in {"EXIT", "READY"} : \E t, c, S : DejaExec(t, c, e, S)
    BY <2>1
  <2>7. PICK t, c, S : DejaExec(t, c, e, S)
    BY <2>6
  <2>2. EnTransicion("cde") /\ pc' = [pc EXCEPT !["cde"] = "inicio"]
    BY <1>1, <2>7, PausaBaja, SonHilos DEF DejaExec
  <2>3. PICK p \in Pids : p = pcb_en_ejecucion /\ p = EnCpu
    BY <2>2 DEF RInv, IInv, CpuExclusiva, EnTransicion, EnPausa, TypeOK, TipoProcesos, EnCpu
  <2>4. lugar[p] = "EXEC"
    BY <2>3, Partes DEF FielPorConjuntos
  <2>5. \A h \in HilosQueAnotan : MismoApunte(h)
    BY <1>1, <2>7, <2>2, ApuntesQuietos, SonHilos
       DEF DejaExec, locales, dispositivos, Puntos, EnTransicion, EnPausa
  <2> QED BY <2>7, <2>3, <2>4, <2>5 DEF DejaExec, Juntos, Estados
<1> QED BY <1>2, <1>3, <1>4

\* The steps that put a PCB in a queue and leave its estado for later.
LEMMA EscribeLugar ==
  ASSUME RInv, NewAReady \/ ExecABlock \/ \E i \in Interfaces : BlockAReady(i)
  PROVE  SoloLugar
<1>1. TypeOK /\ io \in [Interfaces -> TipoIo]
  BY Partes DEF TypeOK, TipoInterfaces, TipoIo
<1>2. CASE NewAReady
  <2>1. EnTransicion("largo") /\ pc' = [pc EXCEPT !["largo"] = "anota"]
    BY <1>2, PausaBaja, SonHilos DEF NewAReady, RInv, IInv
  <2>2. list_size("New") > 0
    BY <2>1, Numeros DEF RInv, IInv, SemaforosFieles, Uno
  <2>3. cola["New"] # <<>> /\ "New" \in Colas /\ EstadoDe("New") = "NEW"
    BY <2>2 DEF list_size, Colas, EstadoDe
  <2>4. PICK p \in Pids : p = Head(cola["New"]) /\ lugar[p] = "NEW"
    BY <2>3, LaCabeza
  <2>5. Anota("largo")' /\ \A h \in HilosQueAnotan \ {"largo"} : MismoApunte(h)
    BY <1>1, <1>2, <2>1, ApunteUno DEF NewAReady, dispositivos, HilosQueAnotan, Puntos
  <2> QED BY <1>2, <2>1, <2>4, <2>5
          DEF NewAReady, SoloLugar, HilosQueAnotan, PcbDe, DestinoDe, Anota, EnTransicion, EnPausa
<1>3. CASE ExecABlock
  <2>1. EnTransicion("cde") /\ pc' = [pc EXCEPT !["cde"] = "anota"]
    BY <1>3, PausaBaja, SonHilos DEF ExecABlock, RInv, IInv
  <2>2. PICK p \in Pids : p = pcb_en_ejecucion /\ p = EnCpu
    BY <2>1 DEF RInv, IInv, CpuExclusiva, EnTransicion, EnPausa, TypeOK, TipoProcesos, EnCpu
  <2>3. lugar[p] = "EXEC"
    BY <2>2, Partes DEF FielPorConjuntos
  <2>4. Anota("cde")' /\ \A h \in HilosQueAnotan \ {"cde"} : MismoApunte(h)
    BY <1>1, <1>3, <2>1, ApunteUno DEF ExecABlock, locales, dispositivos, HilosQueAnotan, Puntos
  <2> QED BY <1>3, <2>1, <2>2, <2>3, <2>4
          DEF ExecABlock, SoloLugar, HilosQueAnotan, PcbDe, DestinoDe, Anota, EnTransicion, EnPausa
<1>4. ASSUME NEW i \in Interfaces, BlockAReady(i) PROVE SoloLugar
  <2>1. pc[i] = "mueve" /\ pc' = [pc EXCEPT ![i] = "anota"] /\ io[i].posicion \in DOMAIN cola["Bloqueados"]
    BY <1>4 DEF BlockAReady, Ir
  <2>2. cola["Bloqueados"] \in Seq(Pids) /\ DOMAIN cola["Bloqueados"] = 1..Len(cola["Bloqueados"])
    BY Partes DEF Colas
  <2>3. io[i].posicion # 0
    BY <2>1, <2>2
  <2>4. cola["Bloqueados"][io[i].posicion] = io[i].pcb
    BY <2>1, <2>3 DEF RInv, BusquedaVigente
  <2>5. PICK p \in Pids : p = io[i].pcb
    BY <2>1, <2>2, <2>4
  <2>6. io' = [io EXCEPT ![i].pcb = p, ![i].posicion = 0] /\ Ubicar(p, "READY")
    BY <1>4, <2>4, <2>5 DEF BlockAReady
  <2>7. Anota(i)' /\ \A h \in HilosQueAnotan \ {i} : MismoApunte(h)
    BY <1>1, <1>4, <2>1, <2>6, ApunteUno DEF BlockAReady, locales, HilosQueAnotan, Puntos
  <2>8. PcbDe(i)' = p /\ DestinoDe(i) = "READY"
    BY <1>1, <2>6, SonHilos DEF PcbDe, DestinoDe, TipoIo
  <2> QED BY <1>4, <2>1, <2>3, <2>5, <2>6, <2>7, <2>8
          DEF BlockAReady, SoloLugar, HilosQueAnotan, Anota
<1> QED BY <1>2, <1>3, <1>4

\* The steps that write the estado.
LEMMA EscribeEstado ==
  ASSUME RInv, NewAReadyAnota \/ ExecABlockAnota \/ \E i \in Interfaces : BlockAReadyAnota(i)
  PROVE  SoloEstado
<1>1. TypeOK
  BY Partes
<1>2. CASE NewAReadyAnota
  <2>1. pc["largo"] = "anota" /\ pc' = [pc EXCEPT !["largo"] = "inicio"]
    BY <1>2 DEF NewAReadyAnota, Ir
  <2>3. "largo" \in HilosQueAnotan /\ "inicio" \in Puntos
        /\ pcb_en_ejecucion' = pcb_en_ejecucion /\ \A i \in Interfaces : io'[i] = io[i]
    BY <1>2 DEF NewAReadyAnota, dispositivos, HilosQueAnotan, Puntos
  <2>2. ~Anota("largo")' /\ \A h \in HilosQueAnotan \ {"largo"} : MismoApunte(h)
    BY <1>1, <2>1, <2>3, ApunteUno
  <2> QED BY <1>2, <2>1, <2>2
          DEF NewAReadyAnota, SoloEstado, HilosQueAnotan, PcbDe, DestinoDe, Anota
<1>3. CASE ExecABlockAnota
  <2>1. pc["cde"] = "anota" /\ pc' = [pc EXCEPT !["cde"] = "inicio"]
    BY <1>3 DEF ExecABlockAnota, FinDeBloqueo, Ir
  <2>3. "cde" \in HilosQueAnotan /\ "inicio" \in Puntos
        /\ pcb_a_ready' = pcb_a_ready /\ \A i \in Interfaces : io'[i] = io[i]
    BY <1>3 DEF ExecABlockAnota, FinDeBloqueo, locales, dispositivos, HilosQueAnotan, Puntos
  <2>2. ~Anota("cde")' /\ \A h \in HilosQueAnotan \ {"cde"} : MismoApunte(h)
    BY <1>1, <2>1, <2>3, ApunteUno
  <2> QED BY <1>3, <2>1, <2>2
          DEF ExecABlockAnota, FinDeBloqueo, SoloEstado, HilosQueAnotan, PcbDe, DestinoDe, Anota
<1>4. ASSUME NEW i \in Interfaces, BlockAReadyAnota(i) PROVE SoloEstado
  <2>1. pc[i] = "anota" /\ pc' = [pc EXCEPT ![i] = "liberar"]
    BY <1>4 DEF BlockAReadyAnota, FinDeDesbloqueo, Ir
  <2>4. i \in HilosQueAnotan /\ "liberar" \in Puntos /\ pcb_a_ready' = pcb_a_ready
        /\ pcb_en_ejecucion' = pcb_en_ejecucion /\ \A j \in Interfaces : io'[j] = io[j]
    BY <1>4 DEF BlockAReadyAnota, FinDeDesbloqueo, locales, dispositivos, HilosQueAnotan, Puntos
  <2>2. ~Anota(i)' /\ \A h \in HilosQueAnotan \ {i} : MismoApunte(h)
    BY <1>1, <2>1, <2>4, ApunteUno
  <2>3. PcbDe(i) = io[i].pcb /\ DestinoDe(i) = "READY"
    BY SonHilos DEF PcbDe, DestinoDe
  <2> QED BY <1>4, <2>1, <2>2, <2>3
          DEF BlockAReadyAnota, FinDeDesbloqueo, SoloEstado, HilosQueAnotan, Anota
<1> QED BY <1>2, <1>3, <1>4

\* Every other step writes nothing.
LEMMA NadaSeEscribe ==
  ASSUME TypeOK, [Next]_vars,
         ~(IniciarProceso \/ ReadyAExec \/ ExecAFinalizado \/ ExecAReady),
         ~(NewAReady \/ ExecABlock \/ \E i \in Interfaces : BlockAReady(i)),
         ~(NewAReadyAnota \/ ExecABlockAnota \/ \E i \in Interfaces : BlockAReadyAnota(i))
  PROVE  NadaEscrito
<1> USE DEF colas, locales, dispositivos
<1>1. io \in [Interfaces -> TipoIo]
  BY DEF TypeOK, TipoInterfaces, TipoIo
<1>2. ASSUME UNCHANGED <<estado, lugar, pcb_a_ready, pcb_en_ejecucion>>,
             pc' = pc \/ \E h \in Hilos, v \in Puntos \ {"anota"} :
                           pc[h] # "anota" /\ pc' = [pc EXCEPT ![h] = v],
             \A i \in Interfaces : pc[i] = "anota" => io'[i].pcb = io[i].pcb
      PROVE  NadaEscrito
  BY <1>2, ApuntesQuietos DEF NadaEscrito
<1>3. CASE Consola
  BY <1>2, <1>3 DEF Consola, DetenerPlanificacion, IniciarPlanificacion
<1>4. CASE PlanificadorLargo
  BY <1>2, <1>4, SonHilos DEF PlanificadorLargo, LargoEsperaNew, LargoEsperaGrado, Ir, Puntos, EnPausa
<1>5. CASE PlanificadorCorto
  BY <1>2, <1>5, SonHilos DEF PlanificadorCorto, CortoEsperaCpu, CortoEsperaReady,
     CortoEsperaReloj, EnviarCdeACpu, Ir, Puntos, EnPausa
<1>6. CASE Reloj
  BY <1>2, <1>6, SonHilos DEF Reloj, RelojInicia, RelojVence, RelojInterrumpe, RelojCaduca,
     RelojNulo, Muere, Ir, Puntos
<1>7. CASE Cpu
  BY <1>2, <1>7 DEF Cpu, CpuBloqueante, CpuSigue, CpuDevuelve, CpuInterrumpida
<1>8. CASE AtenderCpu
  <2>1. CASE CdeDespacha
    <3>1. \A i \in Interfaces : io'[i].pcb = io[i].pcb
      BY <1>1, <2>1 DEF CdeDespacha, Despacha, TipoIo
    <3> QED BY <1>2, <2>1, <3>1, SonHilos DEF CdeDespacha, Ir, Puntos, EnPausa
  <2>2. CASE \/ CdeTermina \/ CdeFinDeQuantum \/ (\E i \in Interfaces : CdeIO(i)) \/ CdeIOInvalida
             \/ CdeEncola \/ CdeEsperaExec
    BY <1>2, <2>2, SonHilos DEF CdeTermina, CdeFinDeQuantum, CdeIO, PideIO, CdeIOInvalida,
       RecibeCde, CdeEncola, CdeEsperaExec, Ir, Puntos, EnPausa
  <2> QED BY <1>8, <2>1, <2>2 DEF AtenderCpu
<1>9. CASE TerminarProceso
  BY <1>2, <1>9 DEF TerminarProceso
<1>10. ASSUME NEW i \in Interfaces, DispositivoTermina(i) \/ AtenderIO(i) PROVE NadaEscrito
  <2>1. CASE DispositivoTermina(i) \/ BlockAReadyNulo(i)
    BY <1>1, <1>2, <2>1 DEF DispositivoTermina, BlockAReadyNulo, Muere, TipoIo
  <2>2. CASE IoEsperaBlocked(i)
    BY <1>2, <2>2, SonHilos DEF IoEsperaBlocked, Ir, Puntos, EnPausa
  <2>3. CASE IoRecibeLibre(i) \/ IoLibera(i) \/ IoSiguiente(i)
    <3>1. PICK v \in {"blocked", "siguiente", "inicio"} :
            pc[i] # "anota" /\ pc' = [pc EXCEPT ![i] = v]
      BY <2>3 DEF IoRecibeLibre, IoLibera, IoSiguiente, Ir
    <3>2. \A j \in Interfaces \ {i} : io'[j] = io[j]
      BY <1>1, <2>3 DEF IoRecibeLibre, IoLibera, IoSiguiente
    <3> QED BY <1>2, <2>3, <3>1, <3>2, SonHilos DEF IoRecibeLibre, IoLibera, IoSiguiente, Puntos
  <2>4. CASE BlockAReadyBusca(i)
    <3>1. pc[i] # "anota" /\ pc' = [pc EXCEPT ![i] = "mueve"]
      BY <2>4 DEF BlockAReadyBusca, Transita, PuedePasar
    <3>2. \A j \in Interfaces \ {i} : io'[j] = io[j]
      BY <1>1, <2>4 DEF BlockAReadyBusca
    <3> QED BY <1>2, <2>4, <3>1, <3>2, SonHilos DEF BlockAReadyBusca, Puntos
  <2> QED BY <1>10, <2>1, <2>2, <2>3, <2>4 DEF AtenderIO
<1>11. ASSUME NEW h \in Hilos, Pausar(h) PROVE NadaEscrito
  <2>1. PICK v \in EnPausa : pc[h] \in EnPausa /\ pc' = [pc EXCEPT ![h] = v]
    BY <1>11 DEF Pausar, Detenerse, Dormirse, Ir, EnPausa
  <2> QED BY <1>2, <1>11, <2>1 DEF Pausar, Detenerse, Dormirse, EnPausa, Puntos
<1>12. CASE UNCHANGED vars
  BY <1>2, <1>12 DEF vars
<1> QED BY <1>3, <1>4, <1>5, <1>6, <1>7, <1>8, <1>9, <1>10, <1>11, <1>12 DEF Next

LEMMA Apuntes ==
  ASSUME RInv, [Next]_vars
  PROVE  NadaEscrito \/ Juntos \/ SoloLugar \/ SoloEstado
BY Partes, EscribeJuntos, EscribeLugar, EscribeEstado, NadaSeEscribe

\* Whom a thread is about to write is a process that exists, and stays so.
LEMMA NacidosQueda == ASSUME RInv, [Next]_vars PROVE Nacidos'
<1>1. /\ Nacidos /\ estado \in [Pids -> Estados] /\ lugar \in [Pids -> Estados]
  BY DEF RInv, IInv, TypeOK, TipoProcesos
<1>2. \A p \in Pids : \A h \in HilosQueAnotan : Anota(h) /\ PcbDe(h) = p => lugar[p] # "NO_CREADO"
  BY <1>1, QuienAnota DEF Nacidos, PorHilos
<1>3. SUFFICES /\ \A p \in Pids : estado'[p] = "NO_CREADO" <=> lugar'[p] = "NO_CREADO"
               /\ \A p \in Pids : \A h \in HilosQueAnotan :
                     Anota(h)' /\ PcbDe(h)' = p => lugar'[p] # "NO_CREADO"
  BY QuienAnotaDespues DEF Nacidos, PorHilos
<1>4. CASE NadaEscrito
  BY <1>1, <1>2, <1>4 DEF NadaEscrito, MismoApunte, Nacidos
<1>5. CASE Juntos
  BY <1>1, <1>2, <1>5 DEF Juntos, MismoApunte, Nacidos, Anotar, Ubicar
<1>6. CASE SoloLugar
  <2>1. PICK k \in HilosQueAnotan, p \in Pids :
          /\ Anota(k)' /\ PcbDe(k)' = p
          /\ \A h \in HilosQueAnotan \ {k} : MismoApunte(h)
          /\ estado' = estado /\ Ubicar(p, DestinoDe(k))
          /\ \/ lugar[p] \in {"NEW", "EXEC"}
             \/ k \in Interfaces /\ pc[k] = "mueve" /\ io[k].posicion # 0 /\ io[k].pcb = p
    BY <1>6 DEF SoloLugar
  <2>2. DestinoDe(k) # "NO_CREADO"
    BY DEF DestinoDe
  <2>3. lugar[p] # "NO_CREADO"
    <3>1. ASSUME k \in Interfaces, pc[k] = "mueve", io[k].posicion # 0, io[k].pcb = p
          PROVE  lugar[p] = "BLOCKED"
      BY <3>1 DEF RInv, BusquedaVigente, Lugar, LugarFiel, EstadoDe, Colas
    <3> QED BY <2>1, <3>1
  <2> QED BY <1>1, <1>2, <2>1, <2>2, <2>3 DEF MismoApunte, Nacidos, Ubicar
<1>7. CASE SoloEstado
  <2>1. PICK k \in HilosQueAnotan :
          /\ Anota(k) /\ ~Anota(k)'
          /\ \A h \in HilosQueAnotan \ {k} : MismoApunte(h)
          /\ lugar' = lugar /\ Anotar(PcbDe(k), DestinoDe(k))
    BY <1>7 DEF SoloEstado
  <2>2. DestinoDe(k) # "NO_CREADO"
    BY DEF DestinoDe
  <2> QED BY <1>1, <1>2, <2>1, <2>2 DEF MismoApunte, Nacidos, Anotar
<1> QED BY <1>4, <1>5, <1>6, <1>7, Apuntes

(***************************************************************************)
(* The theorems.                                                           *)
(***************************************************************************)
\* The invariant of the refinement holds in the initial states.
LEMMA RInicio == Init => RInv
<1> SUFFICES ASSUME Init PROVE RInv
  OBVIOUS
<1>1. IInv
  BY InicioCumple
<1>2. /\ \A c \in Colas : cola[c] = <<>>
      /\ \A p \in Pids : lugar[p] = "NO_CREADO" /\ estado[p] = "NO_CREADO"
      /\ pcb_en_ejecucion = Nulo
      /\ pc = [h \in Hilos |-> "inicio"]
  BY DEF Init
<1>3. \A c \in Colas : DOMAIN cola[c] = {} /\ EnCola(c) = {}
  BY <1>2 DEF EnCola, ToSet
<1>4. SinRepetidos /\ Separadas /\ PorOrden
  BY <1>2, <1>3 DEF SinRepetidos, IsInjective, Separadas, PorOrden, Colas
<1>5. LugarFiel
  BY <1>2, <1>3, NuloAssumption DEF LugarFiel
<1>6. Nacidos /\ BusquedaVigente
  BY <1>2, SonHilos DEF Nacidos, PorAnotar, BusquedaVigente
<1> QED BY <1>1, <1>4, <1>5, <1>6 DEF RInv, Lugar

\* Every step keeps the invariant, and is a transition of the diagram or
\* leaves every process in its place.
LEMMA RPaso == ASSUME BusquedaSola PROVE RInv /\ [Next]_vars => RInv' /\ [Diagrama!Next]_lugar
<1> SUFFICES ASSUME RInv, [Next]_vars PROVE RInv' /\ [Diagrama!Next]_lugar
  OBVIOUS
<1>1. IInv' /\ BusquedaVigente'
  BY PasoCumple, BusquedaSeMantiene DEF RInv, SiBusca
<1>2. TypeOK /\ TypeOK' /\ TipoColas /\ TipoColas' /\ Nacidos'
  BY <1>1, NacidosQueda, Partes DEF IInv, TypeOK, TipoProcesos, TipoColas
<1>3. CASE Quieto
  <2>1. Lugar'
    BY <1>2, <1>3, QuietoQueda DEF RInv
  <2> QED BY <1>1, <1>2, <1>3, <2>1 DEF RInv, Quieto
<1>4. CASE MueveUno
  <2>1. Lugar' /\ (Diagrama!Next \/ UNCHANGED lugar)
    BY <1>2, <1>4, Creado, Admitido, Ejecutado, DejaLaCpu, Liberado, Desbloqueado DEF MueveUno
  <2> QED BY <1>1, <1>2, <2>1 DEF RInv
<1> QED BY <1>2, <1>3, <1>4, QuietoOMueve

\* The invariant of the refinement holds in every state, unless a removal
\* from procesosBloqueados comes between the search of another interface and
\* its removal: LugarFiel, one queue per PCB and queues without repetitions.
THEOREM CadaUnoEnSuLugar == BusquedaSola => (Spec => []RInv)
<1> SUFFICES ASSUME BusquedaSola PROVE Spec => []RInv
  OBVIOUS
<1>1. RInv /\ [Next]_vars => RInv'
  BY RPaso
<1> QED BY <1>1, RInicio, PTL DEF Spec

\* A PCB is never in two queues, nor twice in one: no process is run, woken
\* or released twice because of a transition that put it in a second place.
\* Either there is one interface, or no other comes between the search and
\* the removal of enviar_pcb_de_block_a_ready.
THEOREM UnaSola == BusquedaSola => (Spec => []UnaSolaCola)
<1>1. RInv => UnaSolaCola
  BY Numeros, UnaSolaColaEsSeparadas DEF RInv, IInv, Lugar
<1> QED BY <1>1, CadaUnoEnSuLugar, PTL

\* The threads, semaphores and queues of the Kernel implement the five-state
\* diagram with one processor and the degree of multiprogramming: what moves
\* along it is the place of each process, whenever its estado is written.
THEOREM ImplementaDiagrama == BusquedaSola => (Spec => CumpleDiagrama)
<1> SUFFICES ASSUME BusquedaSola PROVE Spec => CumpleDiagrama
  OBVIOUS
<1>1. Init => Diagrama!Init
  BY DEF Init, Diagrama!Init
<1>2. RInv /\ [Next]_vars => [Diagrama!Next]_lugar
  BY RPaso
<1> QED BY <1>1, <1>2, CadaUnoEnSuLugar, PTL DEF Spec, CumpleDiagrama, Diagrama!Spec

(***************************************************************************)
(* The estado of a PCB, when nobody takes it before it is written.         *)
(***************************************************************************)
\* What is about to be written is the place of the PCB; no two threads are
\* about to write the same one, nor one that a search found; and the others
\* have the estado of their place.
EInv ==
  /\ \A h \in HilosQueAnotan : Anota(h) => lugar[PcbDe(h)] = DestinoDe(h)
  /\ \A h, k \in HilosQueAnotan : Anota(h) /\ Anota(k) /\ PcbDe(h) = PcbDe(k) => h = k
  /\ \A i \in Interfaces : pc[i] = "mueve" /\ io[i].posicion # 0 =>
       \A h \in HilosQueAnotan : Anota(h) => PcbDe(h) # io[i].pcb
  /\ \A p \in Pids : estado[p] = lugar[p]
                       \/ \E h \in HilosQueAnotan : Anota(h) /\ PcbDe(h) = p

\* Who has a position at the end of a step had it before, or has just looked
\* for it.
Encontro(i) ==
  \/ pc[i] = "mueve" /\ io'[i].pcb = io[i].pcb /\ io'[i].posicion = io[i].posicion
  \/ BlockAReadyBusca(i) /\ io'[i].pcb = io[i].pcb

LEMMA QuienEncontro ==
  ASSUME TypeOK, [Next]_vars, NEW i \in Interfaces, pc'[i] = "mueve" PROVE Encontro(i)
<1> USE DEF colas, locales, dispositivos
<1>1. io \in [Interfaces -> TipoIo] /\ pc \in [Hilos -> Puntos] /\ i \in Hilos
  BY SonHilos DEF TypeOK, TipoHilos, TipoInterfaces, TipoIo
<1>2. ASSUME pc'[i] = pc[i], io'[i].pcb = io[i].pcb, io'[i].posicion = io[i].posicion
      PROVE  Encontro(i)
  BY <1>2 DEF Encontro
<1>3. CASE Consola \/ Cpu \/ TerminarProceso \/ UNCHANGED vars
  BY <1>2, <1>3 DEF Consola, IniciarProceso, DetenerPlanificacion, IniciarPlanificacion, Cpu,
     CpuBloqueante, CpuSigue, CpuDevuelve, CpuInterrumpida, TerminarProceso, vars
<1>4. CASE PlanificadorLargo
  BY <1>1, <1>2, <1>4, SonHilos DEF PlanificadorLargo, LargoEsperaNew, LargoEsperaGrado, NewAReady,
     NewAReadyAnota, Ir, Transita
<1>5. CASE PlanificadorCorto
  BY <1>1, <1>2, <1>5, SonHilos DEF PlanificadorCorto, CortoEsperaCpu, CortoEsperaReady, ReadyAExec,
     CortoEsperaReloj, EnviarCdeACpu, Ir, Transita
<1>6. CASE Reloj
  BY <1>1, <1>2, <1>6, SonHilos DEF Reloj, RelojInicia, RelojVence, RelojInterrumpe, RelojCaduca,
     RelojNulo, Muere, Ir
<1>7. CASE AtenderCpu
  <2>1. pc'[i] = pc[i]
    BY <1>7, <1>1, SonHilos DEF AtenderCpu, CdeTermina, CdeFinDeQuantum, CdeIO, PideIO,
       CdeIOInvalida, CdeEncola, CdeDespacha, CdeEsperaExec, ExecAFinalizado, ExecAReady, DejaExec,
       ExecABlock, ExecABlockAnota, FinDeBloqueo, Ir, Transita
  <2>2. CASE CdeDespacha
    <3>1. io'[i].pcb = io[i].pcb /\ io'[i].posicion = io[i].posicion
      BY <2>2, <1>1 DEF CdeDespacha, Despacha, TipoIo
    <3> QED BY <1>2, <2>1, <3>1
  <2>3. CASE ~CdeDespacha
    <3>1. io' = io
      BY <2>3, <1>7 DEF AtenderCpu, CdeTermina, CdeFinDeQuantum, CdeIO, PideIO, CdeIOInvalida,
         CdeEncola, CdeEsperaExec, ExecAFinalizado, ExecAReady, DejaExec, ExecABlock,
         ExecABlockAnota, FinDeBloqueo
    <3> QED BY <1>2, <2>1, <3>1
  <2> QED BY <2>2, <2>3
<1>8. ASSUME NEW j \in Interfaces, DispositivoTermina(j) \/ AtenderIO(j) PROVE Encontro(i)
  <2>1. CASE DispositivoTermina(j) \/ BlockAReadyNulo(j)
    BY <2>1, <1>1, <1>2 DEF DispositivoTermina, BlockAReadyNulo, Muere, TipoIo
  <2>2. CASE IoRecibeLibre(j) \/ IoLibera(j)
    BY <2>2, <1>1, <1>2 DEF IoRecibeLibre, IoLibera, Ir, TipoIo
  <2>3. CASE IoEsperaBlocked(j) \/ BlockAReadyAnota(j)
    BY <2>3, <1>1, <1>2 DEF IoEsperaBlocked, BlockAReadyAnota, FinDeDesbloqueo, Ir
  <2>4. CASE IoSiguiente(j)
    BY <2>4, <1>1, <1>2 DEF IoSiguiente, Ir, TipoIo
  <2>5. CASE BlockAReady(j)
    BY <2>5, <1>1, <1>2 DEF BlockAReady, Ir, TipoIo
  <2>6. CASE BlockAReadyBusca(j)
    <3>1. pc' = [pc EXCEPT ![j] = "mueve"] /\ io' = [io EXCEPT ![j].posicion = Posicion(io[j].pcb)]
      BY <2>6 DEF BlockAReadyBusca, Transita
    <3>2. io'[i].pcb = io[i].pcb
      BY <3>1, <1>1 DEF TipoIo
    <3>3. CASE i = j
      BY <2>6, <3>2, <3>3 DEF Encontro
    <3>4. CASE i # j
      BY <3>1, <3>4, <1>1, <1>2
    <3> QED BY <3>3, <3>4
  <2> QED BY <1>8, <2>1, <2>2, <2>3, <2>4, <2>5, <2>6 DEF AtenderIO
<1>9. ASSUME NEW h \in Hilos, Pausar(h) PROVE Encontro(i)
  <2>1. CASE h = i
    BY <2>1, <1>9, <1>1 DEF Pausar, Detenerse, Dormirse, Ir
  <2>2. CASE h # i
    BY <2>2, <1>9, <1>1, <1>2 DEF Pausar, Detenerse, Dormirse, Ir
  <2> QED BY <2>1, <2>2
<1> QED BY <1>3, <1>4, <1>5, <1>6, <1>7, <1>8, <1>9 DEF Next

LEMMA EPaso ==
  ASSUME ~CarreraEstado PROVE RInv /\ RInv' /\ EInv /\ [Next]_vars => EInv'
<1> SUFFICES ASSUME RInv, RInv', EInv, [Next]_vars PROVE EInv'
  OBVIOUS
<1>1. /\ TypeOK /\ estado \in [Pids -> Estados] /\ lugar \in [Pids -> Estados]
      /\ \A h \in HilosQueAnotan : DestinoDe(h) \in {"BLOCKED", "READY"}
  BY DEF RInv, IInv, TypeOK, TipoProcesos, DestinoDe
\* What a thread found is blocked, before and after.
<1>2. ASSUME NEW i \in Interfaces, pc'[i] = "mueve", io'[i].posicion # 0
      PROVE  /\ \A h \in HilosQueAnotan : Anota(h) => PcbDe(h) # io'[i].pcb
             /\ lugar'[io'[i].pcb] = "BLOCKED"
             /\ pc[i] = "mueve" => lugar[io'[i].pcb] = "BLOCKED"
  <2>1. lugar'[io'[i].pcb] = "BLOCKED"
    BY <1>2 DEF RInv, BusquedaVigente, Lugar, LugarFiel, EstadoDe, Colas
  <2>2. CASE pc[i] = "mueve" /\ io'[i].pcb = io[i].pcb /\ io'[i].posicion = io[i].posicion
    <3>1. lugar[io[i].pcb] = "BLOCKED"
      BY <1>2, <2>2 DEF RInv, BusquedaVigente, Lugar, LugarFiel, EstadoDe, Colas
    <3> QED BY <1>2, <2>1, <2>2, <3>1 DEF EInv
  <2>3. CASE BlockAReadyBusca(i) /\ io'[i].pcb = io[i].pcb
    <3>1. pc[i] # "mueve"
      BY <2>3 DEF BlockAReadyBusca, Transita, PuedePasar
    <3>2. ~PorAnotar(io[i].pcb)
      BY <2>3 DEF BlockAReadyBusca
    <3>3. \A h \in HilosQueAnotan : Anota(h) => PcbDe(h) # io[i].pcb
      BY <3>2, SonHilos DEF PorAnotar, HilosQueAnotan, Anota, PcbDe
    <3> QED BY <2>1, <2>3, <3>1, <3>3
  <2> QED BY <1>1, <1>2, <2>2, <2>3, QuienEncontro DEF Encontro
<1>3. CASE NadaEscrito
  BY <1>2, <1>3 DEF EInv, NadaEscrito, MismoApunte
<1>4. CASE Juntos
  <2>1. PICK p \in Pids, e \in Estados \ {"NO_CREADO"} :
          /\ Anotar(p, e) /\ Ubicar(p, e)
          /\ lugar[p] \in {"NO_CREADO", "EXEC"} \/ ~PorAnotar(p)
    BY <1>4 DEF Juntos
  <2>2. \A h \in HilosQueAnotan : Anota(h) => PcbDe(h) # p
    <3>1. CASE lugar[p] \in {"NO_CREADO", "EXEC"}
      BY <3>1, <1>1 DEF EInv
    <3>2. CASE ~PorAnotar(p)
      BY <3>2, QuienAnota DEF PorHilos
    <3> QED BY <2>1, <3>1, <3>2
  <2>3. \A h \in HilosQueAnotan : MismoApunte(h)
    BY <1>4 DEF Juntos
  <2>4. estado'[p] = lugar'[p] /\ \A q : q # p => estado'[q] = estado[q] /\ lugar'[q] = lugar[q]
    BY <2>1, <1>1 DEF Anotar, Ubicar
  <2> QED BY <1>1, <1>2, <2>2, <2>3, <2>4 DEF EInv, MismoApunte
<1>5. CASE SoloLugar
  <2>1. PICK k \in HilosQueAnotan, p \in Pids :
          /\ ~Anota(k) /\ Anota(k)' /\ PcbDe(k)' = p
          /\ \A h \in HilosQueAnotan \ {k} : MismoApunte(h)
          /\ estado' = estado /\ Ubicar(p, DestinoDe(k))
          /\ \/ lugar[p] \in {"NEW", "EXEC"}
             \/ k \in Interfaces /\ pc[k] = "mueve" /\ io[k].posicion # 0 /\ io[k].pcb = p
    BY <1>5 DEF SoloLugar
  <2>2. \A h \in HilosQueAnotan : Anota(h) => PcbDe(h) # p
    BY <2>1, <1>1 DEF EInv
  <2>3. lugar'[p] = DestinoDe(k) /\ \A q : q # p => lugar'[q] = lugar[q]
    BY <2>1, <1>1 DEF Ubicar
  <2>4. \A i \in Interfaces : pc'[i] = "mueve" /\ io'[i].posicion # 0 => io'[i].pcb # p
    <3>1. SUFFICES ASSUME NEW i \in Interfaces, pc'[i] = "mueve", io'[i].posicion # 0, io'[i].pcb = p
                   PROVE  FALSE
      OBVIOUS
    <3>2. DestinoDe(k) = "BLOCKED"
      BY <1>2, <2>3, <3>1
    <3>3. k = "cde"
      BY <3>2 DEF DestinoDe
    <3>4. lugar[p] \in {"NEW", "EXEC"}
      BY <2>1, <3>3, SonHilos
    <3>5. pc[i] = "mueve"
      <4>1. pc'["cde"] = "anota" /\ pc["cde"] # "anota"
        BY <2>1, <3>3 DEF Anota
      <4>2. ~BlockAReadyBusca(i)
        BY <1>1, <4>1, SonHilos DEF BlockAReadyBusca, Transita, TypeOK, TipoHilos
      <4> QED BY <4>2, <1>1, <3>1, QuienEncontro DEF Encontro
    <3> QED BY <1>2, <3>1, <3>4, <3>5
  <2>5. \A h \in HilosQueAnotan : Anota(h)' => h = k \/ (Anota(h) /\ PcbDe(h)' = PcbDe(h))
    BY <2>1 DEF MismoApunte
  <2>6. \A h \in HilosQueAnotan : Anota(h) => h # k /\ Anota(h)' /\ PcbDe(h)' = PcbDe(h)
    BY <2>1 DEF MismoApunte
  <2> QED BY <1>1, <1>2, <2>1, <2>2, <2>3, <2>4, <2>5, <2>6 DEF EInv, DestinoDe
<1>6. CASE SoloEstado
  <2>1. PICK k \in HilosQueAnotan :
          /\ Anota(k) /\ ~Anota(k)'
          /\ \A h \in HilosQueAnotan \ {k} : MismoApunte(h)
          /\ lugar' = lugar /\ Anotar(PcbDe(k), DestinoDe(k))
    BY <1>6 DEF SoloEstado
  <2>2. PICK p : p = PcbDe(k)
    OBVIOUS
  <2>3. lugar[p] = DestinoDe(k) /\ \A h \in HilosQueAnotan : Anota(h) /\ PcbDe(h) = p => h = k
    BY <2>1, <2>2 DEF EInv
  <2>4. \A q \in Pids : estado'[q] = IF q = p THEN DestinoDe(k) ELSE estado[q]
    BY <2>1, <2>2, <1>1 DEF Anotar
  <2>5. \A h \in HilosQueAnotan : Anota(h)' => h # k /\ Anota(h) /\ PcbDe(h)' = PcbDe(h)
    BY <2>1 DEF MismoApunte
  <2>6. \A h \in HilosQueAnotan \ {k} : Anota(h) => Anota(h)' /\ PcbDe(h)' = PcbDe(h)
    BY <2>1 DEF MismoApunte
  <2> QED BY <1>1, <1>2, <2>1, <2>2, <2>3, <2>4, <2>5, <2>6 DEF EInv, DestinoDe
<1> QED BY <1>3, <1>4, <1>5, <1>6, Apuntes

\* If nobody takes a PCB out of its new queue before its estado is written,
\* the estado is that of its place in every state but those in between: two
\* threads never write the same PCB in the wrong order.  (ReadyAExec of a PCB
\* about to be written is what breaks it: configuration falla_estado_tarde.)
THEOREM EstadoVerdadero == ~CarreraEstado /\ BusquedaSola => (Spec => []EstadoFiel)
<1> SUFFICES ASSUME ~CarreraEstado, BusquedaSola PROVE Spec => []EstadoFiel
  OBVIOUS
<1>1. Init => EInv
  BY SonHilos DEF Init, EInv, HilosQueAnotan, Anota
<1>2. RInv /\ RInv' /\ EInv /\ [Next]_vars => EInv'
  BY EPaso
<1>3. RInv /\ EInv => EstadoFiel
  BY QuienAnota DEF RInv, Lugar, EInv, EstadoFiel, PorHilos
<1> QED BY <1>1, <1>2, <1>3, CadaUnoEnSuLugar, PTL DEF Spec

(***************************************************************************)
(* Ready is served in order of arrival.                                    *)
(***************************************************************************)
\* Ready stays, loses its head, or gets one process that was not in it.
LEMMA ReadyCambia ==
  ASSUME RInv, [Next]_vars
  PROVE  \/ cola'["Ready"] = cola["Ready"]
         \/ cola["Ready"] # <<>> /\ cola'["Ready"] = Tail(cola["Ready"])
         \/ \E p \in Pids \ EnCola("Ready") : cola'["Ready"] = Append(cola["Ready"], p)
<1>0. TypeOK
  BY Partes
<1>1. CASE Quieto
  BY <1>1 DEF Quieto
<1>2. CASE IniciarProceso \/ TerminarProceso
  BY <1>2, Partes DEF IniciarProceso, TerminarProceso, Agregar, TipoColas, Colas
<1>3. CASE NewAReady
  <2>1. cola["New"] # <<>>
    <3>1. EnTransicion("largo")
      BY <1>3, PausaBaja, SonHilos DEF NewAReady, RInv, IInv
    <3>2. list_size("New") > 0
      BY <3>1, Numeros DEF RInv, IInv, SemaforosFieles, Uno
    <3> QED BY <3>2 DEF list_size
  <2>2. Head(cola["New"]) \in Pids \ EnCola("Ready")
    BY <2>1, LaCabeza DEF Colas
  <2>3. cola'["Ready"] = Append(cola["Ready"], Head(cola["New"]))
    BY <1>3, Partes DEF NewAReady, Mover, TipoColas, Colas
  <2> QED BY <2>2, <2>3
<1>4. CASE ReadyAExec
  <2>1. EnTransicion("corto")
    BY <1>4, PausaBaja, SonHilos DEF ReadyAExec, RInv, IInv
  <2>2. PICK c \in {"Ready", "ReadyPlus"} : c = ColaElegida /\ list_size(c) > 0
    BY <2>1, HayListo DEF RInv
  <2>3. cola[c] # <<>> /\ cola' = [cola EXCEPT ![c] = Tail(cola[c])]
    BY <1>4, <2>2 DEF ReadyAExec, list_size
  <2> QED BY <2>3, Partes DEF TipoColas, Colas
<1>5. CASE ExecAFinalizado \/ ExecABlock
  BY <1>5, Partes DEF ExecAFinalizado, ExecABlock, DejaExec, Agregar, TipoColas, Colas
<1>6. CASE ExecAReady
  <2>1. EnTransicion("cde")
    BY <1>6, PausaBaja, SonHilos DEF ExecAReady, DejaExec, RInv, IInv
  <2>2. pcb_en_ejecucion \in Pids
    BY <2>1 DEF RInv, IInv, CpuExclusiva, EnTransicion, EnPausa, TypeOK, TipoProcesos
  <2>5. pcb_en_ejecucion = EnCpu
    BY <2>1 DEF EnCpu, EnTransicion, EnPausa
  <2>3. pcb_en_ejecucion \notin EnCola("Ready")
    BY <2>2, <2>5, Partes DEF FielPorConjuntos, EstadoDe, Colas
  <2>4. cola'["Ready"] = Append(cola["Ready"], pcb_en_ejecucion)
    BY <1>6, Partes DEF ExecAReady, DejaExec, Agregar, TipoColas, Colas
  <2> QED BY <2>2, <2>3, <2>4
<1>7. ASSUME NEW i \in Interfaces, BlockAReady(i)
      PROVE  \/ cola'["Ready"] = cola["Ready"]
             \/ \E p \in Pids \ EnCola("Ready") : cola'["Ready"] = Append(cola["Ready"], p)
  <2>7. pc[i] = "mueve" /\ io[i].posicion \in DOMAIN cola["Bloqueados"]
    BY <1>7 DEF BlockAReady, Ir
  <2>8. cola["Bloqueados"] \in Seq(Pids) /\ DOMAIN cola["Bloqueados"] = 1..Len(cola["Bloqueados"])
    BY Partes DEF Colas
  <2>9. io[i].posicion # 0
    BY <2>7, <2>8
  <2>1. PICK p, r : p = cola["Bloqueados"][io[i].posicion] /\ r = Quitar("Bloqueados", io[i].pcb)
    OBVIOUS
  <2>2. cola' = [cola EXCEPT !["Bloqueados"] = r,
                             ![ColaDestino(transicion[i])] = Append(@, p)]
    BY <1>7, <2>1 DEF BlockAReady
  <2>3. p \in Pids /\ p \in EnCola("Bloqueados")
    BY <2>1, <2>7, <2>8, Partes, PosicionesDe DEF Colas
  <2>4. p \notin EnCola("Ready")
    BY <2>3, Partes DEF Separadas, Colas
  <2>5. CASE ColaDestino(transicion[i]) = "Ready"
    BY <2>2, <2>3, <2>4, <2>5, Partes DEF TipoColas, Colas
  <2>6. CASE ColaDestino(transicion[i]) = "ReadyPlus"
    BY <2>2, <2>6, Partes DEF TipoColas, Colas
  <2> QED BY <2>5, <2>6 DEF ColaDestino
<1> QED BY <1>0, <1>1, <1>2, <1>3, <1>4, <1>5, <1>6, <1>7, QuietoOMueve DEF MueveUno

\* Who is before a process, by positions.
LEMMA QuienAdelante ==
  ASSUME RInv, NEW p, NEW x
  PROVE  x \in Adelante(p) <=> \E k, m \in DOMAIN cola["Ready"] :
                                  k < m /\ cola["Ready"][m] = p /\ cola["Ready"][k] = x
BY DEF Adelante

\* One step of Ready never puts anyone before a process that waits.
LEMMA NadieSeAdelanta ==
  ASSUME RInv, RInv', [Next]_vars, NEW p \in EnCola("Ready")
  PROVE  IF Contains(cola'["Ready"], p) THEN Adelante(p)' \subseteq Adelante(p)
                                        ELSE Adelante(p) = {}
<1> DEFINE s == cola["Ready"]
           t == cola'["Ready"]
<1>1. /\ s \in Seq(Pids) /\ DOMAIN s = 1..Len(s) /\ Len(s) \in Nat /\ IsInjective(s)
      /\ \A x : x \in EnCola("Ready") <=> \E k \in DOMAIN s : s[k] = x
  BY Partes, PosicionesDe DEF Colas
<1>2. \A x : x \in Adelante(p)' <=> \E k, m \in DOMAIN t : k < m /\ t[m] = p /\ t[k] = x
  BY DEF Adelante
<1>3. \A x : x \in Adelante(p) <=> \E k, m \in DOMAIN s : k < m /\ s[m] = p /\ s[k] = x
  BY QuienAdelante
<1>4. t \in Seq(Pids)
  BY DEF RInv, IInv, TypeOK, TipoProcesos, Colas
<1>5. \A x : Contains(t, x) <=> x \in ToSet(t)
  BY <1>4, Elementos
<1> HIDE DEF s, t
<1>6. CASE t = s
  <2>1. Contains(t, p)
    BY <1>5, <1>6 DEF EnCola, s
  <2> QED BY <1>2, <1>3, <1>6, <2>1 DEF t
<1>7. CASE s # <<>> /\ t = Tail(s)
  <2>1. /\ DOMAIN t = 1..(Len(s) - 1) /\ Head(s) = s[1] /\ Len(s) > 0
        /\ \A k \in 1..(Len(s) - 1) : t[k] = s[k + 1]
    <3>1. /\ Len(t) = Len(s) - 1 /\ t \in Seq(Pids)
          /\ \A k \in 1..Len(t) : t[k] = s[k + 1]
      BY <1>1, <1>7, HeadTailProperties
    <3> QED BY <1>1, <1>7, <3>1, EmptySeq
  <2>2. CASE p = s[1]
    <3>1. ~Contains(t, p)
      <4>1. ToSet(t) = ToSet(s) \ {Head(s)}
        BY <1>1, <1>7, ElementosSaca
      <4> QED BY <1>5, <2>1, <2>2, <4>1
    <3>2. \A m \in DOMAIN s : s[m] = p => m = 1
      BY <1>1, <2>1, <2>2 DEF IsInjective
    <3>3. Adelante(p) = {}
      BY <1>1, <1>3, <3>2
    <3> QED BY <3>1, <3>3 DEF t
  <2>3. CASE p # s[1]
    <3>1. Contains(t, p)
      <4>1. ToSet(t) = ToSet(s) \ {Head(s)}
        BY <1>1, <1>7, ElementosSaca
      <4> QED BY <1>5, <2>1, <2>3, <4>1 DEF EnCola, s
    <3>2. ASSUME NEW x \in Adelante(p)' PROVE x \in Adelante(p)
      <4>1. PICK k \in DOMAIN t, m \in DOMAIN t : k < m /\ t[m] = p /\ t[k] = x
        BY <1>2, <3>2
      <4>2. /\ k + 1 \in DOMAIN s /\ m + 1 \in DOMAIN s /\ k + 1 < m + 1
            /\ s[m + 1] = p /\ s[k + 1] = x
        BY <1>1, <2>1, <4>1
      <4> QED BY <1>3, <4>2
    <3> QED BY <3>1, <3>2 DEF t
  <2> QED BY <2>2, <2>3
<1>8. ASSUME NEW q \in Pids \ EnCola("Ready"), t = Append(s, q)
      PROVE  IF Contains(t, p) THEN Adelante(p)' \subseteq Adelante(p) ELSE Adelante(p) = {}
  <2>1. /\ DOMAIN t = 1..(Len(s) + 1) /\ t[Len(s) + 1] = q
        /\ \A k \in 1..Len(s) : t[k] = s[k]
    BY <1>1, <1>4, <1>8, AppendProperties
  <2>2. Contains(t, p)
    <3>1. ToSet(t) = ToSet(s) \cup {q}
      BY <1>1, <1>8, ElementosAgrega
    <3> QED BY <1>5, <3>1 DEF EnCola, s
  <2>3. ASSUME NEW x \in Adelante(p)' PROVE x \in Adelante(p)
    <3>1. PICK k \in DOMAIN t, m \in DOMAIN t : k < m /\ t[m] = p /\ t[k] = x
      BY <1>2, <2>3
    <3>2. m # Len(s) + 1
      BY <1>8, <2>1, <3>1
    <3>3. k \in DOMAIN s /\ m \in DOMAIN s /\ s[m] = p /\ s[k] = x
      BY <1>1, <2>1, <3>1, <3>2
    <3> QED BY <1>3, <3>1, <3>3
  <2> QED BY <2>2, <2>3
<1> QED BY <1>6, <1>7, <1>8, ReadyCambia DEF s, t

\* Ready is FIFO: while a process waits in it nobody gets before it, and it
\* is only taken out when nobody is before it.
THEOREM OrdenDeLlegada == BusquedaSola => (Spec => SinAdelantos)
<1> SUFFICES ASSUME BusquedaSola PROVE Spec => SinAdelantos
  OBVIOUS
<1>1. RInv /\ RInv' /\ [Next]_vars =>
        [\A p \in ToSet(cola["Ready"]) :
           IF Contains(cola'["Ready"], p) THEN Adelante(p)' \subseteq Adelante(p)
                                          ELSE Adelante(p) = {}]_vars
  BY NadieSeAdelanta DEF EnCola
<1> QED BY <1>1, CadaUnoEnSuLugar, PTL DEF Spec, SinAdelantos

(***************************************************************************)
(* procesos_en_blocked counts procesosBloqueados.                          *)
(***************************************************************************)
EnEspera == {i \in Interfaces : EnTransicion(i) \/ pc[i] = "mueve"}
\* The process enviar_de_exec_a_block put there and has not posted.
SinPostear == Uno(pc["cde"] = "anota")

\* A step that posts to other semaphores.
LEMMA OtroSube ==
  ASSUME TypeOK, NEW S, sem_post(S), "procesos_en_blocked" \notin S
  PROVE  sem'["procesos_en_blocked"] = sem["procesos_en_blocked"]
BY SemSube DEF Semaforos

\* A step that waits on another semaphore.
LEMMA OtroBaja ==
  ASSUME TypeOK, NEW s \in Semaforos \ {"procesos_en_blocked"}, sem_wait(s)
  PROVE  sem'["procesos_en_blocked"] = sem["procesos_en_blocked"]
BY SemBaja DEF Semaforos

\* A step of a thread of the Kernel does not move those of the interfaces.
LEMMA InterfacesQuietas ==
  ASSUME TypeOK, NEW h \in {"largo", "corto", "cde", "reloj"}, NEW v, pc' = [pc EXCEPT ![h] = v]
  PROVE  /\ EnEspera' = EnEspera
         /\ h # "cde" \/ (pc["cde"] # "anota" /\ v # "anota") => SinPostear' = SinPostear
<1>1. \A i \in Interfaces : pc'[i] = pc[i]
  BY SonHilos
<1>2. h # "cde" => pc'["cde"] = pc["cde"]
  BY SonHilos
<1>3. h = "cde" => pc'["cde"] = v
  BY SonHilos DEF TypeOK, TipoHilos
<1> QED BY <1>1, <1>2, <1>3 DEF EnEspera, EnTransicion, SinPostear, Uno

LEMMA CdeQuieto ==
  ASSUME TypeOK, NEW v, pc["cde"] # "anota", v # "anota", pc' = [pc EXCEPT !["cde"] = v]
  PROVE  EnEspera' = EnEspera /\ SinPostear' = SinPostear
BY SonHilos DEF EnEspera, EnTransicion, SinPostear, Uno, TypeOK, TipoHilos

\* Between two points of the thread of an interface that are not the pause.
LEMMA InterfazFuera ==
  ASSUME TypeOK, NEW i \in Interfaces,
         NEW v \in {"inicio", "blocked", "anota", "liberar", "siguiente"},
         pc[i] \notin EnPausa, pc[i] # "mueve", pc' = [pc EXCEPT ![i] = v]
  PROVE  EnEspera' = EnEspera /\ SinPostear' = SinPostear
BY SonHilos DEF EnEspera, EnTransicion, EnPausa, TypeOK, TipoHilos, SinPostear

\* What neither blocks a process nor wakes one moves none of the four.
BlockedQuieto ==
  /\ cola'["Bloqueados"] = cola["Bloqueados"]
  /\ SinPostear' = SinPostear
  /\ sem'["procesos_en_blocked"] = sem["procesos_en_blocked"]
  /\ EnEspera' = EnEspera

\* The steps of the Kernel's own threads and of the console.
LEMMA BlockedAparteKernel ==
  ASSUME TypeOK,
         \/ Consola \/ PlanificadorLargo \/ PlanificadorCorto \/ Reloj \/ Cpu
         \/ TerminarProceso \/ UNCHANGED vars
  PROVE  BlockedQuieto
<1> USE DEF BlockedQuieto, colas, pausas, dispositivos
<1>1. CASE Consola
  <2>1. CASE IniciarProceso
    <3>1. cola'["Bloqueados"] = cola["Bloqueados"] /\ pc' = pc
      BY <2>1 DEF IniciarProceso, Agregar, TypeOK, TipoProcesos, Colas
    <3>2. sem'["procesos_en_blocked"] = sem["procesos_en_blocked"]
      BY <2>1, OtroSube DEF IniciarProceso
    <3> QED BY <3>1, <3>2 DEF EnEspera, EnTransicion, SinPostear
  <2>2. CASE DetenerPlanificacion \/ IniciarPlanificacion
    BY <2>2 DEF DetenerPlanificacion, IniciarPlanificacion, EnEspera, EnTransicion, SinPostear
  <2> QED BY <1>1, <2>1, <2>2 DEF Consola
<1>2. CASE PlanificadorLargo
  <2>1. CASE LargoEsperaNew \/ LargoEsperaGrado
    BY <2>1, OtroBaja, InterfacesQuietas DEF LargoEsperaNew, LargoEsperaGrado, Ir, Semaforos
  <2>2. CASE NewAReady
    <3>1. cola'["Bloqueados"] = cola["Bloqueados"]
      BY <2>2 DEF NewAReady, Mover, TypeOK, TipoProcesos, Colas
    <3> QED BY <2>2, <3>1, InterfacesQuietas DEF NewAReady, Transita
  <2>3. CASE NewAReadyAnota
    BY <2>3, OtroSube, InterfacesQuietas DEF NewAReadyAnota, Ir
  <2> QED BY <1>2, <2>1, <2>2, <2>3 DEF PlanificadorLargo
<1>3. CASE PlanificadorCorto
  <2>1. CASE CortoEsperaCpu \/ CortoEsperaReady \/ CortoEsperaReloj
    BY <2>1, OtroBaja, InterfacesQuietas
       DEF CortoEsperaCpu, CortoEsperaReady, CortoEsperaReloj, Ir, Semaforos
  <2>2. CASE ReadyAExec
    <3>1. cola'["Bloqueados"] = cola["Bloqueados"]
      BY <2>2 DEF ReadyAExec, ColaElegida, TypeOK, TipoProcesos, Colas
    <3> QED BY <2>2, <3>1, OtroSube, InterfacesQuietas DEF ReadyAExec, Transita
  <2>3. CASE EnviarCdeACpu
    BY <2>3, OtroSube, InterfacesQuietas DEF EnviarCdeACpu, Ir
  <2> QED BY <1>3, <2>1, <2>2, <2>3 DEF PlanificadorCorto
<1>4. CASE Reloj
  <2>1. CASE RelojInicia
    BY <2>1, OtroBaja, InterfacesQuietas DEF RelojInicia, Ir, Semaforos
  <2>2. CASE RelojVence
    BY <2>2, InterfacesQuietas DEF RelojVence, Ir
  <2>3. CASE RelojInterrumpe \/ RelojCaduca
    BY <2>3, OtroSube, InterfacesQuietas DEF RelojInterrumpe, RelojCaduca, Ir
  <2>4. CASE RelojNulo
    BY <2>4 DEF RelojNulo, Muere, EnEspera, EnTransicion, SinPostear
  <2> QED BY <1>4, <2>1, <2>2, <2>3, <2>4 DEF Reloj
<1>5. CASE Cpu
  BY <1>5 DEF Cpu, CpuBloqueante, CpuSigue, CpuDevuelve, CpuInterrumpida, EnEspera, EnTransicion, SinPostear
<1>6. CASE TerminarProceso
  <2>1. cola'["Bloqueados"] = cola["Bloqueados"] /\ pc' = pc
    BY <1>6 DEF TerminarProceso, TypeOK, TipoProcesos, Colas
  <2>2. sem'["procesos_en_blocked"] = sem["procesos_en_blocked"]
    BY <1>6, OtroBaja DEF TerminarProceso, Semaforos
  <2> QED BY <2>1, <2>2 DEF EnEspera, EnTransicion, SinPostear
<1>7. CASE UNCHANGED vars
  BY <1>7 DEF vars, EnEspera, EnTransicion, SinPostear
<1> QED BY <1>1, <1>2, <1>3, <1>4, <1>5, <1>6, <1>7

\* The steps of the threads that attend the CPU and the interfaces, except
\* the one that blocks, the one that waits and the one that wakes.
LEMMA BlockedAparteAtender ==
  ASSUME TypeOK,
         \/ AtenderCpu /\ ~ExecABlock /\ ~ExecABlockAnota
         \/ \E i \in Interfaces : /\ DispositivoTermina(i) \/ AtenderIO(i)
                                  /\ ~IoEsperaBlocked(i) /\ ~BlockAReady(i)
         \/ \E h \in Hilos : Pausar(h)
  PROVE  BlockedQuieto
<1> USE DEF BlockedQuieto, colas, pausas, dispositivos
<1>1. CASE AtenderCpu /\ ~ExecABlock /\ ~ExecABlockAnota
  <2>1. CASE \/ CdeTermina \/ CdeFinDeQuantum \/ (\E i \in Interfaces : CdeIO(i)) \/ CdeIOInvalida
    <3>1. ASSUME NEW M, NEW t, NEW v, RecibeCde(M, t), Ir("cde", "inicio", v), v # "anota"
          PROVE  BlockedQuieto
      BY <3>1, OtroBaja, InterfacesQuietas DEF RecibeCde, Ir, Semaforos
    <3> QED BY <2>1, <3>1 DEF CdeTermina, CdeFinDeQuantum, CdeIO, PideIO, CdeIOInvalida
  <2>2. CASE CdeEncola \/ CdeDespacha
    BY <2>2, InterfacesQuietas DEF CdeEncola, CdeDespacha, Ir
  <2>3. CASE CdeEsperaExec
    <3>1. pc["cde"] = "exec" /\ pc' = [pc EXCEPT !["cde"] = "chequeo"] /\ cola' = cola
      BY <2>3 DEF CdeEsperaExec, Ir
    <3>2. EnEspera' = EnEspera /\ SinPostear' = SinPostear
      BY <3>1, CdeQuieto
    <3>3. sem'["procesos_en_blocked"] = sem["procesos_en_blocked"]
      BY <2>3, OtroBaja DEF CdeEsperaExec, Semaforos
    <3> QED BY <3>1, <3>2, <3>3
  <2>4. CASE ExecAFinalizado \/ ExecAReady
    <3>1. ASSUME NEW t, NEW c \in {"Finalizados", "Ready"}, NEW e, NEW S, DejaExec(t, c, e, S),
                 "procesos_en_blocked" \notin S
          PROVE  BlockedQuieto
      <4>1. cola'["Bloqueados"] = cola["Bloqueados"]
        BY <3>1 DEF DejaExec, Agregar, TypeOK, TipoProcesos, Colas
      <4>2. EnEspera' = EnEspera /\ SinPostear' = SinPostear
        <5>1. pc["cde"] # "anota" /\ pc' = [pc EXCEPT !["cde"] = "inicio"]
          BY <3>1 DEF DejaExec, Transita, PuedePasar
        <5> QED BY <5>1, CdeQuieto
      <4>3. sem'["procesos_en_blocked"] = sem["procesos_en_blocked"]
        BY <3>1, OtroSube DEF DejaExec
      <4> QED BY <4>1, <4>2, <4>3
    <3> QED BY <2>4, <3>1 DEF ExecAFinalizado, ExecAReady
  <2> QED BY <1>1, <2>1, <2>2, <2>3, <2>4 DEF AtenderCpu
<1>2. ASSUME NEW i \in Interfaces, DispositivoTermina(i) \/ AtenderIO(i),
             ~IoEsperaBlocked(i), ~BlockAReady(i)
      PROVE  BlockedQuieto
  <2>1. CASE DispositivoTermina(i) \/ BlockAReadyNulo(i)
    BY <2>1 DEF DispositivoTermina, BlockAReadyNulo, Muere, EnEspera, EnTransicion, SinPostear
  <2>2. CASE IoRecibeLibre(i)
    BY <2>2, InterfazFuera DEF IoRecibeLibre, Ir, EnPausa
  <2>5. CASE BlockAReadyBusca(i)
    <3>1. EnTransicion(i) /\ pc' = [pc EXCEPT ![i] = "mueve"]
      BY <2>5, PausaBaja, SonHilos DEF BlockAReadyBusca
    <3>2. pc'["cde"] = pc["cde"] /\ \A j \in Interfaces \ {i} : pc'[j] = pc[j]
      BY <3>1, SonHilos DEF TypeOK, TipoHilos
    <3>3. pc'[i] = "mueve"
      BY <3>1, SonHilos DEF TypeOK, TipoHilos
    <3> QED BY <2>5, <3>1, <3>2, <3>3 DEF BlockAReadyBusca, EnEspera, EnTransicion, SinPostear
  <2>6. CASE BlockAReadyAnota(i)
    BY <2>6, OtroSube, InterfazFuera DEF BlockAReadyAnota, FinDeDesbloqueo, Ir, EnPausa
  <2>3. CASE IoLibera(i)
    BY <2>3, InterfazFuera DEF IoLibera, Ir, EnPausa
  <2>4. CASE IoSiguiente(i)
    BY <2>4, InterfazFuera DEF IoSiguiente, Ir, EnPausa
  <2> QED BY <1>2, <2>1, <2>2, <2>3, <2>4, <2>5, <2>6 DEF AtenderIO
<1>3. ASSUME NEW h \in Hilos, Pausar(h) PROVE BlockedQuieto
  <2>1. PICK v \in EnPausa : pc[h] \in EnPausa /\ pc' = [pc EXCEPT ![h] = v]
    BY <1>3 DEF Pausar, Detenerse, Dormirse, Ir, EnPausa
  <2>2. EnEspera' = EnEspera /\ SinPostear' = SinPostear
    BY <2>1, SonHilos DEF EnEspera, EnTransicion, EnPausa, SinPostear, TypeOK, TipoHilos
  <2>3. cola' = cola /\ sem' = sem
    BY <1>3 DEF Pausar, Detenerse, Dormirse
  <2> QED BY <2>2, <2>3
<1> QED BY <1>1, <1>2, <1>3

\* The count is kept by the four steps that move it, each in two places.
LEMMA CuentaBlocked ==
  ASSUME BusquedaSola
  PROVE  IInv /\ SiBusca /\ BloqueadosContados /\ [Next]_vars => BloqueadosContados'
<1> SUFFICES ASSUME IInv, BusquedaVigente, BloqueadosContados, [Next]_vars PROVE BloqueadosContados'
  BY DEF SiBusca
<1>1. /\ TypeOK /\ TipoColas /\ list_size("Bloqueados") \in Nat
      /\ sem \in [Semaforos -> Nat] /\ "procesos_en_blocked" \in Semaforos
      /\ list_size("Bloqueados")
           = sem["procesos_en_blocked"] + SinPostear + Cardinality(EnEspera)
      /\ SinPostear \in Nat
  BY Numeros DEF IInv, TypeOK, TipoSemaforos, Semaforos, BloqueadosContados, EnEspera,
     SinPostear, Uno
<1>2. IsFiniteSet(EnEspera) /\ Cardinality(EnEspera) \in Nat
  BY InterfacesFinitas, FS_Subset, FS_CardinalityType DEF EnEspera
<1> DEFINE Cuenta == list_size("Bloqueados")'
                       = sem'["procesos_en_blocked"] + SinPostear' + Cardinality(EnEspera')
<1>3. SUFFICES Cuenta
  BY DEF BloqueadosContados, EnEspera, SinPostear
<1>4. CASE BlockedQuieto
  BY <1>1, <1>4 DEF BlockedQuieto, list_size
<1>5. CASE ExecABlock
  <2>1. EnTransicion("cde") /\ pc' = [pc EXCEPT !["cde"] = "anota"]
    BY <1>1, <1>5, PausaBaja, SonHilos DEF ExecABlock
  <2>2. pcb_en_ejecucion \in Pids
    BY <2>1 DEF IInv, CpuExclusiva, EnTransicion, EnPausa, TypeOK, TipoProcesos
  <2>3. list_size("Bloqueados")' = list_size("Bloqueados") + 1
    BY <1>1, <1>5, <2>2, ColaAgrega DEF ExecABlock, Colas
  <2>4. sem' = sem
    BY <1>5 DEF ExecABlock
  <2>5. EnEspera' = EnEspera
    BY <1>1, <2>1, InterfacesQuietas
  <2>6. SinPostear = 0 /\ SinPostear' = 1
    BY <1>1, <2>1, SonHilos DEF SinPostear, Uno, EnTransicion, EnPausa, TypeOK, TipoHilos
  <2> QED BY <1>1, <1>2, <2>3, <2>4, <2>5, <2>6
<1>8. CASE ExecABlockAnota
  <2>1. pc["cde"] = "anota" /\ pc' = [pc EXCEPT !["cde"] = "inicio"] /\ cola' = cola
    BY <1>8 DEF ExecABlockAnota, FinDeBloqueo, Ir
  <2>2. sem'["procesos_en_blocked"] = sem["procesos_en_blocked"] + 1
    BY <1>1, <1>8, SemSube DEF ExecABlockAnota, FinDeBloqueo
  <2>3. EnEspera' = EnEspera
    BY <1>1, <2>1, InterfacesQuietas
  <2>4. SinPostear = 1 /\ SinPostear' = 0
    BY <1>1, <2>1, SonHilos DEF SinPostear, Uno, TypeOK, TipoHilos
  <2> QED BY <1>1, <1>2, <2>1, <2>2, <2>3, <2>4 DEF list_size
<1>6. ASSUME NEW i \in Interfaces, IoEsperaBlocked(i)
      PROVE  Cuenta
  <2>1. pc[i] = "blocked" /\ pc' = [pc EXCEPT ![i] = "chequeo"] /\ cola' = cola
    BY <1>6 DEF IoEsperaBlocked, Ir, colas
  <2>2. i \notin EnEspera /\ EnEspera' = EnEspera \cup {i} /\ SinPostear' = SinPostear
    BY <1>1, <2>1, SonHilos DEF EnEspera, EnTransicion, EnPausa, SinPostear, TypeOK, TipoHilos
  <2>3. Cardinality(EnEspera \cup {i}) = Cardinality(EnEspera) + 1
    BY <1>2, <2>2, FS_AddElement
  <2>4. sem["procesos_en_blocked"] \in Nat \ {0}
        /\ sem'["procesos_en_blocked"] = sem["procesos_en_blocked"] - 1
    BY <1>1, <1>6, SemBaja DEF IoEsperaBlocked
  <2> QED BY <1>1, <1>2, <2>1, <2>2, <2>3, <2>4 DEF list_size
<1>7. ASSUME NEW i \in Interfaces, BlockAReady(i)
      PROVE  Cuenta
  <2>1. pc[i] = "mueve" /\ pc' = [pc EXCEPT ![i] = "anota"] /\ sem' = sem
        /\ io[i].posicion \in DOMAIN cola["Bloqueados"]
    BY <1>7 DEF BlockAReady, Ir
  <2>2. i \in EnEspera /\ EnEspera' = EnEspera \ {i} /\ SinPostear' = SinPostear
    BY <1>1, <2>1, SonHilos DEF EnEspera, EnTransicion, EnPausa, SinPostear, TypeOK, TipoHilos
  <2>3. Cardinality(EnEspera \ {i}) = Cardinality(EnEspera) - 1
    BY <1>2, <2>2, FS_RemoveElement
  <2>4. list_size("Bloqueados")' = list_size("Bloqueados") - 1
    <3>1. PICK d \in {"Ready", "ReadyPlus"} : d = ColaDestino(transicion[i])
      BY DEF ColaDestino
    <3>2. PICK p, q : p = io[i].pcb /\ q = cola["Bloqueados"][io[i].posicion]
      OBVIOUS
    <3>3. /\ cola["Bloqueados"] \in Seq(Pids)
          /\ DOMAIN cola["Bloqueados"] = 1..Len(cola["Bloqueados"])
      BY <1>1 DEF TipoColas, Colas
    <3>4. io[i].posicion # 0
      BY <2>1, <3>3
    <3>5. q = p /\ q \in Pids /\ Contains(cola["Bloqueados"], p)
      BY <2>1, <3>2, <3>3, <3>4 DEF BusquedaVigente, Contains
    <3>6. cola' = [cola EXCEPT !["Bloqueados"] = Quitar("Bloqueados", p), ![d] = Append(@, q)]
      BY <1>7, <3>1, <3>2 DEF BlockAReady
    <3> QED BY <1>1, <3>5, <3>6, ColaDesbloquea
  <2> QED BY <1>1, <1>2, <2>1, <2>2, <2>3, <2>4
<1> QED BY <1>1, <1>4, <1>5, <1>6, <1>7, <1>8, BlockedAparteKernel, BlockedAparteAtender DEF Next

\* Whatever the race between evaluar_io and atender_io, the semaphore counts
\* the blocked processes: no waiter takes the token of another process.  Only
\* a removal between the search of another interface and its own could make
\* procesosBloqueados keep or lose one.
THEOREM BlockedCuenta == BusquedaSola => (Spec => []BloqueadosContados)
<1> SUFFICES ASSUME BusquedaSola PROVE Spec => []BloqueadosContados
  OBVIOUS
<1>1. Init => BloqueadosContados
  <2> SUFFICES ASSUME Init PROVE BloqueadosContados
    OBVIOUS
  <2>1. list_size("Bloqueados") = 0 /\ sem["procesos_en_blocked"] = 0
    BY DEF Init, list_size, Colas, Semaforos
  <2>2. {i \in Interfaces : EnTransicion(i) \/ pc[i] = "mueve"} = {} /\ Uno(pc["cde"] = "anota") = 0
    BY SonHilos DEF Init, EnTransicion, EnPausa, Uno
  <2> QED BY <2>1, <2>2, FS_EmptySet DEF BloqueadosContados
<1>2. IInv /\ SiBusca /\ BloqueadosContados /\ [Next]_vars => BloqueadosContados'
  BY CuentaBlocked
<1> QED BY <1>1, <1>2, Invariante, PTL DEF Spec

(***************************************************************************)
(* Who attends a blocked process.                                          *)
(***************************************************************************)
\* Moving a process out of Blocked, from the LIBRE on.
EnDespertar == {"blocked", "mueve"} \cup EnPausa
\* It has put the process in Ready, and still has the interface.
EnDespedida == {"anota", "liberar"}

\* An interface with record f and sockets d, whose thread is at point c: it
\* works for a process, or moves it, or lets it go, or looks for another one;
\* it is free only if nobody waits.
Fase(f, d, c) ==
  /\ d.trabajos + d.libres = IF f.ocupada /\ c = "inicio" THEN 1 ELSE 0
  /\ c \in EnDespertar \cup EnDespedida => f.ocupada
  /\ c = "siguiente" => ~f.ocupada
  /\ ~f.ocupada /\ c = "inicio" => f.pcb_esperando = <<>>
  /\ c \in EnDespertar => d.pcb = f.pcb_ejecutando
  /\ f.ocupada /\ c \notin EnDespedida => f.pcb_ejecutando \in Pids \ ToSet(f.pcb_esperando)
  /\ IsInjective(f.pcb_esperando)

\* Whom it has.
Suyos(f, c) ==
  ToSet(f.pcb_esperando) \cup (IF f.ocupada /\ c \notin EnDespedida THEN {f.pcb_ejecutando} ELSE {})
Tiene(i) == Suyos(interfaz[i], pc[i])

\* evaluar_io has given the process to an interface, and has not blocked it yet.
PorBloquear ==
  IF transicion["cde"] = "exec_a_blocked" /\ pc["cde"] \in {"exec"} \cup EnPausa
    THEN {pcb_en_ejecucion} ELSE {}
Dormidas == {p \in Pids : lugar[p] = "BLOCKED"} \cup PorBloquear

EsUltimo(p, s) == s = <<>> \/ p = s[Len(s)]

PuntosInterfaz == {"inicio", "siguiente"} \cup EnDespertar \cup EnDespedida

Fases == \A i \in Interfaces : Fase(interfaz[i], io[i], pc[i])
\* What evaluar_io read of the interface is still so when it acts on it.
Buscada ==
  pc["cde"] \in {"encola", "despacha"} =>
    /\ interfaz_buscada \in Interfaces /\ transicion["cde"] = "exec_a_blocked"
    /\ pc["cde"] = "encola" => interfaz[interfaz_buscada].ocupada
    /\ pc["cde"] = "despacha" =>
         ~interfaz[interfaz_buscada].ocupada /\ pc[interfaz_buscada] = "inicio"
Repartidos ==
  /\ \A p : p \in Dormidas <=> \E i \in Interfaces : p \in Tiene(i)
  /\ \A i, j \in Interfaces : i # j => Tiene(i) \cap Tiene(j) = {}
EnOrden == \A i \in Interfaces : \A p \in Tiene(i) \cap PorBloquear :
             EsUltimo(p, interfaz[i].pcb_esperando)

Atendidos == Fases /\ Buscada /\ Repartidos /\ EnOrden

BInv == RInv /\ Atendidos

\* evaluar_io is not between its read of ocupada and what it does of it while
\* atender_io has freed that interface and not yet looked for the next one.
SinCruce ==
  \A i \in Interfaces :
    ~(pc[i] = "siguiente" /\ pc["cde"] \in {"encola", "despacha"} /\ interfaz_buscada = i)

\* A step that leaves the interfaces alone, but for their threads between
\* points that count the same.
LEMMA AtencionSigue ==
  ASSUME Atendidos, UNCHANGED <<interfaz, io, interfaz_buscada>>,
         \A i \in Interfaces : pc'[i] = pc[i] \/ {pc[i], pc'[i]} \subseteq EnDespertar,
         Dormidas' = Dormidas, PorBloquear' \subseteq PorBloquear,
         pc'["cde"] \in {"encola", "despacha"} =>
           pc'["cde"] = pc["cde"] /\ transicion'["cde"] = transicion["cde"]
  PROVE  Atendidos'
<1>1. ASSUME NEW i \in Interfaces
      PROVE  Fase(interfaz[i], io[i], pc[i])' /\ Tiene(i)' = Tiene(i)
  <2>1. CASE pc'[i] = pc[i]
    BY <2>1 DEF Atendidos, Fases, Tiene
  <2>2. CASE {pc[i], pc'[i]} \subseteq EnDespertar
    BY <2>2 DEF Atendidos, Fases, Tiene, Fase, Suyos, EnDespertar, EnDespedida, EnPausa
  <2> QED BY <2>1, <2>2
<1>2. Buscada'
  BY DEF Atendidos, Buscada, EnDespertar, EnPausa
<1>3. Repartidos'
  BY <1>1 DEF Atendidos, Repartidos
<1>4. EnOrden'
  BY <1>1 DEF Atendidos, EnOrden
<1> QED BY <1>1, <1>2, <1>3, <1>4 DEF Atendidos, Fases

\* The interface i changes and no other.
LEMMA CambiaUna ==
  ASSUME Atendidos, NEW i \in Interfaces, NEW P,
         \A j \in Interfaces \ {i} :
           interfaz'[j] = interfaz[j] /\ io'[j] = io[j] /\ pc'[j] = pc[j],
         Fase(interfaz[i], io[i], pc[i])', Buscada',
         \/ Tiene(i)' = Tiene(i) /\ P = {}
         \/ Tiene(i)' = Tiene(i) \cup P /\ P \cap Dormidas = {} /\ Dormidas' = Dormidas \cup P
         \/ Tiene(i)' = Tiene(i) \ P /\ P \subseteq Tiene(i) /\ Dormidas' = Dormidas \ P,
         P = {} => Dormidas' = Dormidas,
         \A p \in Tiene(i)' \cap PorBloquear' : EsUltimo(p, interfaz'[i].pcb_esperando),
         \A j \in Interfaces \ {i} : Tiene(j) \cap PorBloquear' \subseteq PorBloquear
  PROVE  Atendidos'
<1>1. \A j \in Interfaces \ {i} : Tiene(j)' = Tiene(j) /\ Fase(interfaz[j], io[j], pc[j])'
  BY DEF Atendidos, Fases, Tiene
<1>2. Fases'
  BY <1>1 DEF Fases
<1>3. Repartidos'
  <2>1. \A j, k \in Interfaces : j # k => Tiene(j)' \cap Tiene(k)' = {}
    <3>1. \A j \in Interfaces \ {i} : Tiene(j) \subseteq Dormidas /\ Tiene(i)' \cap Tiene(j) = {}
      BY DEF Atendidos, Repartidos
    <3> QED BY <1>1, <3>1 DEF Atendidos, Repartidos
  <2>2. ASSUME NEW p PROVE p \in Dormidas' <=> \E j \in Interfaces : p \in Tiene(j)'
    <3>1. p \in Dormidas <=> \E j \in Interfaces : p \in Tiene(j)
      BY DEF Atendidos, Repartidos
    <3>2. \A j \in Interfaces \ {i} : ~(p \in Tiene(i) /\ p \in Tiene(j))
      BY DEF Atendidos, Repartidos
    <3> QED BY <1>1, <3>1, <3>2
  <2> QED BY <2>1, <2>2 DEF Repartidos
<1>4. EnOrden'
  BY <1>1 DEF Atendidos, EnOrden
<1> QED BY <1>2, <1>3, <1>4 DEF Atendidos

\* The same processes are blocked, or about to be, if states change only
\* among the others and "cde" counts the same.
LEMMA MismasDormidas ==
  ASSUME transicion' = transicion,
         pcb_en_ejecucion' = pcb_en_ejecucion \/ EnCpu' = EnCpu,
         pc'["cde"] \in {"exec"} \cup EnPausa <=> pc["cde"] \in {"exec"} \cup EnPausa,
         \A p \in Pids : lugar'[p] = "BLOCKED" <=> lugar[p] = "BLOCKED"
  PROVE  Dormidas' = Dormidas /\ PorBloquear' = PorBloquear
<1>1. PorBloquear' = PorBloquear
  BY DEF PorBloquear, EnCpu, EnPausa
<1>2. {p \in Pids : lugar'[p] = "BLOCKED"} = {p \in Pids : lugar[p] = "BLOCKED"}
  OBVIOUS
<1> QED BY <1>1, <1>2 DEF Dormidas

\* A thread that is not the one of an interface nor "cde".
LEMMA OtroHilo ==
  ASSUME TypeOK, NEW h \in {"largo", "corto", "reloj"}, NEW v, pc' = [pc EXCEPT ![h] = v]
  PROVE  pc'["cde"] = pc["cde"] /\ \A i \in Interfaces : pc'[i] = pc[i]
BY SonHilos DEF TypeOK, TipoHilos

\* The steps of the console, the schedulers, the clock and the CPU that move
\* no process.
LEMMA AtencionOtros ==
  ASSUME BInv, Quieto,
         \/ Consola \/ PlanificadorLargo \/ PlanificadorCorto \/ Reloj \/ Cpu
         \/ Muere \/ UNCHANGED vars
  PROVE  Atendidos'
<1> USE DEF colas, pausas, dispositivos
<1>1. /\ UNCHANGED <<interfaz, io, interfaz_buscada, transicion>>
      /\ pc' = pc \/ \E h \in {"largo", "corto", "reloj"}, v \in Puntos : pc' = [pc EXCEPT ![h] = v]
  <2>1. CASE Consola
    BY <2>1 DEF Consola, IniciarProceso, DetenerPlanificacion, IniciarPlanificacion
  <2>2. CASE PlanificadorLargo
    BY <2>2 DEF PlanificadorLargo, LargoEsperaNew, LargoEsperaGrado, NewAReady, NewAReadyAnota,
           Ir, Transita, Puntos, EnPausa
  <2>3. CASE PlanificadorCorto
    BY <2>3 DEF PlanificadorCorto, CortoEsperaCpu, CortoEsperaReady, CortoEsperaReloj,
           EnviarCdeACpu, ReadyAExec, Ir, Transita, Puntos, EnPausa
  <2>4. CASE Reloj
    BY <2>4 DEF Reloj, RelojInicia, RelojVence, RelojInterrumpe, RelojCaduca, RelojNulo, Muere,
           Ir, Puntos
  <2>5. CASE Cpu
    BY <2>5 DEF Cpu, CpuBloqueante, CpuSigue, CpuDevuelve, CpuInterrumpida
  <2>6. CASE Muere \/ UNCHANGED vars
    BY <2>6 DEF Muere, vars
  <2> QED BY <2>1, <2>2, <2>3, <2>4, <2>5, <2>6
<1>2. pc'["cde"] = pc["cde"] /\ \A i \in Interfaces : pc'[i] = pc[i]
  BY <1>1, OtroHilo DEF BInv, RInv, IInv
<1>3. Dormidas' = Dormidas /\ PorBloquear' = PorBloquear
  BY <1>1, <1>2, MismasDormidas DEF Quieto
<1> QED BY <1>1, <1>2, <1>3, AtencionSigue DEF BInv

\* A thread at a pause.
LEMMA AtencionPausa ==
  ASSUME BInv, NEW h \in Hilos, Pausar(h)
  PROVE  Atendidos'
<1>1. PICK v \in EnPausa : pc[h] \in EnPausa /\ pc' = [pc EXCEPT ![h] = v]
  BY DEF Pausar, Detenerse, Dormirse, Ir, EnPausa
<1>2. UNCHANGED <<interfaz, io, interfaz_buscada, transicion, lugar, pcb_en_ejecucion>>
  BY DEF Pausar, Detenerse, Dormirse, colas, dispositivos
<1>3. \A g \in Hilos : pc'[g] = pc[g] \/ {pc[g], pc'[g]} \subseteq EnPausa
  BY <1>1 DEF BInv, RInv, IInv, TypeOK, TipoHilos
<1>4. Dormidas' = Dormidas /\ PorBloquear' = PorBloquear
  BY <1>2, <1>3, SonHilos, MismasDormidas
<1> QED BY <1>2, <1>3, <1>4, SonHilos, AtencionSigue DEF BInv, EnDespertar, EnPausa

\* The steps that move a process among New, Ready, EXEC and EXIT.
LEMMA AtencionMueve ==
  ASSUME BInv, IniciarProceso \/ NewAReady \/ ReadyAExec \/ TerminarProceso
  PROVE  Atendidos'
<1> USE DEF colas, pausas, dispositivos
<1>1. /\ TypeOK /\ TipoColas /\ FielPorConjuntos /\ lugar \in [Pids -> Estados]
      /\ RInv /\ IInv /\ Atendidos
  BY Partes DEF BInv, RInv
<1>2. CASE IniciarProceso
  <2>1. \A p \in Pids : lugar'[p] = "BLOCKED" <=> lugar[p] = "BLOCKED"
    BY <1>1, <1>2 DEF IniciarProceso, Ubicar, RInv, Nacidos
  <2> QED BY <1>1, <1>2, <2>1, MismasDormidas, AtencionSigue DEF IniciarProceso
<1>3. CASE TerminarProceso
  BY <1>1, <1>3, MismasDormidas, AtencionSigue DEF TerminarProceso
<1>4. CASE NewAReady
  <2>1. PICK p : p = Head(cola["New"])
    OBVIOUS
  <2>2. lugar' = [lugar EXCEPT ![p] = "READY"] /\ EnTransicion("largo")
    BY <1>1, <1>4, <2>1, PausaBaja, SonHilos DEF NewAReady, Ubicar
  <2>3. p \in Pids => lugar[p] = "NEW"
    <3>1. list_size("New") > 0
      BY <1>1, <2>2, Numeros DEF IInv, SemaforosFieles, Uno
    <3>2. cola["New"] # <<>> /\ "New" \in Colas /\ EstadoDe("New") = "NEW"
      BY <3>1 DEF list_size, Colas, EstadoDe
    <3> QED BY <1>1, <2>1, <3>2, LaCabeza
  <2>4. \A q \in Pids : lugar'[q] = "BLOCKED" <=> lugar[q] = "BLOCKED"
    BY <1>1, <2>2, <2>3
  <2>5. pc'["cde"] = pc["cde"] /\ \A i \in Interfaces : pc'[i] = pc[i]
    BY <1>1, <1>4, OtroHilo DEF NewAReady, Transita
  <2>6. UNCHANGED <<interfaz, io, interfaz_buscada, transicion, pcb_en_ejecucion>>
    BY <1>4 DEF NewAReady
  <2> QED BY <1>1, <2>4, <2>5, <2>6, MismasDormidas, AtencionSigue
<1>5. CASE ReadyAExec
  <2>1. PICK p : p = Head(cola[ColaElegida])
    OBVIOUS
  <2>2. lugar' = [lugar EXCEPT ![p] = "EXEC"] /\ EnTransicion("corto")
    BY <1>1, <1>5, <2>1, PausaBaja, SonHilos DEF ReadyAExec, Ubicar
  <2>3. p \in Pids => lugar[p] = "READY"
    <3>1. ColaElegida \in {"Ready", "ReadyPlus"} /\ cola[ColaElegida] # <<>>
      <4>1. list_size(ColaElegida) > 0 /\ ColaElegida \in {"Ready", "ReadyPlus"}
        BY <1>1, <2>2, HayListo
      <4> QED BY <4>1 DEF list_size
    <3>2. ColaElegida \in Colas /\ EstadoDe(ColaElegida) = "READY"
      BY <3>1 DEF Colas, EstadoDe
    <3> QED BY <1>1, <2>1, <3>1, <3>2, LaCabeza
  <2>4. \A q \in Pids : lugar'[q] = "BLOCKED" <=> lugar[q] = "BLOCKED"
    BY <1>1, <2>2, <2>3
  <2>5. pc'["cde"] = pc["cde"] /\ \A i \in Interfaces : pc'[i] = pc[i]
    BY <1>1, <1>5, OtroHilo DEF ReadyAExec, Transita
  <2>6. UNCHANGED <<interfaz, io, interfaz_buscada, transicion>>
    BY <1>5 DEF ReadyAExec
  <2>7. pc["cde"] = "inicio"
    BY <1>1, <2>2, Numeros DEF IInv, CpuExclusiva, Uno
  <2>8. PorBloquear = {} /\ PorBloquear' = {} /\ Dormidas' = Dormidas
    BY <2>4, <2>5, <2>7 DEF PorBloquear, Dormidas, EnPausa
  <2> QED BY <1>1, <2>4, <2>5, <2>6, <2>8, AtencionSigue
<1> QED BY <1>2, <1>3, <1>4, <1>5

\* The thread "cde" moves: those of the interfaces do not.
LEMMA SoloCde ==
  ASSUME TypeOK, NEW v, pc' = [pc EXCEPT !["cde"] = v]
  PROVE  pc'["cde"] = v /\ \A i \in Interfaces : pc'[i] = pc[i]
BY SonHilos DEF TypeOK, TipoHilos

\* The process comes back, and not for an interface.
LEMMA AtencionRecibe ==
  ASSUME BInv, CdeTermina \/ CdeFinDeQuantum \/ CdeIOInvalida
  PROVE  Atendidos'
<1> USE DEF dispositivos
<1>1. PICK M \in {{"EXIT", "ERROR"}, {"FIN_DE_QUANTUM"}, {"IO_INVALIDA"}},
           t \in {"exec_a_finalizado", "exec_a_ready", Nulo}, v \in {"exec", "inicio"} :
        RecibeCde(M, t) /\ Ir("cde", "inicio", v)
  BY DEF CdeTermina, CdeFinDeQuantum, CdeIOInvalida
<1>2. UNCHANGED <<interfaz, io, interfaz_buscada>>
  BY DEF CdeTermina, CdeFinDeQuantum, CdeIOInvalida
<1>3. TypeOK /\ Atendidos
  BY DEF BInv, RInv, IInv
<1>4. /\ pc["cde"] = "inicio" /\ pc'["cde"] = v /\ \A i \in Interfaces : pc'[i] = pc[i]
  BY <1>1, <1>3, SoloCde DEF Ir
<1>5. transicion'["cde"] = t /\ t # "exec_a_blocked" /\ lugar' = lugar
  BY <1>1, <1>3, SonHilos, NuloAssumption DEF RecibeCde, TypeOK, TipoHilos, Transiciones
<1>6. PorBloquear = {} /\ PorBloquear' = {} /\ Dormidas' = Dormidas
  BY <1>4, <1>5 DEF PorBloquear, Dormidas, EnPausa
<1> QED BY <1>2, <1>3, <1>4, <1>6, AtencionSigue

\* evaluar_io reads ocupada: the thread of the interface is not looking for
\* another process, so what is not busy is free.
LEMMA AtencionPideIO ==
  ASSUME SinCruce', BInv, NEW i \in Interfaces, CdeIO(i)
  PROVE  Atendidos'
<1>1. PICK v : v = IF interfaz[i].ocupada THEN "encola" ELSE "despacha"
  OBVIOUS
<1>2. /\ RecibeCde({i}, "exec_a_blocked") /\ Ir("cde", "inicio", v)
      /\ interfaz_buscada' = i /\ UNCHANGED <<interfaz, io>>
  BY <1>1 DEF CdeIO, PideIO
<1>3. TypeOK /\ Atendidos
  BY DEF BInv, RInv, IInv
<1>4. /\ pc["cde"] = "inicio" /\ pc'["cde"] = v /\ \A j \in Interfaces : pc'[j] = pc[j]
  BY <1>2, <1>3, SoloCde DEF Ir
<1>5. transicion'["cde"] = "exec_a_blocked" /\ lugar' = lugar
  BY <1>2, <1>3, SonHilos DEF RecibeCde, TypeOK, TipoHilos
<1>6. PorBloquear = {} /\ PorBloquear' = {} /\ Dormidas' = Dormidas
  BY <1>1, <1>4, <1>5 DEF PorBloquear, Dormidas, EnPausa
<1>7. Buscada'
  <2>1. ~interfaz[i].ocupada => pc[i] = "inicio"
    <3>1. pc[i] \in PuntosInterfaz
      BY <1>3, SonHilos, HilosDistintos
         DEF TypeOK, TipoHilos, PuntosInterfaz, EnDespertar, EnDespedida, EnPausa
    <3>2. pc[i] \in EnDespertar \cup EnDespedida => interfaz[i].ocupada
      BY <1>3 DEF Atendidos, Fases, Fase
    <3>3. pc[i] # "siguiente"
      BY <1>1, <1>2, <1>4 DEF SinCruce
    <3> QED BY <3>1, <3>2, <3>3 DEF PuntosInterfaz
  <2> QED BY <1>1, <1>2, <1>4, <1>5, <2>1 DEF Buscada
<1>8. \A j \in Interfaces : Tiene(j)' = Tiene(j)
  BY <1>2, <1>4 DEF Tiene
<1>9. Fases' /\ Repartidos' /\ EnOrden'
  BY <1>2, <1>3, <1>4, <1>6, <1>8 DEF Atendidos, Fases, Repartidos, EnOrden
<1> QED BY <1>7, <1>9 DEF Atendidos

\* It gives the process to the interface, which nobody had.
LEMMA AtencionEntrega ==
  ASSUME BInv, CdeEncola \/ CdeDespacha
  PROVE  Atendidos'
<1>1. PICK i : i = interfaz_buscada
  OBVIOUS
<1>2. PICK p : p = pcb_en_ejecucion
  OBVIOUS
<1>3. PICK c \in {"encola", "despacha"} : pc["cde"] = c /\ pc' = [pc EXCEPT !["cde"] = "exec"]
  BY DEF CdeEncola, CdeDespacha, Ir
<1>4. TypeOK /\ Atendidos /\ FielPorConjuntos
  BY Partes DEF BInv, RInv, IInv
<1>5. pc'["cde"] = "exec" /\ \A j \in Interfaces : pc'[j] = pc[j]
  BY <1>3, <1>4, SoloCde
<1>6. i \in Interfaces /\ transicion["cde"] = "exec_a_blocked"
  BY <1>1, <1>3, <1>4 DEF Atendidos, Buscada
<1>7. UNCHANGED <<lugar, pcb_en_ejecucion, transicion>>
  BY DEF CdeEncola, CdeDespacha, colas
<1>8. p \in Pids /\ lugar[p] = "EXEC"
  BY <1>2, <1>3, <1>4 DEF BInv, RInv, IInv, CpuExclusiva, TypeOK, TipoProcesos, FielPorConjuntos,
     EnCpu
<1>9. PorBloquear = {} /\ PorBloquear' = {p}
  BY <1>2, <1>3, <1>5, <1>6, <1>7 DEF PorBloquear, EnPausa
<1>10. p \notin Dormidas /\ Dormidas' = Dormidas \cup {p}
  BY <1>7, <1>8, <1>9 DEF Dormidas
<1>11. \A j \in Interfaces : p \notin Tiene(j)
  BY <1>4, <1>10 DEF Atendidos, Repartidos
<1>12. Buscada'
  BY <1>5 DEF Buscada
<1>13. PICK f : f = interfaz[i]
  OBVIOUS
<1>14. PICK d : d = io[i]
  OBVIOUS
<1>15. /\ f \in TipoInterfaz /\ d \in TipoIo /\ Fase(f, d, pc[i])
       /\ interfaz \in [Interfaces -> TipoInterfaz] /\ io \in [Interfaces -> TipoIo]
  BY <1>4, <1>6, <1>13, <1>14 DEF TypeOK, TipoInterfaces, TipoInterfaz, TipoIo, Atendidos, Fases
<1>16. ASSUME NEW g, NEW e, Fase(g, e, pc[i]), EsUltimo(p, g.pcb_esperando),
              Suyos(g, pc[i]) = Suyos(f, pc[i]) \cup {p},
              interfaz' = [interfaz EXCEPT ![i] = g], io' = [io EXCEPT ![i] = e]
       PROVE  Atendidos'
  <2>1. /\ \A j \in Interfaces \ {i} :
             interfaz'[j] = interfaz[j] /\ io'[j] = io[j] /\ pc'[j] = pc[j]
        /\ interfaz'[i] = g /\ io'[i] = e /\ pc'[i] = pc[i]
    BY <1>5, <1>6, <1>15, <1>16
  <2>2. Fase(interfaz[i], io[i], pc[i])' /\ Tiene(i)' = Tiene(i) \cup {p}
    BY <1>13, <1>16, <2>1 DEF Tiene
  <2>3. \A q \in Tiene(i)' \cap PorBloquear' : EsUltimo(q, interfaz'[i].pcb_esperando)
    BY <1>9, <1>16, <2>1
  <2> QED BY <1>4, <1>6, <1>9, <1>10, <1>11, <1>12, <2>1, <2>2, <2>3, CambiaUna
<1>17. CASE c = "encola"
  <2>1. interfaz' = [interfaz EXCEPT ![i].pcb_esperando = Append(@, p)] /\ io' = io
    BY <1>1, <1>2, <1>3, <1>17 DEF CdeEncola, CdeDespacha, Ir
  <2>2. f.ocupada
    BY <1>1, <1>3, <1>4, <1>13, <1>17 DEF Atendidos, Buscada
  <2>3. PICK s \in Seq(Pids) : s = f.pcb_esperando
    BY <1>15 DEF TipoInterfaz
  <2>4. PICK g : g = [f EXCEPT !.pcb_esperando = Append(s, p)]
    OBVIOUS
  <2>5. /\ g.pcb_esperando = Append(s, p) /\ g.ocupada = f.ocupada
        /\ g.pcb_ejecutando = f.pcb_ejecutando
    BY <1>15, <2>4 DEF TipoInterfaz
  <2>6. /\ interfaz' = [interfaz EXCEPT ![i] = g] /\ io' = [io EXCEPT ![i] = d]
    BY <1>13, <1>14, <1>15, <2>1, <2>3, <2>4
  <2>7. p \notin Suyos(f, pc[i])
    BY <1>6, <1>11, <1>13 DEF Tiene
  <2>8. /\ ToSet(Append(s, p)) = ToSet(s) \cup {p} /\ IsInjective(Append(s, p))
        /\ Append(s, p)[Len(Append(s, p))] = p
    <3>1. IsInjective(s) /\ p \notin ToSet(s)
      BY <1>15, <2>3, <2>7 DEF Fase, Suyos, EnDespedida
    <3> QED BY <1>8, <3>1, ElementosAgrega, AppendProperties
  <2>9. Fase(g, d, pc[i])
    BY <1>15, <2>2, <2>3, <2>5, <2>7, <2>8 DEF Fase, Suyos, EnDespedida
  <2>10. EsUltimo(p, g.pcb_esperando) /\ Suyos(g, pc[i]) = Suyos(f, pc[i]) \cup {p}
    BY <2>3, <2>5, <2>8 DEF EsUltimo, Suyos, EnDespedida
  <2> QED BY <1>16, <2>6, <2>9, <2>10
<1>18. CASE c = "despacha"
  <2>1. Despacha(i, p)
    BY <1>1, <1>2, <1>3, <1>18 DEF CdeEncola, CdeDespacha, Ir
  <2>2. ~f.ocupada /\ pc[i] = "inicio"
    BY <1>1, <1>3, <1>4, <1>13, <1>18 DEF Atendidos, Buscada
  <2>3. f.pcb_esperando = <<>> /\ d.trabajos + d.libres = 0
    BY <1>15, <2>2 DEF Fase
  <2>4. PICK g : g = [f EXCEPT !.pcb_ejecutando = p, !.ocupada = TRUE]
    OBVIOUS
  <2>5. PICK e : e = [d EXCEPT !.trabajos = @ + 1]
    OBVIOUS
  <2>6. /\ g.pcb_esperando = <<>> /\ g.ocupada /\ g.pcb_ejecutando = p
        /\ e.trabajos + e.libres = 1
    BY <1>15, <2>3, <2>4, <2>5 DEF TipoInterfaz, TipoIo
  <2>7. /\ interfaz' = [interfaz EXCEPT ![i] = g] /\ io' = [io EXCEPT ![i] = e]
    BY <1>13, <1>14, <1>15, <2>1, <2>4, <2>5 DEF Despacha
  <2>8. ToSet(<<>>) = {} /\ IsInjective(<<>>)
    BY DEF ToSet, IsInjective
  <2>9. Fase(g, e, pc[i])
    BY <1>8, <2>2, <2>6, <2>8 DEF Fase, EnDespertar, EnDespedida, EnPausa
  <2>10. EsUltimo(p, g.pcb_esperando) /\ Suyos(g, pc[i]) = Suyos(f, pc[i]) \cup {p}
    BY <2>2, <2>3, <2>6, <2>8 DEF EsUltimo, Suyos, EnDespedida
  <2> QED BY <1>16, <2>7, <2>9, <2>10
<1> QED BY <1>17, <1>18

\* enviar_de_exec_a_*: the wait, and the process in its place.
LEMMA AtencionDeja ==
  ASSUME BInv,
         CdeEsperaExec \/ ExecAFinalizado \/ ExecAReady \/ ExecABlock \/ ExecABlockAnota
  PROVE  Atendidos'
<1>1. TypeOK /\ Atendidos /\ FielPorConjuntos /\ lugar \in [Pids -> Estados]
  BY Partes DEF BInv, RInv, IInv
<1>2. CASE CdeEsperaExec
  <2>1. /\ pc["cde"] = "exec" /\ pc' = [pc EXCEPT !["cde"] = "chequeo"]
        /\ UNCHANGED <<interfaz, io, interfaz_buscada, transicion, lugar, pcb_en_ejecucion>>
    BY <1>2 DEF CdeEsperaExec, Ir, colas, dispositivos
  <2>2. pc'["cde"] = "chequeo" /\ \A j \in Interfaces : pc'[j] = pc[j]
    BY <1>1, <2>1, SoloCde
  <2>3. Dormidas' = Dormidas /\ PorBloquear' = PorBloquear
    BY <2>1, <2>2, MismasDormidas DEF EnPausa
  <2> QED BY <1>1, <2>1, <2>2, <2>3, AtencionSigue
<1>3. ASSUME NEW t \in {"exec_a_finalizado", "exec_a_ready", "exec_a_blocked"},
             NEW e \in {"EXIT", "READY", "BLOCKED"}, t = "exec_a_blocked" <=> e = "BLOCKED",
             transicion["cde"] = t, NEW v \in {"inicio", "anota"}, Transita("cde", v),
             Ubicar(pcb_en_ejecucion, e), UNCHANGED <<dispositivos, transicion>>
      PROVE  Atendidos'
  <2>2. PICK p : p = pcb_en_ejecucion
    OBVIOUS
  <2>3. EnTransicion("cde") /\ pc' = [pc EXCEPT !["cde"] = v]
    BY <1>1, <1>3, PausaBaja, SonHilos
  <2>4. pc'["cde"] = v /\ \A j \in Interfaces : pc'[j] = pc[j]
    BY <1>1, <2>3, SoloCde
  <2>5. /\ lugar' = [lugar EXCEPT ![p] = e]
        /\ UNCHANGED <<interfaz, io, interfaz_buscada, transicion>>
    BY <1>3, <2>2 DEF dispositivos, Ubicar
  <2>6. p \in Pids /\ lugar[p] = "EXEC"
    BY <1>1, <2>2, <2>3
       DEF BInv, RInv, IInv, CpuExclusiva, TypeOK, TipoProcesos, FielPorConjuntos,
           EnTransicion, EnPausa, EnCpu
  <2>7. PorBloquear' = {} /\ PorBloquear = IF t = "exec_a_blocked" THEN {p} ELSE {}
    BY <1>3, <2>2, <2>3, <2>4, <2>5 DEF PorBloquear, EnTransicion, EnPausa
  <2>8. Dormidas' = Dormidas
    BY <1>1, <1>3, <2>5, <2>6, <2>7 DEF Dormidas
  <2> QED BY <1>1, <2>4, <2>5, <2>7, <2>8, AtencionSigue
<1>4. CASE ExecAFinalizado
  BY <1>3, <1>4 DEF ExecAFinalizado, DejaExec
<1>5. CASE ExecAReady
  BY <1>3, <1>5 DEF ExecAReady, DejaExec
<1>6. CASE ExecABlock
  BY <1>3, <1>6 DEF ExecABlock
<1>7. CASE ExecABlockAnota
  <2>1. /\ pc["cde"] = "anota" /\ pc' = [pc EXCEPT !["cde"] = "inicio"]
        /\ UNCHANGED <<interfaz, io, interfaz_buscada, transicion, lugar>>
    BY <1>7 DEF ExecABlockAnota, FinDeBloqueo, Ir, dispositivos
  <2>2. pc'["cde"] = "inicio" /\ \A j \in Interfaces : pc'[j] = pc[j]
    BY <1>1, <2>1, SoloCde
  <2>3. PorBloquear = {} /\ PorBloquear' = {} /\ Dormidas' = Dormidas
    BY <2>1, <2>2 DEF PorBloquear, Dormidas, EnPausa
  <2> QED BY <1>1, <2>1, <2>2, <2>3, AtencionSigue
<1> QED BY <1>2, <1>4, <1>5, <1>6, <1>7

\* An interface whose thread or sockets move keeps whom it had.
LEMMA MismosSuyos ==
  ASSUME BInv, NEW i \in Interfaces, NEW g, NEW e, NEW v,
         interfaz' = [interfaz EXCEPT ![i] = g], io' = [io EXCEPT ![i] = e],
         pc' = [pc EXCEPT ![i] = v],
         UNCHANGED <<lugar, pcb_en_ejecucion, interfaz_buscada>>,
         transicion'["cde"] = transicion["cde"],
         Fase(g, e, v), Suyos(g, v) = Suyos(interfaz[i], pc[i]),
         \A p \in Suyos(g, v) :
           EsUltimo(p, interfaz[i].pcb_esperando) => EsUltimo(p, g.pcb_esperando),
         pc["cde"] \in {"encola", "despacha"} /\ interfaz_buscada = i =>
           g.ocupada = interfaz[i].ocupada /\ (pc["cde"] = "despacha" => v = pc[i])
  PROVE  Atendidos'
<1>1. /\ TypeOK /\ Atendidos
      /\ interfaz \in [Interfaces -> TipoInterfaz] /\ io \in [Interfaces -> TipoIo]
  BY DEF BInv, RInv, IInv, TypeOK, TipoInterfaces, TipoInterfaz, TipoIo
<1>2. /\ \A j \in Interfaces \ {i} :
           interfaz'[j] = interfaz[j] /\ io'[j] = io[j] /\ pc'[j] = pc[j]
      /\ interfaz'[i] = g /\ io'[i] = e /\ pc'[i] = v /\ pc'["cde"] = pc["cde"]
  BY <1>1, SonHilos DEF TypeOK, TipoHilos
<1>3. PorBloquear' = PorBloquear /\ Dormidas' = Dormidas
  BY <1>2 DEF PorBloquear, Dormidas
<1>4. Fase(interfaz[i], io[i], pc[i])' /\ Tiene(i)' = Tiene(i)
  BY <1>2 DEF Tiene
<1>5. Buscada'
  BY <1>1, <1>2 DEF Atendidos, Buscada
<1>6. \A p \in Tiene(i)' \cap PorBloquear' : EsUltimo(p, interfaz'[i].pcb_esperando)
  BY <1>1, <1>2, <1>3, <1>4 DEF Atendidos, EnOrden, Tiene
<1>7. PICK P : P = {}
  OBVIOUS
<1> QED BY <1>1, <1>2, <1>3, <1>4, <1>5, <1>6, <1>7, CambiaUna

\* The device ends and its thread reads LIBRE, frees the interface, looks
\* for the next process.
LEMMA AtencionInterfaz ==
  ASSUME SinCruce', BInv, NEW i \in Interfaces,
         DispositivoTermina(i) \/ IoRecibeLibre(i) \/ IoLibera(i) \/ IoSiguiente(i)
  PROVE  Atendidos'
<1> USE DEF colas, dispositivos
<1>1. /\ TypeOK /\ Atendidos
      /\ interfaz \in [Interfaces -> TipoInterfaz] /\ io \in [Interfaces -> TipoIo]
      /\ pc \in [Hilos -> Puntos] /\ transicion \in [Hilos -> Transiciones \cup {Nulo}]
  BY DEF BInv, RInv, IInv, TypeOK, TipoInterfaces, TipoInterfaz, TipoIo, TipoHilos
<1>2. PICK f \in TipoInterfaz : f = interfaz[i]
  BY <1>1
<1>3. PICK d \in TipoIo : d = io[i]
  BY <1>1
<1>4. PICK c : c = pc[i]
  OBVIOUS
<1>5. Fase(f, d, c)
  BY <1>1, <1>2, <1>3, <1>4 DEF Atendidos, Fases
<1>6. i \in Hilos /\ "cde" \in Hilos /\ i # "cde"
  BY SonHilos
<1>7. pc["cde"] = "despacha" /\ interfaz_buscada = i => ~f.ocupada /\ c = "inicio"
  BY <1>1, <1>2, <1>4 DEF Atendidos, Buscada
<1>8. pc["cde"] = "encola" /\ interfaz_buscada = i => f.ocupada
  BY <1>1, <1>2 DEF Atendidos, Buscada
<1>9. UNCHANGED <<lugar, pcb_en_ejecucion, interfaz_buscada>>
  BY DEF DispositivoTermina, IoRecibeLibre, IoLibera, IoSiguiente
<1>10. transicion'["cde"] = transicion["cde"]
  BY <1>1, <1>6 DEF DispositivoTermina, IoRecibeLibre, IoLibera, IoSiguiente
<1>11. CASE DispositivoTermina(i)
  <2>1. PICK e : e = [d EXCEPT !.trabajos = @ - 1, !.libres = @ + 1]
    OBVIOUS
  <2>2. /\ d.trabajos > 0 /\ io' = [io EXCEPT ![i] = e]
        /\ interfaz' = interfaz /\ pc' = pc
    BY <1>1, <1>3, <1>11, <2>1 DEF DispositivoTermina
  <2>3. interfaz' = [interfaz EXCEPT ![i] = f] /\ pc' = [pc EXCEPT ![i] = c]
    BY <1>1, <1>2, <1>4, <1>6, <2>2
  <2>4. e.trabajos + e.libres = d.trabajos + d.libres /\ e.pcb = d.pcb
    BY <2>1 DEF TipoIo
  <2>5. Fase(f, e, c)
    BY <1>5, <2>4 DEF Fase
  <2> QED BY <1>2, <1>4, <1>9, <1>10, <2>2, <2>3, <2>5, MismosSuyos
<1>12. CASE IoRecibeLibre(i)
  <2>1. PICK e : e = [d EXCEPT !.libres = @ - 1, !.pcb = f.pcb_ejecutando]
    OBVIOUS
  <2>2. /\ d.libres > 0 /\ c = "inicio" /\ pc' = [pc EXCEPT ![i] = "blocked"]
        /\ io' = [io EXCEPT ![i] = e] /\ interfaz' = interfaz
    BY <1>1, <1>2, <1>3, <1>4, <1>12, <2>1 DEF IoRecibeLibre, Ir
  <2>3. interfaz' = [interfaz EXCEPT ![i] = f]
    BY <1>1, <1>2, <2>2
  <2>4. f.ocupada /\ d.trabajos + d.libres = 1
    BY <1>5, <2>2 DEF Fase, TipoIo
  <2>5. e.trabajos + e.libres = 0 /\ e.pcb = f.pcb_ejecutando
    BY <2>1, <2>4 DEF TipoIo
  <2>6. Fase(f, e, "blocked")
    BY <1>5, <2>2, <2>4, <2>5 DEF Fase, EnDespertar, EnDespedida
  <2>7. Suyos(f, "blocked") = Suyos(f, c)
    BY <2>2 DEF Suyos, EnDespedida
  <2> QED BY <1>2, <1>4, <1>7, <1>9, <1>10, <2>2, <2>3, <2>4, <2>6, <2>7, MismosSuyos
<1>13. CASE IoLibera(i)
  <2>1. PICK g : g = [f EXCEPT !.ocupada = FALSE]
    OBVIOUS
  <2>2. PICK e : e = [d EXCEPT !.pcb = Nulo]
    OBVIOUS
  <2>3. /\ c = "liberar" /\ pc' = [pc EXCEPT ![i] = "siguiente"]
        /\ io' = [io EXCEPT ![i] = e] /\ interfaz' = [interfaz EXCEPT ![i] = g]
    BY <1>1, <1>2, <1>3, <1>4, <1>13, <2>1, <2>2 DEF IoLibera, Ir
  <2>7. pc["cde"] \in {"encola", "despacha"} => interfaz_buscada # i
    <3>1. pc'[i] = "siguiente" /\ pc'["cde"] = pc["cde"]
      BY <1>1, <1>6, <2>3
    <3> QED BY <1>9, <3>1 DEF SinCruce
  <2>4. /\ g.ocupada = FALSE /\ g.pcb_esperando = f.pcb_esperando
        /\ e.trabajos = d.trabajos /\ e.libres = d.libres
    BY <2>1, <2>2 DEF TipoInterfaz, TipoIo
  <2>5. Fase(g, e, "siguiente")
    BY <1>5, <2>3, <2>4 DEF Fase, EnDespertar, EnDespedida, EnPausa
  <2>6. Suyos(g, "siguiente") = Suyos(f, c)
    BY <2>3, <2>4 DEF Suyos, EnDespedida
  <2> QED BY <1>2, <1>4, <1>9, <1>10, <2>3, <2>4, <2>5, <2>6, <2>7, MismosSuyos
<1>14. CASE IoSiguiente(i)
  <2>1. c = "siguiente" /\ pc' = [pc EXCEPT ![i] = "inicio"]
    BY <1>4, <1>14 DEF IoSiguiente, Ir
  <2>2. ~f.ocupada /\ d.trabajos + d.libres = 0
    BY <1>5, <2>1 DEF Fase
  <2>3. PICK s \in Seq(Pids) : s = f.pcb_esperando
    BY DEF TipoInterfaz
  <2>4. IsInjective(s)
    BY <1>5, <2>3 DEF Fase
  <2>5. CASE s = <<>>
    <3>1. interfaz' = [interfaz EXCEPT ![i] = f] /\ io' = [io EXCEPT ![i] = d]
      BY <1>1, <1>2, <1>3, <1>14, <2>3, <2>5 DEF IoSiguiente
    <3>2. Fase(f, d, "inicio")
      BY <1>5, <2>2, <2>3, <2>5 DEF Fase, EnDespertar, EnDespedida, EnPausa
    <3>3. Suyos(f, "inicio") = Suyos(f, c)
      BY <2>2 DEF Suyos, EnDespedida
    <3> QED BY <1>2, <1>4, <1>7, <1>9, <1>10, <2>1, <3>1, <3>2, <3>3, MismosSuyos
  <2>6. CASE s # <<>>
    <3>1. PICK g : g = [f EXCEPT !.pcb_ejecutando = Head(s), !.pcb_esperando = Tail(s), !.ocupada = TRUE]
      OBVIOUS
    <3>2. PICK e : e = [d EXCEPT !.trabajos = @ + 1]
      OBVIOUS
    <3>3. interfaz' = [interfaz EXCEPT ![i] = g] /\ io' = [io EXCEPT ![i] = e]
      BY <1>1, <1>2, <1>3, <1>14, <2>3, <2>6, <3>1, <3>2 DEF IoSiguiente
    <3>4. /\ g.pcb_ejecutando = Head(s) /\ g.pcb_esperando = Tail(s) /\ g.ocupada
          /\ e.trabajos + e.libres = 1
      BY <2>2, <3>1, <3>2 DEF TipoInterfaz, TipoIo
    <3>5. /\ Head(s) \in ToSet(s) /\ ToSet(Tail(s)) = ToSet(s) \ {Head(s)}
          /\ IsInjective(Tail(s)) /\ Head(s) \in Pids
      BY <2>4, <2>6, ElementosSaca, Elementos
    <3>6. Fase(g, e, "inicio")
      BY <3>4, <3>5 DEF Fase, EnDespertar, EnDespedida, EnPausa
    <3>7. Suyos(g, "inicio") = Suyos(f, c)
      BY <2>2, <2>3, <3>4, <3>5 DEF Suyos, EnDespedida
    <3>8. ASSUME NEW p, EsUltimo(p, s) PROVE EsUltimo(p, Tail(s))
      <4>1. /\ Tail(s) \in Seq(Pids) /\ Len(Tail(s)) = Len(s) - 1 /\ Len(s) \in Nat \ {0}
            /\ \A j \in 1..(Len(s) - 1) : Tail(s)[j] = s[j + 1]
        BY <2>6, HeadTailProperties, EmptySeq
      <4>2. p = s[Len(s)]
        BY <2>6, <3>8 DEF EsUltimo
      <4>3. CASE Len(s) = 1
        <5>1. Len(Tail(s)) = 0
          BY <4>1, <4>3
        <5>2. Tail(s) = <<>>
          BY <4>1, <5>1, EmptySeq
        <5> QED BY <5>2 DEF EsUltimo
      <4>4. CASE Len(s) # 1
        <5>1. Len(s) - 1 \in 1..(Len(s) - 1) /\ (Len(s) - 1) + 1 = Len(s)
          BY <4>1, <4>4
        <5> QED BY <4>1, <4>2, <5>1 DEF EsUltimo
      <4> QED BY <4>3, <4>4
    <3> QED BY <1>2, <1>4, <1>7, <1>8, <1>9, <1>10, <2>1, <2>2, <2>3, <3>3, <3>4, <3>6, <3>7,
               <3>8, MismosSuyos
  <2> QED BY <2>5, <2>6
<1> QED BY <1>11, <1>12, <1>13, <1>14

\* enviar_pcb_de_block_a_ready: its wait, its search, the process that
\* leaves and its estado.
LEMMA AtencionDespierta ==
  ASSUME BInv, NEW i \in Interfaces,
         IoEsperaBlocked(i) \/ BlockAReadyBusca(i) \/ BlockAReady(i) \/ BlockAReadyAnota(i)
  PROVE  Atendidos'
<1>1. /\ TypeOK /\ TipoColas /\ Atendidos /\ FielPorConjuntos /\ lugar \in [Pids -> Estados]
      /\ interfaz \in [Interfaces -> TipoInterfaz] /\ io \in [Interfaces -> TipoIo]
      /\ pc \in [Hilos -> Puntos]
  BY Partes DEF BInv, RInv, IInv, TypeOK, TipoHilos, TipoInterfaces, TipoInterfaz,
     TipoIo
<1>2. i \in Hilos /\ "cde" \in Hilos /\ i # "cde"
  BY SonHilos
<1>3. CASE IoEsperaBlocked(i)
  <2>1. /\ pc[i] = "blocked" /\ pc' = [pc EXCEPT ![i] = "chequeo"]
        /\ UNCHANGED <<interfaz, io, interfaz_buscada, transicion, lugar, pcb_en_ejecucion>>
    BY <1>3 DEF IoEsperaBlocked, Ir, colas, dispositivos
  <2>2. /\ pc'["cde"] = pc["cde"]
        /\ \A j \in Interfaces : pc'[j] = pc[j] \/ {pc[j], pc'[j]} \subseteq EnDespertar
    BY <1>1, <1>2, <2>1, SonHilos DEF EnDespertar, EnPausa
  <2>3. Dormidas' = Dormidas /\ PorBloquear' = PorBloquear
    BY <2>1, <2>2, MismasDormidas
  <2> QED BY <1>1, <2>1, <2>2, <2>3, AtencionSigue
<1>4. PICK f \in TipoInterfaz : f = interfaz[i]
  BY <1>1
<1>5. PICK d \in TipoIo : d = io[i]
  BY <1>1
<1>6. Fase(f, d, pc[i]) /\ interfaz = [interfaz EXCEPT ![i] = f] /\ io = [io EXCEPT ![i] = d]
  BY <1>1, <1>4, <1>5 DEF Atendidos, Fases
<1>7. pc["cde"] = "despacha" /\ interfaz_buscada = i => pc[i] = "inicio"
  BY <1>1 DEF Atendidos, Buscada
<1>8. CASE BlockAReadyBusca(i)
  <2>1. PICK e : e = [d EXCEPT !.posicion = Posicion(d.pcb)]
    OBVIOUS
  <2>2. /\ EnTransicion(i) /\ pc' = [pc EXCEPT ![i] = "mueve"]
        /\ interfaz' = [interfaz EXCEPT ![i] = f] /\ io' = [io EXCEPT ![i] = e]
        /\ UNCHANGED <<interfaz_buscada, transicion, lugar, pcb_en_ejecucion>>
    <3>1. EnTransicion(i) /\ pc' = [pc EXCEPT ![i] = "mueve"]
      BY <1>1, <1>2, <1>8, PausaBaja DEF BlockAReadyBusca
    <3> QED BY <1>1, <1>5, <1>6, <1>8, <2>1, <3>1 DEF BlockAReadyBusca, colas
  <2>3. e.trabajos = d.trabajos /\ e.libres = d.libres /\ e.pcb = d.pcb
    BY <2>1 DEF TipoIo
  <2>4. pc[i] \in EnDespertar /\ pc[i] # "inicio"
    BY <2>2 DEF EnTransicion, EnDespertar, EnPausa
  <2>5. Fase(f, e, "mueve")
    BY <1>6, <2>3, <2>4 DEF Fase, EnDespertar, EnDespedida, EnPausa
  <2>6. Suyos(f, "mueve") = Suyos(interfaz[i], pc[i])
    BY <1>4, <2>4 DEF Suyos, EnDespedida, EnDespertar, EnPausa
  <2> QED BY <1>4, <1>7, <2>2, <2>4, <2>5, <2>6, MismosSuyos
<1>9. CASE BlockAReadyAnota(i)
  <2>1. /\ pc[i] = "anota" /\ pc' = [pc EXCEPT ![i] = "liberar"]
        /\ interfaz' = [interfaz EXCEPT ![i] = f] /\ io' = [io EXCEPT ![i] = d]
        /\ UNCHANGED <<interfaz_buscada, transicion, lugar, pcb_en_ejecucion>>
    BY <1>6, <1>9 DEF BlockAReadyAnota, FinDeDesbloqueo, Ir, dispositivos
  <2>2. Fase(f, d, "liberar")
    BY <1>6, <2>1 DEF Fase, EnDespertar, EnDespedida, EnPausa
  <2>3. Suyos(f, "liberar") = Suyos(interfaz[i], pc[i])
    BY <1>4, <2>1 DEF Suyos, EnDespedida
  <2> QED BY <1>4, <1>7, <2>1, <2>2, <2>3, MismosSuyos
<1>10. CASE BlockAReady(i)
  <2>1. PICK p : p = d.pcb
    OBVIOUS
  <2>2. /\ pc[i] = "mueve" /\ pc' = [pc EXCEPT ![i] = "anota"]
        /\ io[i].posicion \in DOMAIN cola["Bloqueados"]
        /\ UNCHANGED <<interfaz, interfaz_buscada, transicion, pcb_en_ejecucion>>
    BY <1>10 DEF BlockAReady, Ir
  <2>3. /\ "Bloqueados" \in Colas /\ EstadoDe("Bloqueados") = "BLOCKED"
        /\ cola["Bloqueados"] \in Seq(Pids)
        /\ DOMAIN cola["Bloqueados"] = 1..Len(cola["Bloqueados"])
    BY <1>1 DEF TipoColas, Colas, EstadoDe
  <2>4. io[i].posicion # 0
    BY <2>2, <2>3
  <2>5. cola["Bloqueados"][io[i].posicion] = p
    BY <1>5, <2>1, <2>2, <2>4 DEF BInv, RInv, BusquedaVigente
  <2>6. p \in Pids /\ p \in EnCola("Bloqueados")
    BY <2>2, <2>3, <2>5, Partes, PosicionesDe DEF BInv
  <2>7. lugar[p] = "BLOCKED" /\ p # EnCpu
    BY <1>1, <2>3, <2>6 DEF FielPorConjuntos
  <2>8. PICK e : e = [d EXCEPT !.pcb = p, !.posicion = 0]
    OBVIOUS
  <2>9. lugar' = [lugar EXCEPT ![p] = "READY"] /\ io' = [io EXCEPT ![i] = e]
    BY <1>1, <1>5, <1>10, <2>5, <2>8 DEF BlockAReady, Ubicar
  <2>10. e.trabajos = d.trabajos /\ e.libres = d.libres
    BY <2>8 DEF TipoIo
  <2>11. /\ pc'[i] = "anota" /\ pc'["cde"] = pc["cde"] /\ io'[i] = e /\ interfaz'[i] = f
         /\ \A j \in Interfaces \ {i} :
              pc'[j] = pc[j] /\ io'[j] = io[j] /\ interfaz'[j] = interfaz[j]
    BY <1>1, <1>2, <1>4, <2>2, <2>9, SonHilos
  <2>12. PorBloquear' = PorBloquear /\ p \notin PorBloquear /\ Dormidas' = Dormidas \ {p}
    <3>1. PorBloquear' = PorBloquear /\ p \notin PorBloquear
      BY <2>2, <2>7, <2>11 DEF PorBloquear, EnCpu, EnPausa
    <3> QED BY <1>1, <2>7, <2>9, <3>1 DEF Dormidas
  <2>13. f.ocupada /\ p = f.pcb_ejecutando /\ p \notin ToSet(f.pcb_esperando)
    BY <1>6, <2>1, <2>2 DEF Fase, EnDespertar, EnDespedida
  <2>14. Fase(f, e, "anota")
    BY <1>6, <2>2, <2>10, <2>13 DEF Fase, EnDespertar, EnDespedida, EnPausa
  <2>15. Suyos(f, "anota") = Suyos(f, pc[i]) \ {p} /\ p \in Suyos(f, pc[i])
    BY <2>2, <2>13 DEF Suyos, EnDespedida
  <2>16. Fase(interfaz[i], io[i], pc[i])' /\ Tiene(i)' = Tiene(i) \ {p} /\ p \in Tiene(i)
    BY <1>4, <2>11, <2>14, <2>15 DEF Tiene
  <2>17. Buscada'
    BY <1>1, <1>7, <2>2, <2>11 DEF Atendidos, Buscada
  <2>18. \A q \in Tiene(i)' \cap PorBloquear' : EsUltimo(q, interfaz'[i].pcb_esperando)
    BY <1>1, <2>2, <2>12, <2>16 DEF Atendidos, EnOrden
  <2>19. PICK P : P = {p}
    OBVIOUS
  <2> QED BY <1>1, <2>11, <2>12, <2>16, <2>17, <2>18, <2>19, CambiaUna
<1> QED BY <1>3, <1>8, <1>9, <1>10

\* The invariant of the attention holds in the initial states and in every
\* step.
LEMMA AtencionInicio == Init => BInv
<1> SUFFICES ASSUME Init PROVE BInv
  OBVIOUS
<1>1. RInv
  BY RInicio
<1>2. \A i \in Interfaces :
        /\ interfaz[i] = [ocupada |-> FALSE, pcb_ejecutando |-> Nulo, pcb_esperando |-> <<>>]
        /\ io[i] = [trabajos |-> 0, libres |-> 0, pcb |-> Nulo, posicion |-> 0] /\ pc[i] = "inicio"
  BY SonHilos DEF Init
<1>3. ToSet(<<>>) = {} /\ IsInjective(<<>>)
  BY DEF ToSet, IsInjective
<1>4. Fases /\ \A i \in Interfaces : Tiene(i) = {}
  BY <1>2, <1>3 DEF Fases, Fase, Tiene, Suyos, EnDespertar, EnDespedida, EnPausa
<1>5. pc["cde"] = "inicio" /\ \A p \in Pids : lugar[p] = "NO_CREADO"
  BY SonHilos DEF Init
<1>6. PorBloquear = {} /\ Dormidas = {}
  BY <1>5 DEF PorBloquear, Dormidas, EnPausa
<1> QED BY <1>1, <1>4, <1>5, <1>6 DEF BInv, Atendidos, Buscada, Repartidos, EnOrden

LEMMA AtencionPaso ==
  ASSUME BusquedaSola PROVE BInv /\ SinCruce' /\ [Next]_vars => BInv'
<1> SUFFICES ASSUME BInv, SinCruce', [Next]_vars PROVE BInv'
  OBVIOUS
<1>1. RInv'
  BY RPaso DEF BInv
<1>2. CASE IniciarProceso \/ NewAReady \/ ReadyAExec \/ TerminarProceso
  BY <1>1, <1>2, AtencionMueve DEF BInv
<1>3. CASE \/ Consola \/ PlanificadorLargo \/ PlanificadorCorto \/ Reloj \/ Cpu \/ UNCHANGED vars
  <2>1. Quieto \/ MueveUno
    BY QuietoOMueve, Partes DEF BInv
  <2>2. CASE Quieto
    BY <1>1, <1>3, <2>2, AtencionOtros DEF BInv
  <2>3. CASE MueveUno
    BY <1>1, <1>2, <2>3, AtencionDeja, AtencionDespierta DEF MueveUno, BInv
  <2> QED BY <2>1, <2>2, <2>3
<1>4. CASE AtenderCpu
  BY <1>1, <1>4, AtencionRecibe, AtencionPideIO, AtencionEntrega, AtencionDeja DEF AtenderCpu, BInv
<1>5. ASSUME NEW i \in Interfaces, DispositivoTermina(i) \/ AtenderIO(i) PROVE Atendidos'
  <2>1. CASE BlockAReadyNulo(i)
    BY <2>1, AtencionOtros DEF BlockAReadyNulo, Muere, Quieto, EnCpu, colas, pausas
  <2> QED BY <1>5, <2>1, AtencionInterfaz, AtencionDespierta DEF AtenderIO
<1>6. ASSUME NEW h \in Hilos, Pausar(h) PROVE Atendidos'
  BY <1>6, AtencionPausa
<1> QED BY <1>1, <1>2, <1>3, <1>4, <1>5, <1>6 DEF Next, BInv

\* What an interface has, in the words of the property.
LEMMA LoQueTiene ==
  ASSUME BInv, NEW i \in Interfaces, NEW p \in Pids
  PROVE  AtiendeA(i, p) <=> p \in Tiene(i)
<1>1. /\ Fase(interfaz[i], io[i], pc[i]) /\ interfaz[i] \in TipoInterfaz /\ io[i] \in TipoIo
      /\ pc[i] \in PuntosInterfaz
  BY SonHilos, HilosDistintos
     DEF BInv, RInv, IInv, Atendidos, Fases, TypeOK, TipoInterfaces, TipoHilos, TipoInterfaz, TipoIo,
         PuntosInterfaz, EnDespertar, EnDespedida, EnPausa
<1>2. PICK s \in Seq(Pids) : s = interfaz[i].pcb_esperando
  BY <1>1 DEF TipoInterfaz
<1>3. Contains(s, p) <=> p \in ToSet(s)
  BY Elementos
<1>4. p \in ToSet(s) => s # <<>>
  BY DEF ToSet
<1>5. p \in ToSet(s) => interfaz[i].ocupada \/ pc[i] = "siguiente"
  BY <1>1, <1>2, <1>4 DEF Fase, PuntosInterfaz
<1>6. interfaz[i].ocupada /\ pc[i] = "inicio" => io[i].trabajos + io[i].libres > 0
  BY <1>1 DEF Fase
<1> QED BY <1>2, <1>3, <1>5, <1>6 DEF AtiendeA, Tiene, Suyos, EnDespedida

\* With any number of interfaces, under the three algorithms and whatever
\* the rest of the Kernel does, a blocked process can only be forgotten by
\* the interfaces, or served by two, after evaluar_io and atender_io ran
\* inside each other on the same interface: kernel.c does nothing against
\* that race (falla_io_huerfano), and no other interleaving leaves an orphan.
THEOREM NadieQuedaHuerfano == BusquedaSola => (Spec /\ []SinCruce => []BloqueadosAtendidos)
<1> SUFFICES ASSUME BusquedaSola PROVE Spec /\ []SinCruce => []BloqueadosAtendidos
  OBVIOUS
<1>1. BInv => BloqueadosAtendidos
  <2> SUFFICES ASSUME BInv PROVE BloqueadosAtendidos
    OBVIOUS
  <2>1. ASSUME NEW p \in Pids, lugar[p] = "BLOCKED"
        PROVE  \E i \in Interfaces : AtiendeA(i, p)
    <3>1. p \in Dormidas
      BY <2>1 DEF Dormidas
    <3> QED BY <3>1, LoQueTiene DEF BInv, Atendidos, Repartidos
  <2>2. ASSUME NEW p \in Pids, NEW i \in Interfaces, AtiendeA(i, p)
        PROVE  /\ \/ lugar[p] = "BLOCKED"
                  \/ p = pcb_en_ejecucion /\ transicion["cde"] = "exec_a_blocked"
               /\ \A j \in Interfaces \ {i} : ~AtiendeA(j, p)
    <3>1. p \in Tiene(i) /\ \A j \in Interfaces \ {i} : AtiendeA(j, p) => p \in Tiene(j)
      BY <2>2, LoQueTiene
    <3>2. p \in Dormidas /\ \A j \in Interfaces \ {i} : p \notin Tiene(j)
      BY <3>1 DEF BInv, Atendidos, Repartidos
    <3> QED BY <3>1, <3>2 DEF Dormidas, PorBloquear
  <2> QED BY <2>1, <2>2 DEF BloqueadosAtendidos
<1>2. BInv /\ SinCruce' /\ [Next]_vars => BInv'
  BY AtencionPaso
<1> QED BY <1>1, <1>2, AtencionInicio, PTL DEF Spec

(***************************************************************************)
(* The Kernel does not die.                                                *)
(***************************************************************************)
\* FIFO has no clock.
RelojParado == Algoritmo = "FIFO" => sem["sem_iniciar_quantum"] = 0 /\ pc["reloj"] = "inicio"

\* The process a LIBRE is about has been blocked: the thread "cde" blocks a
\* process before it gives another one to the interface, so whoever is
\* blocked came before the one that is not.
LEMMA EstaBloqueado ==
  ASSUME UnaInterfaz, BInv, BloqueadosContados, NEW i \in Interfaces,
         EnTransicion(i) \/ pc[i] = "mueve"
  PROVE  Contains(cola["Bloqueados"], io[i].pcb)
<1>1. /\ TypeOK /\ TipoColas /\ Atendidos /\ FielPorConjuntos
      /\ list_size("Bloqueados") \in Nat /\ "Bloqueados" \in Colas
      /\ sem["procesos_en_blocked"] \in Nat
  BY Partes, Numeros DEF BInv, RInv, TypeOK, TipoSemaforos, Colas, Semaforos
<1>2. PICK p : p = io[i].pcb
  OBVIOUS
<1>3. PICK f \in TipoInterfaz : f = interfaz[i]
  BY <1>1 DEF TypeOK, TipoInterfaces, TipoInterfaz
<1>4. Fase(f, io[i], pc[i]) /\ pc[i] \in EnDespertar /\ pc[i] \notin EnDespedida
  BY <1>1, <1>3 DEF Atendidos, Fases, EnTransicion, EnDespertar, EnDespedida, EnPausa
<1>5. f.ocupada /\ p = f.pcb_ejecutando /\ p \in Pids \ ToSet(f.pcb_esperando)
  BY <1>2, <1>4 DEF Fase
<1>6. Tiene(i) = ToSet(f.pcb_esperando) \cup {p}
  BY <1>3, <1>4, <1>5 DEF Tiene, Suyos, EnDespedida
<1>7. p \in Dormidas
  BY <1>1, <1>6 DEF Atendidos, Repartidos
<1>8. cola["Bloqueados"] # <<>>
  <2>1. EnEspera # {} /\ IsFiniteSet(EnEspera)
    BY InterfacesFinitas, FS_Subset DEF EnEspera
  <2>2. Cardinality(EnEspera) \in Nat /\ Cardinality(EnEspera) # 0
    BY <2>1, FS_CardinalityType, FS_EmptySet
  <2>3. list_size("Bloqueados") > 0
    BY <1>1, <2>2 DEF BloqueadosContados, EnEspera, Uno
  <2> QED BY <2>3 DEF list_size
<1>9. PICK q \in Pids : q \in EnCola("Bloqueados") /\ lugar[q] = "BLOCKED"
  <2>1. EstadoDe("Bloqueados") = "BLOCKED"
    BY DEF EstadoDe
  <2> QED BY <1>1, <1>8, <2>1, LaCabeza DEF BInv
<1>10. q \in Tiene(i)
  <2>1. q \in Dormidas
    BY <1>9 DEF Dormidas
  <2> QED BY <1>1, <2>1 DEF Atendidos, Repartidos, UnaInterfaz
<1>11. p \notin PorBloquear
  <2> SUFFICES ASSUME p \in PorBloquear PROVE FALSE
    OBVIOUS
  <2>1. EsUltimo(p, f.pcb_esperando)
    BY <1>1, <1>3, <1>6 DEF Atendidos, EnOrden
  <2>2. f.pcb_esperando = <<>>
    <3>1. PICK s \in Seq(Pids) : s = f.pcb_esperando
      BY DEF TipoInterfaz
    <3>2. s # <<>> => s[Len(s)] \in ToSet(s)
      BY Elementos, EmptySeq
    <3> QED BY <1>5, <2>1, <3>1, <3>2 DEF EsUltimo
  <2>3. q = p
    BY <1>6, <1>10, <2>2 DEF ToSet
  <2>4. lugar[p] = "EXEC"
    BY <1>1, <1>5 DEF PorBloquear, FielPorConjuntos, EnCpu, EnPausa
  <2> QED BY <1>9, <2>3, <2>4
<1>12. lugar[p] = "BLOCKED"
  BY <1>7, <1>11 DEF Dormidas
<1>13. \E c \in Colas : EstadoDe(c) = "BLOCKED" /\ p \in EnCola(c)
  BY <1>1, <1>5, <1>12 DEF FielPorConjuntos
<1>14. p \in EnCola("Bloqueados")
  BY <1>13 DEF EstadoDe, Colas
<1> QED BY <1>1, <1>2, <1>14, PosicionesDe

LEMMA RelojSigueParado == TypeOK /\ RelojParado /\ [Next]_vars => RelojParado'
<1> SUFFICES ASSUME TypeOK, RelojParado, Algoritmo = "FIFO", [Next]_vars
             PROVE  sem'["sem_iniciar_quantum"] = 0 /\ pc'["reloj"] = "inicio"
  BY DEF RelojParado
<1>1. sem["sem_iniciar_quantum"] = 0 /\ pc["reloj"] = "inicio" /\ ~ConReloj
  BY DEF RelojParado, ConReloj
<1> USE DEF colas, pausas, dispositivos
<1>2. ASSUME NEW h \in Hilos \ {"reloj"}, NEW v, pc' = [pc EXCEPT ![h] = v]
      PROVE  pc'["reloj"] = "inicio"
  BY <1>1, <1>2, SonHilos DEF TypeOK, TipoHilos
<1>3. ASSUME NEW S, sem_post(S), "sem_iniciar_quantum" \notin S
      PROVE  sem'["sem_iniciar_quantum"] = 0
  BY <1>1, <1>3, SemSube DEF Semaforos
<1>4. ASSUME NEW s \in Semaforos, sem_wait(s) PROVE sem'["sem_iniciar_quantum"] = 0
  BY <1>1, <1>4, SemBaja DEF Semaforos
<1>5. /\ \A h \in {"largo", "corto", "cde", "exit"} \cup Interfaces : h \in Hilos \ {"reloj"}
  BY SonHilos DEF Hilos, HilosKernel
<1>6. CASE Consola
  BY <1>1, <1>3, <1>6 DEF Consola, IniciarProceso, DetenerPlanificacion, IniciarPlanificacion
<1>7. CASE PlanificadorLargo
  BY <1>1, <1>2, <1>3, <1>4, <1>5, <1>7
     DEF PlanificadorLargo, LargoEsperaNew, LargoEsperaGrado, NewAReady,
         NewAReadyAnota, Ir, Transita, Semaforos
<1>8. CASE PlanificadorCorto
  BY <1>1, <1>2, <1>3, <1>4, <1>5, <1>8
     DEF PlanificadorCorto, CortoEsperaCpu, CortoEsperaReady, CortoEsperaReloj, EnviarCdeACpu,
         ReadyAExec, Ir, Transita, Semaforos
<1>9. CASE Reloj
  BY <1>1, <1>9 DEF Reloj, RelojInicia, RelojVence, RelojInterrumpe, RelojCaduca, RelojNulo, Muere,
     Ir, sem_wait
<1>10. CASE Cpu \/ UNCHANGED vars
  BY <1>1, <1>10 DEF Cpu, CpuBloqueante, CpuSigue, CpuDevuelve, CpuInterrumpida, vars
<1>11. CASE TerminarProceso
  BY <1>1, <1>4, <1>11 DEF TerminarProceso, Semaforos
<1>12. CASE AtenderCpu
  <2>1. CASE CdeTermina \/ CdeFinDeQuantum \/ (\E i \in Interfaces : CdeIO(i)) \/ CdeIOInvalida
    BY <1>2, <1>4, <1>5, <2>1
       DEF CdeTermina, CdeFinDeQuantum, CdeIO, PideIO, CdeIOInvalida, RecibeCde, Ir, Semaforos
  <2>2. CASE CdeEncola \/ CdeDespacha
    BY <1>1, <1>2, <1>5, <2>2 DEF CdeEncola, CdeDespacha, Ir
  <2>3. CASE CdeEsperaExec
    BY <1>2, <1>4, <1>5, <2>3 DEF CdeEsperaExec, Ir, Semaforos
  <2>4. CASE ExecAFinalizado \/ ExecAReady \/ ExecABlock \/ ExecABlockAnota
    BY <1>1, <1>2, <1>3, <1>5, <2>4
       DEF ExecAFinalizado, ExecAReady, ExecABlock, DejaExec, ExecABlockAnota, FinDeBloqueo, Ir, Transita
  <2> QED BY <1>12, <2>1, <2>2, <2>3, <2>4 DEF AtenderCpu
<1>13. ASSUME NEW i \in Interfaces, DispositivoTermina(i) \/ AtenderIO(i)
       PROVE  sem'["sem_iniciar_quantum"] = 0 /\ pc'["reloj"] = "inicio"
  <2>1. CASE DispositivoTermina(i) \/ BlockAReadyNulo(i)
    BY <1>1, <2>1 DEF DispositivoTermina, BlockAReadyNulo, Muere
  <2>2. CASE IoRecibeLibre(i) \/ IoLibera(i) \/ IoSiguiente(i)
    BY <1>1, <1>2, <1>5, <2>2 DEF IoRecibeLibre, IoLibera, IoSiguiente, Ir
  <2>3. CASE IoEsperaBlocked(i)
    BY <1>2, <1>4, <1>5, <2>3 DEF IoEsperaBlocked, Ir, Semaforos
  <2>4. CASE BlockAReadyBusca(i) \/ BlockAReady(i) \/ BlockAReadyAnota(i)
    BY <1>1, <1>2, <1>3, <1>5, <2>4
       DEF BlockAReadyBusca, BlockAReady, BlockAReadyAnota, FinDeDesbloqueo, Ir, Transita
  <2> QED BY <1>13, <2>1, <2>2, <2>3, <2>4 DEF AtenderIO
<1>14. ASSUME NEW h \in Hilos, Pausar(h)
       PROVE  sem'["sem_iniciar_quantum"] = 0 /\ pc'["reloj"] = "inicio"
  BY <1>1, <1>14, SonHilos DEF Pausar, Detenerse, Dormirse, Ir, TypeOK, TipoHilos
<1> QED BY <1>6, <1>7, <1>8, <1>9, <1>10, <1>11, <1>12, <1>13, <1>14 DEF Next

\* Every search found its PCB.
Hallado == \A i \in Interfaces : pc[i] = "mueve" => io[i].posicion # 0

\* Nothing dereferences a NULL.
NInv == BInv /\ BloqueadosContados /\ Hallado /\ RelojParado /\ SinFalla

LEMMA PasoSinFalla ==
  ASSUME Algoritmo = "FIFO", UnaInterfaz
  PROVE  NInv /\ SinCruce' /\ [Next]_vars => NInv'
<1> SUFFICES ASSUME NInv, SinCruce', [Next]_vars PROVE NInv'
  OBVIOUS
<1>1. BInv' /\ BloqueadosContados' /\ RelojParado'
  <2>1. BusquedaSola
    BY DEF BusquedaSola
  <2> QED BY <2>1, AtencionPaso, CuentaBlocked, RelojSigueParado DEF NInv, BInv, RInv, IInv, SiBusca
<1>2. \A i \in Interfaces : ~BlockAReadyNulo(i)
  BY DEF BlockAReadyNulo, NInv, Hallado, BInv, RInv, BusquedaVigente
<1>5. Hallado'
  <2> SUFFICES ASSUME NEW i \in Interfaces, pc'[i] = "mueve" PROVE io'[i].posicion # 0
    BY DEF Hallado
  <2>1. TypeOK /\ io \in [Interfaces -> TipoIo] /\ cola["Bloqueados"] \in Seq(Pids)
    BY DEF NInv, BInv, RInv, IInv, TypeOK, TipoProcesos, TipoInterfaces, TipoIo, Colas
  <2>2. CASE pc[i] = "mueve" /\ io'[i].posicion = io[i].posicion
    BY <2>2 DEF NInv, Hallado
  <2>3. CASE BlockAReadyBusca(i)
    <3>1. EnTransicion(i)
      BY <2>3 DEF BlockAReadyBusca, Transita, PuedePasar, EnTransicion, EnPausa
    <3>6. PICK p : p = io[i].pcb
      OBVIOUS
    <3>7. PICK s \in Seq(Pids) : s = cola["Bloqueados"]
      BY <2>1
    <3>2. p = io[i].pcb /\ s = cola["Bloqueados"]
      BY <3>6, <3>7
    <3>3. Contains(s, p)
      BY <3>1, <3>2, EstaBloqueado DEF NInv
    <3>4. Posicion(p) \in DOMAIN s
      <4>1. \E k \in DOMAIN s : s[k] = p
        BY <3>3 DEF Contains
      <4> QED BY <3>2, <3>3, <4>1 DEF Posicion
    <3>5. Posicion(p) # 0
      BY <3>4
    <3> QED BY <2>1, <2>3, <3>2, <3>5 DEF BlockAReadyBusca, TipoIo
  <2> QED BY <2>1, <2>2, <2>3, QuienEncontro DEF Encontro
<1>3. ~RelojNulo
  BY DEF NInv, RelojParado, RelojNulo
<1>4. ~falla'
  <2>1. ~falla
    BY DEF NInv, SinFalla
  <2>2. CASE Consola \/ PlanificadorLargo \/ PlanificadorCorto \/ Cpu \/ TerminarProceso \/ UNCHANGED vars
    BY <2>1, <2>2 DEF Consola, IniciarProceso, DetenerPlanificacion, IniciarPlanificacion,
       PlanificadorLargo, LargoEsperaNew, LargoEsperaGrado, NewAReady, NewAReadyAnota, PlanificadorCorto,
       CortoEsperaCpu, CortoEsperaReady, CortoEsperaReloj, EnviarCdeACpu, ReadyAExec,
       Cpu, CpuBloqueante, CpuSigue, CpuDevuelve, CpuInterrumpida, TerminarProceso, vars
  <2>3. CASE Reloj
    BY <1>3, <2>1, <2>3 DEF Reloj, RelojInicia, RelojVence, RelojInterrumpe, RelojCaduca
  <2>4. CASE AtenderCpu
    BY <2>1, <2>4 DEF AtenderCpu, CdeTermina, CdeFinDeQuantum, CdeIO, PideIO, CdeIOInvalida,
       RecibeCde, CdeEncola, CdeDespacha, CdeEsperaExec, ExecAFinalizado, ExecAReady, ExecABlock,
       DejaExec, ExecABlockAnota, FinDeBloqueo
  <2>5. ASSUME NEW i \in Interfaces, DispositivoTermina(i) \/ AtenderIO(i) PROVE ~falla'
    BY <1>2, <2>1, <2>5 DEF DispositivoTermina, AtenderIO, IoRecibeLibre, IoEsperaBlocked,
       BlockAReadyBusca, BlockAReady, BlockAReadyAnota, FinDeDesbloqueo, IoLibera, IoSiguiente
  <2>6. ASSUME NEW h \in Hilos, Pausar(h) PROVE ~falla'
    BY <2>1, <2>6 DEF Pausar, Detenerse, Dormirse
  <2> QED BY <2>2, <2>3, <2>4, <2>5, <2>6 DEF Next
<1> QED BY <1>1, <1>4, <1>5 DEF NInv, SinFalla

\* Under FIFO, with one interface, and while evaluar_io and atender_io do not
\* run inside each other, the Kernel never uses a NULL PCB: the process of a
\* LIBRE is in procesosBloqueados when it is looked for, and still there when
\* it is removed.
THEOREM KernelVivo ==
  Algoritmo = "FIFO" /\ UnaInterfaz => (Spec /\ []SinCruce => []SinFalla)
<1> SUFFICES ASSUME Algoritmo = "FIFO", UnaInterfaz PROVE Spec /\ []SinCruce => []SinFalla
  OBVIOUS
<1>1. Init => NInv
  <2> SUFFICES ASSUME Init PROVE NInv
    OBVIOUS
  <2>1. BloqueadosContados
    <3>1. list_size("Bloqueados") = 0 /\ sem["procesos_en_blocked"] = 0
      BY DEF Init, list_size, Colas, Semaforos
    <3>2. {i \in Interfaces : EnTransicion(i) \/ pc[i] = "mueve"} = {} /\ Uno(pc["cde"] = "anota") = 0
      BY SonHilos DEF Init, EnTransicion, EnPausa, Uno
    <3> QED BY <3>1, <3>2, FS_EmptySet DEF BloqueadosContados
  <2>2. RelojParado /\ SinFalla /\ Hallado
    BY SonHilos DEF Init, RelojParado, SinFalla, Semaforos, Hallado
  <2> QED BY <2>1, <2>2, AtencionInicio DEF NInv
<1>2. NInv /\ SinCruce' /\ [Next]_vars => NInv'
  BY PasoSinFalla
<1>3. NInv => SinFalla
  BY DEF NInv
<1> QED BY <1>1, <1>2, <1>3, PTL DEF Spec
=============================================================================
