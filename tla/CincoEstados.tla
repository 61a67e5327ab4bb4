----------------------------- MODULE CincoEstados -----------------------------
(***************************************************************************)
(* What the Kernel promises of its processes: the five-state diagram of    *)
(* the README (New - Ready - Exec - Blocked - Exit), with one processor    *)
(* and a degree of multiprogramming.  Queues, semaphores, threads and      *)
(* messages are left to the modules that implement it.                     *)
(***************************************************************************)
EXTENDS Naturals, FiniteSets

CONSTANTS Procesos, Grado    \* the pids, and the degree of multiprogramming

VARIABLE estado

En(E) == {p \in Procesos : estado[p] \in E}
Activos == En({"READY", "EXEC", "BLOCKED"})

Init == estado = [p \in Procesos |-> "NO_CREADO"]

Pasa(p, de, a) == estado[p] = de /\ estado' = [estado EXCEPT ![p] = a]

\* Pids are given in increasing order.
Crear(p) ==
  /\ \A q \in En({"NO_CREADO"}) : p <= q
  /\ Pasa(p, "NO_CREADO", "NEW")

\* The oldest process in NEW is admitted, if the degree allows it.
Admitir(p) ==
  /\ Cardinality(Activos) < Grado
  /\ \A q \in En({"NEW"}) : p <= q
  /\ Pasa(p, "NEW", "READY")

Ejecutar(p) == En({"EXEC"}) = {} /\ Pasa(p, "READY", "EXEC")

Desalojar(p) == Pasa(p, "EXEC", "READY")
Bloquear(p) == Pasa(p, "EXEC", "BLOCKED")
Desbloquear(p) == Pasa(p, "BLOCKED", "READY")
Terminar(p) == Pasa(p, "EXEC", "EXIT")

Next ==
  \E p \in Procesos :
    \/ Crear(p) \/ Admitir(p) \/ Ejecutar(p) \/ Desalojar(p)
    \/ Bloquear(p) \/ Desbloquear(p) \/ Terminar(p)

Spec == Init /\ [][Next]_estado
=============================================================================
