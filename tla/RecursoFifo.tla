----------------------------- MODULE RecursoFifo -----------------------------
(***************************************************************************)
(* What WAIT and SIGNAL promise: every resource is a counting semaphore    *)
(* with a queue.  An instance that is given back goes to who waits first,  *)
(* nobody takes one past a process that waits, and none is made or lost.   *)
(***************************************************************************)
EXTENDS Integers, SequencesExt

CONSTANTS Procesos, Recursos

VARIABLES
  libres,   \* instances nobody has
  tiene,    \* instances each process has
  espera    \* who waits for each resource, first come first

vars == <<libres, tiene, espera>>

Init ==
  /\ libres \in [Recursos -> Nat]
  /\ tiene = [p \in Procesos |-> [r \in Recursos |-> 0]]
  /\ espera = [r \in Recursos |-> <<>>]

Tomar(p, r) ==
  /\ libres[r] > 0 /\ espera[r] = <<>>
  /\ libres' = [libres EXCEPT ![r] = @ - 1]
  /\ tiene' = [tiene EXCEPT ![p][r] = @ + 1]
  /\ UNCHANGED espera

\* A process waits for one resource at a time.
Esperar(p, r) ==
  /\ libres[r] = 0
  /\ \A s \in Recursos : ~Contains(espera[s], p)
  /\ espera' = [espera EXCEPT ![r] = Append(@, p)]
  /\ UNCHANGED <<libres, tiene>>

Soltar(p, r) ==
  /\ tiene[p][r] > 0 /\ espera[r] = <<>>
  /\ libres' = [libres EXCEPT ![r] = @ + 1]
  /\ tiene' = [tiene EXCEPT ![p][r] = @ - 1]
  /\ UNCHANGED espera

\* The two processes may be the same one: a process that waits for another
\* instance of what it has.
Ceder(p, r) ==
  LET q == Head(espera[r]) IN
  /\ tiene[p][r] > 0 /\ espera[r] # <<>>
  /\ tiene' = [x \in Procesos |->
                 [tiene[x] EXCEPT ![r] = @ - (IF x = p THEN 1 ELSE 0)
                                           + (IF x = q THEN 1 ELSE 0)]]
  /\ espera' = [espera EXCEPT ![r] = Tail(@)]
  /\ UNCHANGED libres

\* A process that has nothing leaves every queue.
Abandonar(p) ==
  /\ tiene[p] = [r \in Recursos |-> 0]
  /\ espera' = [r \in Recursos |-> RemoveFirst(espera[r], p)]
  /\ UNCHANGED <<libres, tiene>>

Next ==
  \E p \in Procesos :
    \/ \E r \in Recursos : Tomar(p, r) \/ Esperar(p, r) \/ Soltar(p, r) \/ Ceder(p, r)
    \/ Abandonar(p)

Spec == Init /\ [][Next]_vars
=============================================================================
