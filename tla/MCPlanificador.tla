--------------------------- MODULE MCPlanificador ---------------------------
(***************************************************************************)
(* Planificador on small instances.  Every interface runs the same code    *)
(* and no constant names one of them, so they may be permuted in the runs  *)
(* that check no liveness.                                                 *)
(***************************************************************************)
EXTENDS Planificador

SimetriaInterfaces == Permutations(Interfaces)
=============================================================================
