------------------------------ MODULE MCRecursos ------------------------------
(***************************************************************************)
(* Recursos with small programs over two resources.                        *)
(***************************************************************************)
EXTENDS Recursos

W(r) == [op |-> "WAIT", recurso |-> r]
S(r) == [op |-> "SIGNAL", recurso |-> r]
Otra == [op |-> "OTRA", recurso |-> Nulo]

\* A has two instances and B one.
DosRecursos == [r \in {"A", "B"} |-> IF r = "A" THEN 2 ELSE 1]

\* Two processes that take A before B and give both back, one of which asks
\* for A again while it has it and the other for what does not exist; and one
\* that gives B back twice.
TresProgramas ==
  << <<W("A"), W("B"), Otra, S("B"), S("A"), W("C")>>,
     <<W("A"), W("B"), Otra, S("B"), W("A"), S("A"), S("A")>>,
     <<W("B"), Otra, S("B"), S("B")>> >>

\* One that ends with the resource another waits for.
SinDevolver == << <<W("B")>>, <<W("B"), S("B")>> >>
=============================================================================
