------------------------------ MODULE MCCicloCpu ------------------------------
(***************************************************************************)
(* CicloCpu with two small programs.                                       *)
(***************************************************************************)
EXTENDS CicloCpu

N(n) == Nombre(n)
V(v) == Numero(v)

\* A critical section with I/O in it, with a blank line and words left over.
Uno == << <<N("SET"), N("SI"), V(5)>>,
          <<>>,
          <<N("RESIZE"), V(8)>>,
          <<N("WAIT"), N("R")>>,
          <<N("IO_STDOUT_WRITE"), N("pantalla"), N("SI"), N("SI")>>,
          <<N("SIGNAL"), N("R"), N("de"), N("mas")>>,
          <<N("EXIT"), N("")>> >>

\* Arithmetic below zero and past the width of BX, a jump over an EXIT, and a
\* line that is no instruction.
Dos == << <<N("SET"), N("AX"), V(-3)>>,
          <<N("SUM"), N("EBX"), N("AX")>>,
          <<N("SUB"), N("BX"), N("EBX")>>,
          <<N("JNZ"), N("BX"), V(5)>>,
          <<N("EXIT")>>,
          <<N("IO_FS_TRUNCATE"), N("disco"), N("f"), N("BX")>>,
          <<N("SALTAR"), V(1)>>,
          <<N("EXIT")>> >>
DosTextos == <<Uno, Dos>>
DosTablas == << <<2, 0>>, <<1, 3>> >>
=============================================================================
