---------------------------- MODULE MCAccesoMemoria ----------------------------
(***************************************************************************)
(* AccesoMemoria with pages of four bytes: a process of three pages out of *)
(* order and another one whose only frame is between them.                 *)
(***************************************************************************)
EXTENDS AccesoMemoria

DosTablas == << <<2, 0, 3>>, <<1>> >>

Acceso(p, t, d, n) ==
  [pid |-> p, tipo |-> t, dir |-> d, n |-> n, destino |-> 0, datos |-> <<>>]
Con(p, t, d, s) == [Acceso(p, t, d, Len(s)) EXCEPT !.datos = s]
Copia(p, si, di, n) == [Acceso(p, "COPY_STRING", si, n) EXCEPT !.destino = di]

\* Aligned and across one and two limits of pages, by all who may do it.
Variados ==
  { Con(1, "MOV_OUT", 2, <<1, 2, 3, 4>>), Con(1, "MOV_OUT", 7, <<5>>),
    Acceso(1, "MOV_IN", 3, 4), Copia(1, 1, 2, 9),
    Con(1, "ENTRADA", 0, <<6, 6, 7, 7, 8, 8, 9, 9, 5, 5>>), Con(1, "ENTRADA", 5, <<3, 4>>),
    Acceso(1, "SALIDA", 3, 9), Acceso(1, "SALIDA", 4, 4), Acceso(1, "SALIDA", 5, 2),
    Con(2, "MOV_OUT", 0, <<8, 8, 0, 8>>), Acceso(2, "SALIDA", 0, 4) }

\* A write of a device that begins in the middle of a page.
Cruzados == Variados \cup {Con(1, "ENTRADA", 2, <<1, 1, 1, 1, 1>>)}
=============================================================================
