----------------------------- MODULE EspacioLogico -----------------------------
(***************************************************************************)
(* What the memory promises to a program: an array of bytes of its own, in *)
(* which every access, of an instruction or of a device, is done at once,  *)
(* in the range it names, and in the order the program asks.               *)
(***************************************************************************)
EXTENDS Integers, SequencesExt

CONSTANTS
  Tamanios,   \* bytes of each process
  Accesos,    \* what may be asked for
  Nulo

VARIABLES espacio, pedido, leido

vars == <<espacio, pedido, leido>>

Procesos == DOMAIN Tamanios

Contenido(m, d, n) == [k \in 1..n |-> m[d + k - 1]]
Pegar(m, d, s) ==
  [a \in DOMAIN m |-> IF a \in d..(d + Len(s) - 1) THEN s[a - d + 1] ELSE m[a]]

\* Devices get a string of C: what there is before the first 0.
HastaCero(s) ==
  LET ceros == {k \in DOMAIN s : s[k] = 0}
  IN IF ceros = {} THEN s ELSE SubSeq(s, 1, Min(ceros) - 1)

Init ==
  /\ espacio = [p \in Procesos |-> [d \in 0..(Tamanios[p] - 1) |-> 0]]
  /\ pedido = [p \in Procesos |-> Nulo]
  /\ leido = [p \in Procesos |-> <<>>]

Pedir(a) ==
  /\ pedido[a.pid] = Nulo
  /\ pedido' = [pedido EXCEPT ![a.pid] = a]
  /\ UNCHANGED <<espacio, leido>>

Hacer(p, tipos) ==
  /\ pedido[p] # Nulo /\ pedido[p].tipo \in tipos
  /\ pedido' = [pedido EXCEPT ![p] = Nulo]

Escribir(p) ==
  /\ Hacer(p, {"MOV_OUT", "ENTRADA"})
  /\ espacio' = [espacio EXCEPT ![p] = Pegar(@, pedido[p].dir, pedido[p].datos)]
  /\ UNCHANGED leido

Leer(p) ==
  LET s == Contenido(espacio[p], pedido[p].dir, pedido[p].n) IN
  /\ Hacer(p, {"MOV_IN", "SALIDA"})
  /\ leido' = [leido EXCEPT ![p] = IF pedido[p].tipo = "SALIDA" THEN HastaCero(s) ELSE s]
  /\ UNCHANGED espacio

\* All the bytes are read before the first is written.
Copiar(p) ==
  /\ Hacer(p, {"COPY_STRING"})
  /\ espacio' = [espacio EXCEPT ![p] = Pegar(@, pedido[p].destino,
                                             Contenido(@, pedido[p].dir, pedido[p].n))]
  /\ UNCHANGED leido

Atender(p) == Escribir(p) \/ Leer(p) \/ Copiar(p)
Next == (\E a \in Accesos : Pedir(a)) \/ (\E p \in Procesos : Atender(p))

Pasos == Init /\ [][Next]_vars
Justicia == \A p \in Procesos : WF_vars(Atender(p))
Spec == Pasos /\ Justicia
=============================================================================
