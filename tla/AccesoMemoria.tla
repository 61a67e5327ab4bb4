----------------------------- MODULE AccesoMemoria -----------------------------
(***************************************************************************)
(* The contents of the memory: what MOV_IN, MOV_OUT and COPY_STRING of the *)
(* CPU, and the reads and writes of the devices, do to it.  An access that *)
(* does not fit in a page is cut in pieces, by the CPU in its own case and *)
(* by Memoria in the case of a device; MOV_OUT has no answer, so that the  *)
(* CPU goes on with the piece still in the socket.  The tables of pages do *)
(* not change here: Paginacion has RESIZE and the translation.             *)
(***************************************************************************)
EXTENDS Integers, SequencesExt

CONSTANTS
  TamPagina,
  CantMarcos,
  Tablas,       \* tabla_de_paginas of each process: the frame of each page
  Accesos,      \* accesses the programs may make
  MaxAccesos,   \* bound on how many they make
  Cruces,       \* devices may start a write in the middle of a page and leave it
  Nulo

Procesos == DOMAIN Tablas
Tamanios == [p \in Procesos |-> Len(Tablas[p]) * TamPagina]
Bytes == 0..255
Direcciones == 0..(CantMarcos * TamPagina - 1)

\* escribir_y_guardar_en_dos_paginas and its siblings know of two pages.
ASSUME TamPaginaAssumption == TamPagina \in Nat /\ TamPagina >= 4
ASSUME TablasAssumption ==
  /\ CantMarcos \in Nat
  /\ \A p \in Procesos : Tablas[p] \in Seq(0..(CantMarcos - 1))
  /\ \A p, q \in Procesos : \A k \in DOMAIN Tablas[p], l \in DOMAIN Tablas[q] :
       Tablas[p][k] = Tablas[q][l] => p = q /\ k = l
ASSUME AccesosAssumption ==
  /\ Nulo \notin Accesos /\ MaxAccesos \in Nat /\ Cruces \in BOOLEAN
  /\ Accesos \subseteq [pid : Procesos, dir : Nat, n : Nat \ {0}, destino : Nat, datos : Seq(Bytes),
                        tipo : {"MOV_IN", "MOV_OUT", "COPY_STRING", "ENTRADA", "SALIDA"}]
  /\ \A a \in Accesos :
       /\ a.tipo \in {"MOV_IN", "MOV_OUT"} => a.n \in {1, 4}
       /\ Len(a.datos) = IF a.tipo \in {"MOV_OUT", "ENTRADA"} THEN a.n ELSE 0
       /\ {a.dir + a.n, a.destino + a.n} \subseteq 1..Tamanios[a.pid]

VARIABLES
  memoria_fisica,
  cpu,          \* the access under way
  socket_cpu,   \* MOV_OUT_SOLICITUD that atender_cpu has not read
  interfaz,     \* the access of a device under way for each process
  leido,        \* what each process read last: a register, or the screen
  hechos,       \* accesses so far (only to bound them)
  falla         \* Memoria died: a page that does not exist, a negative size

vars == <<memoria_fisica, cpu, socket_cpu, interfaz, leido, hechos, falla>>

Ociosa == [acceso |-> Nulo, fase |-> "libre", dir |-> 0, datos |-> <<>>]

Init ==
  /\ memoria_fisica = [d \in Direcciones |-> 0]
  /\ cpu = Ociosa /\ socket_cpu = <<>>
  /\ interfaz = [p \in Procesos |-> Ociosa]
  /\ leido = [p \in Procesos |-> <<>>]
  /\ hechos = 0 /\ falla = FALSE

Desplazamiento(d) == d % TamPagina
DirFisica(p, d) == Tablas[p][1 + (d \div TamPagina)] * TamPagina + Desplazamiento(d)

Contenido(m, d, n) == [k \in 1..n |-> m[d + k - 1]]

\* n bytes more, after those that were read.
Lectura(s, m, d, n) == s \o Contenido(m, d, n)

\* memcpy to the memory.
Copiada(m, d, s) ==
  [a \in DOMAIN m |-> IF a \in d..(d + Len(s) - 1) THEN s[a - d + 1] ELSE m[a]]

Menor(S) == Min(S)
Primeros(s, n) == SubSeq(s, 1, Menor({n, Len(s)}))
Resto(s, n) == SubSeq(s, n + 1, Len(s))

(***************************************************************************)
(* CPU.                                                                    *)
(***************************************************************************)
\* The fetch of every instruction goes by the same socket: when it is
\* answered, what was written before is in the memory.
EscriturasHechas == socket_cpu = <<>>

\* The process is in the CPU, so no device is working for it.
Empezar(tipos, a) ==
  /\ hechos < MaxAccesos /\ hechos' = hechos + 1
  /\ cpu.fase = "libre" /\ EscriturasHechas
  /\ a.tipo \in tipos /\ interfaz[a.pid].fase = "libre"

CpuEmpieza ==
  \E a \in Accesos :
    /\ Empezar({"MOV_IN", "MOV_OUT", "COPY_STRING"}, a)
    /\ cpu' = [acceso |-> a, fase |-> IF a.tipo = "MOV_OUT" THEN "escribe" ELSE "lee",
               dir |-> a.dir, datos |-> IF a.tipo = "MOV_OUT" THEN a.datos ELSE <<>>]
    /\ UNCHANGED <<memoria_fisica, socket_cpu, interfaz, leido, falla>>

\* Mutation: the piece after the first one is whole.
TrozoDeCuatro(a, d, resto) == IF resto > 1 THEN Menor({4, TamPagina - Desplazamiento(d)}) ELSE 1
\* Mutation: a page has no end.
TrozoSinPagina(a, d, resto) == IF a.tipo = "COPY_STRING" /\ resto <= 4 THEN 1 ELSE Menor({4, resto})
\* The bytes of the next request: a register of four bytes in one or two
\* pieces; a string by four, or what is left of the page, while more than
\* four are left, and then one by one.
Trozo(a, d, resto) ==
  IF a.tipo = "COPY_STRING" /\ resto <= 4 THEN 1
  ELSE Menor({4, resto, TamPagina - Desplazamiento(d)})

\* MOV_IN_SOLICITUD, that waits for its answer.
CpuLee ==
  LET a == cpu.acceso
      t == Trozo(a, cpu.dir, a.n - Len(cpu.datos))
      datos == Lectura(cpu.datos, memoria_fisica, DirFisica(a.pid, cpu.dir), t) IN
  /\ cpu.fase = "lee" /\ socket_cpu = <<>>
  /\ cpu' = CASE Len(datos) < a.n -> [cpu EXCEPT !.dir = @ + t, !.datos = datos]
              [] Len(datos) >= a.n /\ a.tipo = "COPY_STRING" ->
                   [cpu EXCEPT !.fase = "escribe", !.dir = a.destino, !.datos = datos]
              [] OTHER -> Ociosa
  /\ leido' = IF Len(datos) >= a.n /\ a.tipo = "MOV_IN" THEN [leido EXCEPT ![a.pid] = datos] ELSE leido
  /\ UNCHANGED <<memoria_fisica, socket_cpu, interfaz, hechos, falla>>

\* MOV_OUT_SOLICITUD.
CpuEscribe ==
  LET a == cpu.acceso
      t == Trozo(a, cpu.dir, Len(cpu.datos)) IN
  /\ cpu.fase = "escribe"
  /\ socket_cpu' = Append(socket_cpu, [dir |-> DirFisica(a.pid, cpu.dir),
                                       datos |-> Primeros(cpu.datos, t)])
  /\ cpu' = IF t < Len(cpu.datos) THEN [cpu EXCEPT !.dir = @ + t, !.datos = Resto(@, t)] ELSE Ociosa
  /\ UNCHANGED <<memoria_fisica, interfaz, leido, hechos, falla>>

(***************************************************************************)
(* Memoria.                                                                *)
(***************************************************************************)
EscribirFisica ==
  /\ socket_cpu # <<>>
  /\ memoria_fisica' = Copiada(memoria_fisica, Head(socket_cpu).dir, Head(socket_cpu).datos)
  /\ socket_cpu' = Tail(socket_cpu)
  /\ UNCHANGED <<cpu, interfaz, leido, hechos, falla>>

\* Any read of a device, and the writes that start a page or end in the page
\* where they start.
Cabe(a) == Desplazamiento(a.dir) + a.n <= TamPagina
Admitido(a) == a.tipo = "SALIDA" \/ Desplazamiento(a.dir) = 0 \/ Cabe(a)

\* A device asks for it, with the physical address the CPU found for the
\* first byte.
IoEmpieza(tipo) ==
  \E a \in Accesos :
    /\ Empezar({tipo}, a)
    /\ Cruces \/ Admitido(a)
    /\ interfaz' = [interfaz EXCEPT ![a.pid] =
                      [acceso |-> a, fase |-> "empieza", dir |-> DirFisica(a.pid, a.dir),
                       datos |-> a.datos]]
    /\ UNCHANGED <<memoria_fisica, cpu, socket_cpu, leido, falla>>

\* IO_STDIN_READ and IO_FS_READ, IO_STDOUT_WRITE and IO_FS_WRITE.
PedirEntrada == IoEmpieza("ENTRADA")
PedirSalida == IoEmpieza("SALIDA")

Trabaja(p, tipo, fase) == interfaz[p].fase = fase /\ interfaz[p].acceso.tipo = tipo

\* obtener_pagsig_de_dirfisica: pages of p after the frame of d.
PaginasSiguientes(p, d) ==
  {k \in DOMAIN Tablas[p] : k > 1 /\ Tablas[p][k - 1] = d \div TamPagina}

\* recalcular_direccion_fisica of the next page.
PaginaSiguiente(p, d) == Tablas[p][CHOOSE k \in PaginasSiguientes(p, d) : TRUE] * TamPagina

\* escribir_a_partir_de_direccion, up to the end of the first memcpy.  The
\* bytes left are counted without sign: fewer than a page, and it goes on
\* until there are no pages.
EscribirPrimera(p) ==
  LET i == interfaz[p] IN
  /\ Trabaja(p, "ENTRADA", "empieza")
  /\ IF TamPagina - Desplazamiento(i.dir) >= i.acceso.n
       THEN /\ memoria_fisica' = Copiada(memoria_fisica, i.dir, i.datos)
            /\ interfaz' = [interfaz EXCEPT ![p] = Ociosa]
            /\ UNCHANGED falla
       ELSE /\ memoria_fisica' = Copiada(memoria_fisica, i.dir, Primeros(i.datos, TamPagina))
            /\ interfaz' = [interfaz EXCEPT ![p].fase = "sigue", ![p].datos = Resto(@, TamPagina)]
            /\ falla' = (i.acceso.n < TamPagina)
  /\ UNCHANGED <<cpu, socket_cpu, leido, hechos>>

EscribirSiguiente(p) ==
  LET i == interfaz[p]
      d == PaginaSiguiente(p, i.dir) IN
  /\ Trabaja(p, "ENTRADA", "sigue")
  /\ falla' = (PaginasSiguientes(p, i.dir) = {})
  /\ IF falla' THEN UNCHANGED <<memoria_fisica, interfaz>>
     ELSE /\ memoria_fisica' = Copiada(memoria_fisica, d, Primeros(i.datos, TamPagina))
          /\ interfaz' = [interfaz EXCEPT ![p] =
                            IF Len(i.datos) <= TamPagina THEN Ociosa
                            ELSE [i EXCEPT !.dir = d, !.datos = Resto(@, TamPagina)]]
  /\ UNCHANGED <<cpu, socket_cpu, leido, hechos>>

\* buffer_write_string stops at the first 0.
HastaCero(s) == IF Contains(s, 0) THEN SubSeq(s, 1, Menor({k \in DOMAIN s : s[k] = 0}) - 1) ELSE s

Responde(p, datos) ==
  /\ leido' = [leido EXCEPT ![p] = HastaCero(datos)]
  /\ interfaz' = [interfaz EXCEPT ![p] = Ociosa]

\* leer_a_partir_de_direccion: from the middle of a page it reads to its end,
\* whatever the size.  When that is more than was asked for, the bytes left are
\* negative, and the last memcpy, of that size, kills Memoria.
LeerPrimera(p) ==
  LET i == interfaz[p]
      t == IF Desplazamiento(i.dir) # 0 THEN TamPagina - Desplazamiento(i.dir)
           ELSE Menor({i.acceso.n, TamPagina})
      datos == Lectura(<<>>, memoria_fisica, i.dir, t) IN
  /\ Trabaja(p, "SALIDA", "empieza")
  /\ falla' = (t > i.acceso.n)
  /\ IF falla' THEN UNCHANGED <<leido, interfaz>>
     ELSE IF t = i.acceso.n THEN Responde(p, datos)
     ELSE /\ interfaz' = [interfaz EXCEPT ![p].fase = "sigue", ![p].datos = datos]
          /\ UNCHANGED leido
  /\ UNCHANGED <<memoria_fisica, cpu, socket_cpu, hechos>>

\* Mutation: the last page is not the last one.
LeerSinFinal(p) ==
  LET i == interfaz[p]
      d == PaginaSiguiente(p, i.dir)
      datos == Lectura(i.datos, memoria_fisica, d, Menor({TamPagina, i.acceso.n - Len(i.datos)})) IN
  /\ Trabaja(p, "SALIDA", "sigue")
  /\ falla' = (PaginasSiguientes(p, i.dir) = {})
  /\ IF falla' THEN UNCHANGED <<leido, interfaz>>
     ELSE /\ interfaz' = [interfaz EXCEPT ![p].dir = d, ![p].datos = datos]
          /\ UNCHANGED leido
  /\ UNCHANGED <<memoria_fisica, cpu, socket_cpu, hechos>>
LeerSiguiente(p) ==
  LET i == interfaz[p]
      d == PaginaSiguiente(p, i.dir)
      datos == Lectura(i.datos, memoria_fisica, d, Menor({TamPagina, i.acceso.n - Len(i.datos)})) IN
  /\ Trabaja(p, "SALIDA", "sigue")
  /\ falla' = (PaginasSiguientes(p, i.dir) = {})
  /\ IF falla' THEN UNCHANGED <<leido, interfaz>>
     ELSE IF Len(datos) = i.acceso.n THEN Responde(p, datos)
     ELSE /\ interfaz' = [interfaz EXCEPT ![p].dir = d, ![p].datos = datos]
          /\ UNCHANGED leido
  /\ UNCHANGED <<memoria_fisica, cpu, socket_cpu, hechos>>

(***************************************************************************)
(* The specification.                                                      *)
(***************************************************************************)
Cpu == CpuLee \/ CpuEscribe
Dispositivo(p) ==
  EscribirPrimera(p) \/ EscribirSiguiente(p) \/ LeerPrimera(p) \/ LeerSiguiente(p)

Next ==
  /\ ~falla
  /\ \/ CpuEmpieza \/ PedirEntrada \/ PedirSalida \/ Cpu \/ EscribirFisica
     \/ \E p \in Procesos : Dispositivo(p)

\* The CPU and the threads of Memoria run; nobody has to ask for anything.
Spec ==
  /\ Init /\ [][Next]_vars
  /\ WF_vars(~falla /\ Cpu) /\ WF_vars(~falla /\ EscribirFisica)
  /\ \A p \in Procesos : WF_vars(~falla /\ Dispositivo(p))

(***************************************************************************)
(* Properties.                                                             *)
(***************************************************************************)
\* An access under way never has more bytes than it was asked for.
TypeOK ==
  /\ memoria_fisica \in [Direcciones -> Bytes]
  /\ leido \in [Procesos -> Seq(Bytes)]
  /\ hechos \in 0..MaxAccesos /\ falla \in BOOLEAN
  /\ \A i \in {cpu} \cup {interfaz[p] : p \in Procesos} :
       i.fase # "libre" => i.acceso \in Accesos /\ Len(i.datos) <= i.acceso.n
  /\ \A k \in DOMAIN socket_cpu : socket_cpu[k].dir \in Direcciones

\* What each process sees of its memory: the pieces in the socket are there,
\* and an access that has written a piece has written them all, for nobody
\* looks until it ends.
Toca(w, d) == d \in w.dir..(w.dir + Len(w.datos) - 1)
Tocan(s, d) == {k \in DOMAIN s : Toca(s[k], d)}
Llegan(m, s) ==
  [d \in DOMAIN m |->
     IF Tocan(s, d) = {} THEN m[d]
     ELSE LET w == s[Max(Tocan(s, d))] IN w.datos[d - w.dir + 1]]
Vista(m, p) == [d \in 0..(Tamanios[p] - 1) |-> m[DirFisica(p, d)]]
EscribeCpu(p) == cpu.fase = "escribe" /\ cpu.acceso.pid = p /\ Len(cpu.datos) < cpu.acceso.n
EscribeIo(p) == Trabaja(p, "ENTRADA", "sigue")
Visto(p) ==
  LET m == Vista(Llegan(memoria_fisica, socket_cpu), p)
      i == interfaz[p]
  IN CASE EscribeCpu(p) -> Copiada(m, cpu.dir, cpu.datos)
       [] EscribeIo(p) -> Copiada(m, i.acceso.dir + i.acceso.n - Len(i.datos), i.datos)
       [] OTHER -> m

Pendiente(p) ==
  CASE cpu.fase # "libre" /\ cpu.acceso.pid = p /\ ~EscribeCpu(p) -> cpu.acceso
    [] interfaz[p].fase # "libre" /\ ~EscribeIo(p) -> interfaz[p].acceso
    [] OTHER -> Nulo

Espacio == INSTANCE EspacioLogico WITH
             espacio <- [p \in Procesos |-> Visto(p)],
             pedido <- [p \in Procesos |-> Pendiente(p)]

\* Cut in pieces, with writes nobody answers and devices at work for others,
\* every access is as good as one done at once in a memory of its own
\* (cpu.c:836-1180, memoria.c:372-583).
CumpleEspacio == Espacio!Pasos

\* A read that starts after the beginning of a page and ends before its end.
Dentro(a) == a.tipo = "SALIDA" /\ Desplazamiento(a.dir) \in 1..(TamPagina - a.n - 1)

\* Each access that is asked for is done: the CPU and the devices get to the
\* last byte, and do not look for a page after it.  Unless Memoria dies, and
\* only a read of a device inside a page kills it (cpu.c:1064-1180,
\* memoria.c:372-583).
AccesosSeHacen ==
  \/ Espacio!Justicia
  \/ <>(falla /\ \E p \in Procesos : interfaz[p].fase # "libre" /\ Dentro(interfaz[p].acceso))

(***************************************************************************)
(* What comments of memoria.c say and the code does not do.                *)
(***************************************************************************)
\* memoria.c:499, "leyendo de la primer pagina ya completamos la solicitud", is
\* asked only of a read that ends where its page does: one that starts inside a
\* page and ends before it copies up to the end and goes on with a negative
\* number of bytes left.
MemoriaViva == ~falla

\* memoria.c:402, after the first memcpy of a write that does not fit in its
\* page: "termina una pagina".  So the frames of the others are not touched.
EscrituraPropia ==
  [][\A p \in Procesos :
       EscribirPrimera(p) =>
         \A d \in Direcciones : memoria_fisica'[d] # memoria_fisica[d] =>
                                  d \div TamPagina = interfaz[p].dir \div TamPagina]_vars
=============================================================================
