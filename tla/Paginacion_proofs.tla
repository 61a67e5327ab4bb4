-------------------------- MODULE Paginacion_proofs --------------------------
(***************************************************************************)
(* The invariants of the paged memory, proved for any number of processes  *)
(* and frames, any size of page, any RESIZE the programs make and any TLB. *)
(*                                                                         *)
(* Layout: sockets and frames first; then one lemma per part of the        *)
(* inductive invariant PInv (types, who is known to Memoria, frames and    *)
(* tables), each with one step per action, and its theorems; then the      *)
(* turns of the CPU and Memoria, the translations that stay true, and the  *)
(* TLB, with the theorems about what the CPU reaches.                      *)
(***************************************************************************)
EXTENDS Paginacion, Secuencias_lemas

\* atender_cpu is inside a RESIZE or a search.
Ocupada == Buscando \cup {"crea"}

\* The locals of atender_cpu: a request in course has a process, and a page
\* that is being created a frame.
MemTipada(m) ==
  /\ m \in LocalesMem
  /\ m.pc \in Ocupada => m.pid \in Pids
  /\ m.pc = "busca_crea" => m.marco \in Marcos /\ m.faltan > 0

\* Those of the CPU: it has a process unless it waits for one.
CpuTipada(c) == c \in LocalesCpu /\ (c.pc # "libre" => c.pid \in Pids)

\* Types that depend on where each program is.
TipoCruzado ==
  /\ MemTipada(mem)
  /\ CpuTipada(cpu)
  /\ \A m \in ToSet(respuestas) : m.tipo = "marco" => m.marco \in Marcos

\* Whoever owns a frame, runs, or is named by a request was started once: it
\* is in the list of Memoria or ended.  A pid never comes back.
Conocidos == ToSet(lista_procesos) \cup fin
Censo ==
  /\ IsInjective(lista_procesos)
  /\ \A f \in Marcos : marcos[f].pid # Nulo => marcos[f].pid \in Conocidos
  /\ cpu.pc # "libre" => cpu.pid \in Conocidos
  /\ \A m \in ToSet(pedidos) : m.pid \in Conocidos
  /\ mem.pc \in Ocupada => mem.pid \in Conocidos

\* The frame between obtener_marco_libre and list_add is already marked with
\* the page it is for, while its process exists.
CreaPropia ==
  mem.pc = "busca_crea" /\ Contains(lista_procesos, mem.pid) => EnCreacion(mem.marco)

PInv == TypeOK /\ TipoCruzado /\ Censo /\ CreaPropia /\ MarcosSinCompartir

(***************************************************************************)
(* The two sockets.                                                        *)
(***************************************************************************)

\* What taking the first answer, or adding one or two, does to the socket.
LEMMA SocketCpu ==
  ASSUME respuestas \in Seq(Mensajes)
  PROVE  /\ respuestas # <<>> =>
              /\ Head(respuestas) \in Mensajes /\ Head(respuestas) \in ToSet(respuestas)
              /\ Tail(respuestas) \in Seq(Mensajes)
              /\ ToSet(Tail(respuestas)) \subseteq ToSet(respuestas)
         /\ \A m \in Mensajes :
              /\ respuestas \o <<m>> \in Seq(Mensajes)
              /\ ToSet(respuestas \o <<m>>) = ToSet(respuestas) \cup {m}
         /\ \A m, n \in Mensajes :
              /\ respuestas \o <<m, n>> \in Seq(Mensajes)
              /\ ToSet(respuestas \o <<m, n>>) = ToSet(respuestas) \cup {m, n}
         /\ respuestas \o <<>> = respuestas
<1>1. respuestas # <<>> =>
              /\ Head(respuestas) \in Mensajes /\ Head(respuestas) \in ToSet(respuestas)
              /\ Tail(respuestas) \in Seq(Mensajes)
              /\ ToSet(Tail(respuestas)) \subseteq ToSet(respuestas)
  BY MensajeRecibido
<1>2. ASSUME NEW m \in Mensajes
      PROVE  /\ respuestas \o <<m>> \in Seq(Mensajes)
             /\ ToSet(respuestas \o <<m>>) = ToSet(respuestas) \cup {m}
  <2>1. respuestas \o <<m>> = Append(respuestas, m)
    BY Enviado
  <2>2. /\ Append(respuestas, m) \in Seq(Mensajes)
        /\ ToSet(Append(respuestas, m)) = ToSet(respuestas) \cup {m}
    BY Enviado
  <2> QED BY <2>1, <2>2
<1>3. ASSUME NEW m \in Mensajes, NEW n \in Mensajes
      PROVE  /\ respuestas \o <<m, n>> \in Seq(Mensajes)
             /\ ToSet(respuestas \o <<m, n>>) = ToSet(respuestas) \cup {m, n}
  <2> DEFINE t == Append(respuestas, m)
  <2>1. respuestas \o <<m, n>> = Append(t, n)
    BY EnviadosDos
  <2>2. t \in Seq(Mensajes) /\ ToSet(t) = ToSet(respuestas) \cup {m}
    BY Enviado
  <2> HIDE DEF t
  <2>3. Append(t, n) \in Seq(Mensajes) /\ ToSet(Append(t, n)) = ToSet(t) \cup {n}
    BY <2>2, Enviado
  <2> QED BY <2>1, <2>2, <2>3
<1>4. respuestas \o <<>> = respuestas
  BY ConcatEmptySeq
<1> QED BY <1>1, <1>2, <1>3, <1>4

\* The same for the requests.
LEMMA SocketMemoria ==
  ASSUME pedidos \in Seq(Pedidos)
  PROVE  /\ pedidos # <<>> =>
              /\ Head(pedidos) \in Pedidos /\ Head(pedidos) \in ToSet(pedidos)
              /\ Tail(pedidos) \in Seq(Pedidos)
              /\ ToSet(Tail(pedidos)) \subseteq ToSet(pedidos)
         /\ \A m \in Pedidos :
              /\ Append(pedidos, m) \in Seq(Pedidos)
              /\ ToSet(Append(pedidos, m)) = ToSet(pedidos) \cup {m}
         /\ \A m, n \in Pedidos :
              /\ pedidos \o <<m, n>> \in Seq(Pedidos)
              /\ ToSet(pedidos \o <<m, n>>) = ToSet(pedidos) \cup {m, n}
<1>1. pedidos # <<>> =>
              /\ Head(pedidos) \in Pedidos /\ Head(pedidos) \in ToSet(pedidos)
              /\ Tail(pedidos) \in Seq(Pedidos)
              /\ ToSet(Tail(pedidos)) \subseteq ToSet(pedidos)
  BY MensajeRecibido
<1>2. ASSUME NEW m \in Pedidos
      PROVE  /\ Append(pedidos, m) \in Seq(Pedidos)
             /\ ToSet(Append(pedidos, m)) = ToSet(pedidos) \cup {m}
  BY Enviado
<1>3. ASSUME NEW m \in Pedidos, NEW n \in Pedidos
      PROVE  /\ pedidos \o <<m, n>> \in Seq(Pedidos)
             /\ ToSet(pedidos \o <<m, n>>) = ToSet(pedidos) \cup {m, n}
  <2> DEFINE t == Append(pedidos, m)
  <2>1. pedidos \o <<m, n>> = Append(t, n)
    BY EnviadosDos
  <2>2. t \in Seq(Pedidos) /\ ToSet(t) = ToSet(pedidos) \cup {m}
    BY Enviado
  <2> HIDE DEF t
  <2>3. Append(t, n) \in Seq(Pedidos) /\ ToSet(Append(t, n)) = ToSet(t) \cup {n}
    BY <2>2, Enviado
  <2> QED BY <2>1, <2>2, <2>3
<1> QED BY <1>1, <1>2, <1>3

\* buscar_proceso found it: the process is in the list.
LEMMA EncontradoConocido ==
  ASSUME TypeOK, Encontrado
  PROVE  /\ mem.pid \in ToSet(lista_procesos) /\ Contains(lista_procesos, mem.pid)
         /\ mem.pid \in Pids /\ tabla \in Seq(Marcos)
<1>1. /\ lista_procesos \in Seq(Pids) /\ mem.i \in Nat
      /\ mem.i + 1 \in 1..Len(lista_procesos) /\ lista_procesos[mem.i + 1] = mem.pid
  BY DEF TypeOK, TipoMemoria, LocalesMem, Encontrado
<1>2. mem.pid \in ToSet(lista_procesos) /\ Contains(lista_procesos, mem.pid)
  BY <1>1, Elementos
<1>3. mem.pid \in Pids
  BY <1>1, <1>2, Elementos
<1> QED BY <1>2, <1>3 DEF TypeOK, TipoMemoria, tabla

\* obtener_marco_libre returns a free frame when there is one.
LEMMA MarcoLibre ==
  ASSUME MarcosLibres # {}
  PROVE  obtener_marco_libre \in Marcos /\ marcos[obtener_marco_libre] = Libre
<1>1. MarcosLibres \subseteq Nat
  BY MemoriaAssumption DEF MarcosLibres, Marcos
<1>2. \E f \in MarcosLibres : \A g \in MarcosLibres : f <= g
  BY <1>1, MinimoNatural
<1>3. obtener_marco_libre \in MarcosLibres
  BY <1>2 DEF obtener_marco_libre
<1> QED BY <1>3 DEF MarcosLibres

(***************************************************************************)
(* Sizes in pages.                                                         *)
(***************************************************************************)

\* The pages asked for are a natural number, at most the ones there are when
\* the size is less than the one reserved.
LEMMA Techo ==
  ASSUME NEW n \in Nat, NEW l \in Nat
  PROVE  /\ (n + TamPagina - 1) \div TamPagina \in Nat
         /\ n < l * TamPagina => (n + TamPagina - 1) \div TamPagina <= l
<1> DEFINE t == TamPagina
           d == (n + t - 1) \div t
<1>1. t \in Nat /\ t > 0
  BY MemoriaAssumption
<1> HIDE DEF t
<1>2. d \in Int /\ d * t <= n + t - 1 /\ n + t - 1 < (d + 1) * t
  BY <1>1
<1> HIDE DEF d
<1>3. d >= 0
  BY <1>1, <1>2
<1>4. ASSUME n < l * t, d > l PROVE FALSE
  <2>1. (l + 1) * t <= d * t
    BY <1>1, <1>2, <1>4
  <2>2. (l + 1) * t = l * t + t
    BY <1>1
  <2>3. l * t \in Int /\ d * t \in Int
    BY <1>1, <1>2
  <2> QED BY <1>1, <1>2, <1>4, <2>1, <2>2, <2>3
<1> QED BY <1>2, <1>3, <1>4 DEF t, d

(***************************************************************************)
(* Types.                                                                  *)
(***************************************************************************)

\* What the handlers answer are messages of the socket.
LEMMA SonMensajes ==
  /\ Codigo("PEDIDO_OK") \in Mensajes /\ Codigo("ERROR_OUT_OF_MEMORY") \in Mensajes
  /\ \A c \in {"instruccion", "dato"} : Buffer(c, Nulo) \in Mensajes
  /\ \A f \in Marcos : Buffer("marco", f) \in Mensajes
  /\ \A c : Codigo(c).tipo = c /\ \A f : Buffer(c, f).tipo = c /\ Buffer(c, f).marco = f
BY DEF Mensajes, Codigo, Buffer

\* What the CPU sends are requests of the socket.
LEMMA SonPedidos ==
  ASSUME NEW p \in Pids, NEW n \in Nat, NEW f \in Marcos \cup {Nulo},
         NEW t \in {"instruccion", "marco", "resize", "escribe", "lee"}
  PROVE  /\ Pedido(t, p, n, f) \in Pedidos /\ Fetch(p) \in Pedidos
         /\ Pedido(t, p, n, f).pid = p /\ Fetch(p).pid = p
BY DEF Pedido, Fetch, Pedidos

\* A reduction shortens the table it finds to a prefix of it.
LEMMA PrefijoTabla ==
  ASSUME TypeOK, Encontrado, mem.nro < Reservado
  PROVE  /\ Solicitadas \in Nat /\ Solicitadas <= Len(tabla) /\ Len(tabla) \in Nat
         /\ SubSeq(tabla, 1, Solicitadas) \in Seq(Marcos)
         /\ Len(SubSeq(tabla, 1, Solicitadas)) = Solicitadas
         /\ \A n \in 1..Solicitadas : SubSeq(tabla, 1, Solicitadas)[n] = tabla[n]
<1> DEFINE s == Solicitadas
           t == tabla
<1>1. t \in Seq(Marcos) /\ Len(t) \in Nat
  BY EncontradoConocido
<1>2. s \in Nat /\ s <= Len(t)
  <2>1. mem.nro \in Nat
    BY DEF TypeOK, TipoMemoria, LocalesMem
  <2> QED BY <1>1, <2>1, Techo DEF Solicitadas, Reservado
<1> HIDE DEF s, t
<1>3. /\ SubSeq(t, 1, s) \in Seq(Marcos) /\ Len(SubSeq(t, 1, s)) = s
      /\ \A n \in 1..s : SubSeq(t, 1, s)[n] = t[n]
  BY <1>1, <1>2
<1> QED BY <1>1, <1>2, <1>3 DEF s, t

\* A point of the code of atender_cpu, and what is inside a request.
LEMMA PuntosDeMem ==
  /\ \A c \in {"busca_marco", "busca_resize", "busca_crea", "crea"} : c \in Ocupada /\ c \in PuntosMem
  /\ \A c \in {"espera", "terminado", "caida"} : c \notin Ocupada /\ c \in PuntosMem
BY DEF Ocupada, PuntosMem, Buscando

\* The assignments to the locals of atender_cpu keep them typed.
LEMMA MemAsigna ==
  ASSUME NEW r, MemTipada(r)
  PROVE  /\ /\ r.pc \in PuntosMem /\ r.pid \in Pids \cup {Nulo} /\ r.nro \in Nat /\ r.i \in Nat
            /\ r.faltan \in Nat
         /\ MemTipada(Inactiva)
         /\ \A c \in {"terminado", "caida"} : MemTipada([r EXCEPT !.pc = c])
         /\ \A n \in Nat : MemTipada([r EXCEPT !.i = n])
         /\ r.pid \in Pids => \A n \in Nat : MemTipada([r EXCEPT !.pc = "crea", !.faltan = n])
         /\ r.pid \in Pids /\ r.faltan > 0 => \A f \in Marcos :
              MemTipada([r EXCEPT !.pc = "busca_crea", !.i = 0, !.marco = f])
         /\ r.pid \in Pids => \A n \in Nat :
              MemTipada([r EXCEPT !.pc = "crea", !.faltan = n, !.marco = Nulo])
         /\ \A c \in {"busca_marco", "busca_resize"}, p \in Pids, n \in Nat :
              MemTipada([r EXCEPT !.pc = c, !.pid = p, !.nro = n, !.i = 0])
<1> USE PuntosDeMem
<1>1. /\ r \in LocalesMem
      /\ r.pc \in PuntosMem /\ r.pid \in Pids \cup {Nulo} /\ r.nro \in Nat /\ r.i \in Nat
      /\ r.faltan \in Nat /\ r.marco \in Marcos \cup {Nulo}
  BY DEF MemTipada, LocalesMem
<1>2. MemTipada(Inactiva)
  BY DEF MemTipada, LocalesMem, Inactiva
<1>3. ASSUME NEW c \in {"terminado", "caida"} PROVE MemTipada([r EXCEPT !.pc = c])
  BY <1>1 DEF MemTipada, LocalesMem
<1>4. ASSUME NEW n \in Nat PROVE MemTipada([r EXCEPT !.i = n])
  BY <1>1 DEF MemTipada, LocalesMem
<1>5. ASSUME r.pid \in Pids, NEW n \in Nat
      PROVE  /\ MemTipada([r EXCEPT !.pc = "crea", !.faltan = n])
             /\ MemTipada([r EXCEPT !.pc = "crea", !.faltan = n, !.marco = Nulo])
  BY <1>1, <1>5 DEF MemTipada, LocalesMem
<1>6. ASSUME r.pid \in Pids, r.faltan > 0, NEW f \in Marcos
      PROVE  MemTipada([r EXCEPT !.pc = "busca_crea", !.i = 0, !.marco = f])
  BY <1>1, <1>6 DEF MemTipada, LocalesMem
<1>7. ASSUME NEW c \in {"busca_marco", "busca_resize"}, NEW p \in Pids, NEW n \in Nat
      PROVE  MemTipada([r EXCEPT !.pc = c, !.pid = p, !.nro = n, !.i = 0])
  BY <1>1 DEF MemTipada, LocalesMem
<1> QED BY <1>1, <1>2, <1>3, <1>4, <1>5, <1>6, <1>7

\* The variables of Memoria keep their type in every step.
LEMMA TipoMemoriaSigue ==
  ASSUME TypeOK, TipoCruzado, [Next]_vars
  PROVE  TipoMemoria' /\ MemTipada(mem')
<1> DEFINE Bien == TipoMemoria' /\ MemTipada(mem')
           Quietas == UNCHANGED <<marcos, lista_procesos, tabla_de_paginas>>
<1>0. /\ marcos \in [Marcos -> Paginas] /\ lista_procesos \in Seq(Pids)
      /\ tabla_de_paginas \in [Pids -> Seq(Marcos)] /\ MemTipada(mem)
  BY DEF TypeOK, TipoMemoria, TipoCruzado
<1>1. ASSUME UNCHANGED <<marcos, lista_procesos, tabla_de_paginas, mem>> PROVE Bien
  BY <1>0, <1>1 DEF TipoMemoria, MemTipada
<1>m. \A m : MemTipada(m) => m \in LocalesMem
  BY DEF MemTipada
<1>q. ASSUME Quietas, MemTipada(mem') PROVE Bien
  BY <1>0, <1>q, <1>m DEF TipoMemoria
<1>2. ASSUME NEW p \in Pids, IniciarProceso(p) PROVE Bien
  <2>1. lista_procesos' \in Seq(Pids)
    BY <1>0, <1>2, AppendProperties DEF IniciarProceso
  <2> QED BY <1>0, <1>2, <1>m, <2>1 DEF IniciarProceso, TipoMemoria
<1>3. ASSUME NEW p \in Pids, LiberarProceso(p) PROVE Bien
  <2>1. lista_procesos' \in Seq(Pids)
    BY <1>0, <1>3, ElementosSinPrimero DEF LiberarProceso
  <2> QED BY <1>0, <1>3, <1>m, <2>1 DEF LiberarProceso, TipoMemoria
<1>4. ASSUME EmpiezaBusqueda PROVE Bien
  <2>1. PICK tipo \in {"marco", "resize"} :
          /\ Recibe(tipo) /\ Quietas
          /\ mem' = [mem EXCEPT !.pc = IF tipo = "marco" THEN "busca_marco" ELSE "busca_resize",
                                !.pid = Head(pedidos).pid, !.nro = Head(pedidos).nro, !.i = 0]
    BY <1>4 DEF EmpiezaBusqueda
  <2>2. Head(pedidos).pid \in Pids /\ Head(pedidos).nro \in Nat
    BY <2>1, SocketMemoria DEF Recibe, TypeOK, TipoMensajes, Pedidos
  <2>3. \A c \in {"busca_marco", "busca_resize"} :
          MemTipada([mem EXCEPT !.pc = c, !.pid = Head(pedidos).pid,
                                !.nro = Head(pedidos).nro, !.i = 0])
    BY <1>0, <2>2, MemAsigna
  <2>4. MemTipada(mem')
    <3> DEFINE c == IF tipo = "marco" THEN "busca_marco" ELSE "busca_resize"
    <3>1. c \in {"busca_marco", "busca_resize"}
      OBVIOUS
    <3>2. mem' = [mem EXCEPT !.pc = c, !.pid = Head(pedidos).pid,
                             !.nro = Head(pedidos).nro, !.i = 0]
      BY <2>1
    <3> HIDE DEF c
    <3> QED BY <2>3, <3>1, <3>2
  <2> QED BY <1>q, <2>1, <2>4
<1>5. ASSUME BuscarSiguiente PROVE Bien
  <2>1. mem.i \in Nat /\ mem' = [mem EXCEPT !.i = mem.i + 1] /\ Quietas
    BY <1>0, <1>5, MemAsigna DEF BuscarSiguiente
  <2> DEFINE n == mem.i + 1
  <2>a. n \in Nat /\ mem' = [mem EXCEPT !.i = n]
    BY <2>1
  <2> HIDE DEF n
  <2>2. MemTipada(mem')
    BY <1>0, <2>a, MemAsigna
  <2> QED BY <1>q, <2>1, <2>2
<1>6. ASSUME BuscarNulo PROVE Bien
  <2>1. MemTipada(mem')
    BY <1>0, <1>6, MemAsigna DEF BuscarNulo
  <2> QED BY <1>q, <1>6, <2>1 DEF BuscarNulo
<1>7. ASSUME DevolverNroMarco PROVE Bien
  <2>1. MemTipada(mem')
    BY <1>0, <1>7, MemAsigna DEF DevolverNroMarco
  <2> QED BY <1>q, <1>7, <2>1 DEF DevolverNroMarco
<1>8. ASSUME ResizeIgual \/ ResizeSinMemoria PROVE Bien
  <2>1. MemTipada(mem')
    BY <1>0, <1>8, MemAsigna DEF ResizeIgual, ResizeSinMemoria, EnMemoria
  <2> QED BY <1>q, <1>8, <2>1 DEF ResizeIgual, ResizeSinMemoria
<1>9. ASSUME ResizeReduce PROVE Bien
  <2>1. mem.pid \in Pids /\ SubSeq(tabla, 1, Solicitadas) \in Seq(Marcos)
    BY <1>9, PrefijoTabla, EncontradoConocido DEF ResizeReduce
  <2>2. tabla_de_paginas' \in [Pids -> Seq(Marcos)]
    BY <1>0, <1>9, <2>1 DEF ResizeReduce, tabla
  <2>3. marcos' \in [Marcos -> Paginas]
    BY <1>0, <1>9 DEF ResizeReduce, Paginas, Libre
  <2>4. MemTipada(mem') /\ lista_procesos' = lista_procesos
    BY <1>0, <1>9, MemAsigna DEF ResizeReduce
  <2> QED BY <1>0, <1>m, <2>2, <2>3, <2>4 DEF TipoMemoria
<1>10. ASSUME ResizeAmplia PROVE Bien
  <2>1. Solicitadas \in Nat /\ mem.pid \in Pids
    BY <1>0, <1>10, EncontradoConocido, MemAsigna, Techo DEF Solicitadas, ResizeAmplia
  <2>2. MemTipada(mem')
    BY <1>0, <1>10, <2>1, MemAsigna DEF ResizeAmplia
  <2> QED BY <1>q, <1>10, <2>2 DEF ResizeAmplia
<1>11. ASSUME CrearPagina PROVE Bien
  <2>1. obtener_marco_libre \in Marcos
    BY <1>11, MarcoLibre DEF CrearPagina
  <2>2. mem.pid \in Pids
    BY <1>0, <1>11, PuntosDeMem DEF CrearPagina, MemTipada
  <2>3. Pagina(mem.pid, Len(tabla)) \in Paginas
    BY <1>0, <2>2 DEF Pagina, Paginas, tabla
  <2>4. marcos' \in [Marcos -> Paginas]
    BY <1>0, <1>11, <2>1, <2>3 DEF CrearPagina
  <2>5. MemTipada(mem') /\ UNCHANGED <<lista_procesos, tabla_de_paginas>>
    BY <1>0, <1>11, <2>1, <2>2, MemAsigna DEF CrearPagina
  <2> QED BY <1>0, <1>m, <2>4, <2>5 DEF TipoMemoria
<1>12. ASSUME CrearSinMarco PROVE Bien
  <2>1. MemTipada(mem')
    BY <1>0, <1>12, MemAsigna DEF CrearSinMarco, EnMemoria
  <2> QED BY <1>q, <1>12, <2>1 DEF CrearSinMarco
<1>14. ASSUME ResizeAmpliado PROVE Bien
  <2>1. MemTipada(mem')
    BY <1>0, <1>14, MemAsigna DEF ResizeAmpliado
  <2> QED BY <1>q, <1>14, <2>1 DEF ResizeAmpliado
<1>15. ASSUME EnviarInstruccion \/ EscribirFisica \/ LeerFisica PROVE Bien
  BY <1>15, <1>1 DEF EnviarInstruccion, EscribirFisica, LeerFisica, memoria
<1>16. ASSUME Cpu \/ \E p \in Pids : CpuEmpieza(p) PROVE Bien
  BY <1>16, <1>1 DEF Cpu, CpuEmpieza, CpuRecibeInstruccion, CpuSeTraba, CpuDevuelve, CpuRecibeResize,
       CpuRecibeMarco, CpuRecibeDato, Traducir, TlbHit, TlbMiss, MovOut, MovIn, EjecutarResize, memoria
<1>17. ASSUME UNCHANGED vars PROVE Bien
  BY <1>17, <1>1 DEF vars, memoria
<1>13. ASSUME AgregarPagina PROVE Bien
  <2>1. mem.marco \in Marcos /\ mem.pid \in Pids /\ mem.faltan \in Nat \ {0}
    <3>1. mem.pc = "busca_crea" /\ mem.faltan \in Nat
      BY <1>0, <1>13, MemAsigna DEF AgregarPagina
    <3> QED BY <1>0, <3>1, PuntosDeMem DEF MemTipada
  <2>2. Append(tabla_de_paginas[mem.pid], mem.marco) \in Seq(Marcos)
    BY <1>0, <2>1
  <2>3. tabla_de_paginas' \in [Pids -> Seq(Marcos)]
    BY <1>0, <1>13, <2>2 DEF AgregarPagina
  <2>4. mem.faltan - 1 \in Nat
    BY <2>1
  <2>5. MemTipada(mem') /\ UNCHANGED <<lista_procesos, marcos>>
    BY <1>0, <1>13, <2>1, <2>4, MemAsigna DEF AgregarPagina
  <2> QED BY <1>0, <1>m, <2>3, <2>5 DEF TipoMemoria
<1> HIDE DEF Bien
<1>18. ASSUME AtenderCpu PROVE Bien
  BY <1>18, <1>4, <1>5, <1>6, <1>7, <1>8, <1>9, <1>10, <1>11, <1>12, <1>13, <1>14, <1>15
     DEF AtenderCpu
<1>19. ASSUME \E p \in Pids : IniciarProceso(p) \/ LiberarProceso(p) \/ CpuEmpieza(p) PROVE Bien
  BY <1>19, <1>2, <1>3, <1>16
<1>20. Bien
  BY <1>16, <1>17, <1>18, <1>19 DEF Next
<1> QED BY <1>20 DEF Bien

\* The assignments of the CPU keep its locals typed.
LEMMA CpuAsigna ==
  ASSUME NEW r, CpuTipada(r)
  PROVE  /\ r.pc \in PuntosCpu /\ r.nro \in Nat /\ r.marco \in Marcos \cup {Nulo}
         /\ r.pc # "libre" => r.pid \in Pids
         /\ CpuTipada(CpuOciosa)
         /\ \A p \in Pids : CpuTipada([r EXCEPT !.pc = "instruccion", !.pid = p])
         /\ r.pc # "libre" =>
              /\ \A c \in PuntosCpu : CpuTipada([r EXCEPT !.pc = c])
              /\ \A n \in Nat : CpuTipada([r EXCEPT !.pc = "marco", !.nro = n])
              /\ \A f \in Marcos : CpuTipada([r EXCEPT !.pc = "accede", !.marco = f])
              /\ \A n \in Nat : \A f \in Marcos :
                   CpuTipada([r EXCEPT !.pc = "accede", !.nro = n, !.marco = f])
<1>1. /\ r \in LocalesCpu
      /\ r.pc \in PuntosCpu /\ r.pid \in Pids \cup {Nulo} /\ r.nro \in Nat
      /\ r.marco \in Marcos \cup {Nulo}
      /\ r.pc # "libre" => r.pid \in Pids
  BY DEF CpuTipada, LocalesCpu
<1>2. "marco" \in PuntosCpu /\ "accede" \in PuntosCpu /\ "instruccion" \in PuntosCpu /\ "libre" \in PuntosCpu
  BY DEF PuntosCpu
<1>3. CpuTipada(CpuOciosa)
  BY <1>2 DEF CpuTipada, LocalesCpu, CpuOciosa
<1>4. ASSUME NEW p \in Pids PROVE CpuTipada([r EXCEPT !.pc = "instruccion", !.pid = p])
  BY <1>1, <1>2 DEF CpuTipada, LocalesCpu
<1>5. ASSUME r.pc # "libre", NEW c \in PuntosCpu PROVE CpuTipada([r EXCEPT !.pc = c])
  BY <1>1, <1>5 DEF CpuTipada, LocalesCpu
<1>6. ASSUME r.pc # "libre", NEW n \in Nat PROVE CpuTipada([r EXCEPT !.pc = "marco", !.nro = n])
  BY <1>1, <1>2, <1>6 DEF CpuTipada, LocalesCpu
<1>7. ASSUME r.pc # "libre", NEW f \in Marcos PROVE CpuTipada([r EXCEPT !.pc = "accede", !.marco = f])
  BY <1>1, <1>2, <1>7 DEF CpuTipada, LocalesCpu
<1>8. ASSUME r.pc # "libre", NEW n \in Nat, NEW f \in Marcos
      PROVE  CpuTipada([r EXCEPT !.pc = "accede", !.nro = n, !.marco = f])
  BY <1>1, <1>2, <1>8 DEF CpuTipada, LocalesCpu
<1> QED BY <1>1, <1>3, <1>4, <1>5, <1>6, <1>7, <1>8

\* The TLB gets typed entries and loses others, whatever the algorithm.
LEMMA TlbTipada ==
  ASSUME tlb \in Seq(Entradas), tiempos \in Seq(Entradas),
         NEW e \in Entradas, colocar_pagina_en_tlb(e)
  PROVE  /\ tlb' \in Seq(Entradas) /\ tiempos' \in Seq(Entradas)
         /\ ToSet(tlb') \subseteq ToSet(tlb) \cup {e}
<1> DEFINE a == RemoveFirst(tlb, victima)
           b == RemoveFirst(tiempos, victima)
<1>1. a \in Seq(Entradas) /\ ToSet(a) \subseteq ToSet(tlb) /\ b \in Seq(Entradas)
  BY ElementosSinPrimero
<1> HIDE DEF a, b
<1>2. \/ tlb' = tlb /\ tiempos' = tiempos
      \/ tlb' = Append(tlb, e) /\ tiempos' = Append(tiempos, e)
      \/ tlb' = Append(a, e) /\ tiempos' = Append(b, e)
  BY DEF colocar_pagina_en_tlb, a, b
<1>3. /\ Append(tlb, e) \in Seq(Entradas) /\ ToSet(Append(tlb, e)) = ToSet(tlb) \cup {e}
      /\ Append(a, e) \in Seq(Entradas) /\ ToSet(Append(a, e)) = ToSet(a) \cup {e}
      /\ Append(tiempos, e) \in Seq(Entradas) /\ Append(b, e) \in Seq(Entradas)
  BY <1>1, Enviado
<1> QED BY <1>1, <1>2, <1>3

\* The CPU and the sockets keep their types in every step.
LEMMA TipoCpuSigue ==
  ASSUME TypeOK, TipoCruzado, [Next]_vars
  PROVE  /\ TipoMensajes' /\ TipoCpu' /\ CpuTipada(cpu')
         /\ \A m \in ToSet(respuestas') : m.tipo = "marco" => m.marco \in Marcos
<1> DEFINE Bien == /\ TipoMensajes' /\ TipoCpu' /\ CpuTipada(cpu')
                   /\ \A m \in ToSet(respuestas') : m.tipo = "marco" => m.marco \in Marcos
           MarcoBien(s) == \A m \in ToSet(s) : m.tipo = "marco" => m.marco \in Marcos
<1>0. /\ respuestas \in Seq(Mensajes) /\ pedidos \in Seq(Pedidos)
      /\ tlb \in Seq(Entradas) /\ tiempos \in Seq(Entradas)
      /\ tamanio \in [Pids -> Nat] /\ fin \subseteq Pids
      /\ CpuTipada(cpu) /\ MarcoBien(respuestas)
  BY DEF TypeOK, TipoMensajes, TipoCpu, TipoCruzado
<1>m. \A c : CpuTipada(c) => c \in LocalesCpu
  BY DEF CpuTipada
<1>s. /\ respuestas # <<>> => /\ Tail(respuestas) \in Seq(Mensajes) /\ MarcoBien(Tail(respuestas))
                              /\ Head(respuestas) \in Mensajes
                              /\ Head(respuestas).tipo = "marco" => Head(respuestas).marco \in Marcos
      /\ pedidos # <<>> => Tail(pedidos) \in Seq(Pedidos)
  BY <1>0, SocketCpu, SocketMemoria
\* A step of Memoria: at most a request less and some answers more.
<1>q. ASSUME UNCHANGED estadoCpu, pedidos' \in Seq(Pedidos), respuestas' \in Seq(Mensajes),
             MarcoBien(respuestas')
      PROVE  Bien
  BY <1>0, <1>m, <1>q DEF estadoCpu, TipoMensajes, TipoCpu
<1>r. ASSUME NEW m \in Mensajes, m.tipo = "marco" => m.marco \in Marcos
      PROVE  respuestas \o <<m>> \in Seq(Mensajes) /\ MarcoBien(respuestas \o <<m>>)
  BY <1>0, <1>r, SocketCpu
<1>1. ASSUME SinCpu PROVE Bien
  BY <1>0, <1>1, <1>q DEF SinCpu
<1>2. ASSUME EnviarInstruccion PROVE Bien
  <2>1. respuestas' \in Seq(Mensajes) /\ MarcoBien(respuestas')
    <3>1. CASE respuestas' = respuestas \o <<>>
      BY <1>0, <3>1, SocketCpu
    <3>2. CASE respuestas' = respuestas \o <<Buffer("instruccion", Nulo)>>
      BY <1>r, <3>2, SonMensajes
    <3> QED BY <1>2, <3>1, <3>2 DEF EnviarInstruccion, Responde
  <2>2. pedidos' \in Seq(Pedidos)
    BY <1>2, <1>s DEF EnviarInstruccion, Recibe
  <2> QED BY <1>2, <1>q, <2>1, <2>2 DEF EnviarInstruccion
<1>3. ASSUME EmpiezaBusqueda \/ EscribirFisica PROVE Bien
  BY <1>0, <1>3, <1>q, <1>s DEF EmpiezaBusqueda, EscribirFisica, Recibe
<1>4. ASSUME LeerFisica PROVE Bien
  <2>1. respuestas' \in Seq(Mensajes) /\ MarcoBien(respuestas')
    BY <1>4, <1>r, SonMensajes DEF LeerFisica, Responde
  <2> QED BY <1>4, <1>q, <1>s, <2>1 DEF LeerFisica, Recibe
<1>5. ASSUME DevolverNroMarco PROVE Bien
  <2>1. respuestas' \in Seq(Mensajes) /\ MarcoBien(respuestas')
    <3>1. CASE mem.nro < Len(tabla)
      <4>1. tabla \in Seq(Marcos) /\ mem.nro \in Nat
        BY <1>5, EncontradoConocido DEF DevolverNroMarco, TypeOK, TipoMemoria, LocalesMem
      <4>2. tabla[mem.nro + 1] \in Marcos
        BY <3>1, <4>1
      <4> DEFINE b == Buffer("marco", tabla[mem.nro + 1])
      <4>3. respuestas' = respuestas \o <<b>>
        BY <1>5, <3>1 DEF DevolverNroMarco, Responde
      <4>4. b \in Mensajes /\ b.marco \in Marcos
        BY <4>2, SonMensajes
      <4> HIDE DEF b
      <4> QED BY <1>r, <4>3, <4>4
    <3>2. CASE ~(mem.nro < Len(tabla))
      BY <1>0, <1>5, <3>2 DEF DevolverNroMarco
    <3> QED BY <3>1, <3>2
  <2> QED BY <1>0, <1>5, <1>q, <2>1 DEF DevolverNroMarco
<1>6. ASSUME ResizeIgual \/ ResizeReduce \/ ResizeAmpliado PROVE Bien
  <2>1. respuestas' \in Seq(Mensajes) /\ MarcoBien(respuestas')
    BY <1>6, <1>r, SonMensajes DEF ResizeIgual, ResizeReduce, ResizeAmpliado, Responde
  <2> QED BY <1>0, <1>6, <1>q, <2>1 DEF ResizeIgual, ResizeReduce, ResizeAmpliado
<1>7. ASSUME ResizeSinMemoria PROVE Bien
  <2>1. respuestas' \in Seq(Mensajes) /\ MarcoBien(respuestas')
    <3> DEFINE a == Codigo("ERROR_OUT_OF_MEMORY")
               b == Codigo("PEDIDO_OK")
    <3>1. respuestas' = respuestas \o <<a, b>>
      BY <1>7 DEF ResizeSinMemoria, Responde
    <3>2. a \in Mensajes /\ b \in Mensajes /\ a.tipo # "marco" /\ b.tipo # "marco"
      BY SonMensajes
    <3> HIDE DEF a, b
    <3>3. /\ respuestas \o <<a, b>> \in Seq(Mensajes)
          /\ ToSet(respuestas \o <<a, b>>) = ToSet(respuestas) \cup {a, b}
      BY <1>0, <3>2, SocketCpu
    <3> QED BY <1>0, <3>1, <3>2, <3>3
  <2> QED BY <1>0, <1>7, <1>q, <2>1 DEF ResizeSinMemoria
<1>8. ASSUME AtenderCpu PROVE Bien
  BY <1>8, <1>1, <1>2, <1>3, <1>4, <1>5, <1>6, <1>7
     DEF AtenderCpu, BuscarSiguiente, BuscarNulo, ResizeAmplia, CrearPagina, CrearSinMarco, AgregarPagina
<1>9. ASSUME NEW p \in Pids, IniciarProceso(p) \/ LiberarProceso(p) PROVE Bien
  BY <1>1, <1>9 DEF IniciarProceso, LiberarProceso
\* A step of the CPU.
<1>c. ASSUME respuestas' = respuestas \/ (respuestas # <<>> /\ respuestas' = Tail(respuestas)),
             pedidos' \in Seq(Pedidos), CpuTipada(cpu'),
             tlb' \in Seq(Entradas), tiempos' \in Seq(Entradas),
             tamanio' \in [Pids -> Nat], fin' \subseteq Pids
      PROVE  Bien
  BY <1>0, <1>c, <1>m, <1>s DEF TipoMensajes, TipoCpu
<1>l. ASSUME cpu.pc # "libre",
             NEW c \in {"decodifica", "resize", "dato", "trabada", "continua", "instruccion"},
             cpu' = [cpu EXCEPT !.pc = c]
      PROVE  CpuTipada(cpu')
  <2>1. c \in PuntosCpu
    BY DEF PuntosCpu
  <2> QED BY <1>0, <1>l, <2>1, CpuAsigna
<1>p. ASSUME cpu.pc # "libre", NEW n \in Nat, NEW f \in Marcos \cup {Nulo},
             NEW t \in {"instruccion", "marco", "resize", "escribe", "lee"}
      PROVE  /\ Pedido(t, cpu.pid, n, f) \in Pedidos /\ Fetch(cpu.pid) \in Pedidos
             /\ Append(pedidos, Pedido(t, cpu.pid, n, f)) \in Seq(Pedidos)
             /\ Append(pedidos, Fetch(cpu.pid)) \in Seq(Pedidos)
  <2>1. Pedido(t, cpu.pid, n, f) \in Pedidos /\ Fetch(cpu.pid) \in Pedidos
    BY <1>0, <1>p, CpuAsigna, SonPedidos
  <2> QED BY <1>0, <2>1, SocketMemoria
<1>10. ASSUME NEW p \in Pids, CpuEmpieza(p) PROVE Bien
  <2>1. Fetch(p) \in Pedidos
    BY SonPedidos
  <2>2. pedidos' \in Seq(Pedidos)
    BY <1>0, <1>10, <2>1, SocketMemoria DEF CpuEmpieza
  <2>3. CpuTipada(cpu')
    BY <1>0, <1>10, CpuAsigna DEF CpuEmpieza
  <2> QED BY <1>0, <1>c, <1>10, <2>2, <2>3 DEF CpuEmpieza
<1>11. ASSUME CpuRecibeInstruccion \/ CpuSeTraba PROVE Bien
  <2>1. CpuTipada(cpu')
    BY <1>11, <1>l DEF CpuRecibeInstruccion, CpuSeTraba, EnCpu
  <2> QED BY <1>0, <1>c, <1>11, <2>1 DEF CpuRecibeInstruccion, CpuSeTraba, RecibeBuffer
<1>12. ASSUME CpuDevuelve PROVE Bien
  <2>1. CpuTipada(cpu') /\ cpu.pid \in Pids
    BY <1>0, <1>12, CpuAsigna DEF CpuDevuelve
  <2> QED BY <1>0, <1>c, <1>12, <2>1 DEF CpuDevuelve
<1>13. ASSUME CpuRecibeResize PROVE Bien
  <2>1. cpu.pc # "libre" /\ cpu.pid \in Pids
    BY <1>0, <1>13, CpuAsigna DEF CpuRecibeResize
  <2>2. CpuTipada(cpu') /\ fin' \subseteq Pids
    <3>1. CASE Head(respuestas).tipo = "ERROR_OUT_OF_MEMORY"
      BY <1>0, <1>13, <2>1, <3>1, CpuAsigna DEF CpuRecibeResize
    <3>2. CASE Head(respuestas).tipo # "ERROR_OUT_OF_MEMORY"
      BY <1>0, <1>13, <1>l, <2>1, <3>2 DEF CpuRecibeResize
    <3> QED BY <3>1, <3>2
  <2>3. Append(pedidos, Fetch(cpu.pid)) \in Seq(Pedidos)
    BY <1>p, <2>1
  <2>4. pedidos' \in Seq(Pedidos)
    BY <1>0, <1>13, <2>3 DEF CpuRecibeResize
  <2> QED BY <1>0, <1>c, <1>13, <2>2, <2>4 DEF CpuRecibeResize
<1>14. ASSUME NEW t \in Tamanios, EjecutarResize(t) PROVE Bien
  <2>1. cpu.pc # "libre" /\ cpu.pid \in Pids /\ t \in Nat
    BY <1>0, <1>14, CpuAsigna, TamaniosAssumption DEF EjecutarResize, EnCpu
  <2>2. CpuTipada(cpu')
    BY <1>14, <1>l, <2>1 DEF EjecutarResize, EnCpu
  <2>3. pedidos' \in Seq(Pedidos)
    BY <1>14, <1>p, <2>1 DEF EjecutarResize, Pide
  <2>4. tamanio' \in [Pids -> Nat]
    BY <1>0, <1>14, <2>1 DEF EjecutarResize
  <2> QED BY <1>0, <1>c, <1>14, <2>2, <2>3, <2>4 DEF EjecutarResize
<1>15. ASSUME CpuRecibeMarco PROVE Bien
  <2> DEFINE f == Head(respuestas).marco
             e == Entrada(cpu.pid, cpu.nro, f)
  <2>1. cpu.pc # "libre" /\ cpu.pid \in Pids /\ cpu.nro \in Nat /\ f \in Marcos
    BY <1>0, <1>15, <1>s, CpuAsigna DEF CpuRecibeMarco, RecibeBuffer
  <2>2. cpu' = [cpu EXCEPT !.pc = "accede", !.marco = f] /\ colocar_pagina_en_tlb(e)
    BY <1>15 DEF CpuRecibeMarco
  <2>3. e \in Entradas
    BY <2>1 DEF Entradas, Entrada
  <2> HIDE DEF f, e
  <2>4. tlb' \in Seq(Entradas) /\ tiempos' \in Seq(Entradas)
    BY <1>0, <2>2, <2>3, TlbTipada
  <2>5. CpuTipada(cpu')
    BY <1>0, <2>1, <2>2, CpuAsigna
  <2> QED BY <1>0, <1>c, <1>15, <2>4, <2>5 DEF CpuRecibeMarco, RecibeBuffer
<1>16. ASSUME CpuRecibeDato PROVE Bien
  <2>1. cpu.pc # "libre"
    BY <1>16 DEF CpuRecibeDato
  <2>2. CpuTipada(cpu')
    BY <1>16, <1>l, <2>1 DEF CpuRecibeDato
  <2>3. Append(pedidos, Fetch(cpu.pid)) \in Seq(Pedidos)
    BY <1>p, <2>1
  <2>4. pedidos' \in Seq(Pedidos)
    BY <1>0, <1>16, <2>3 DEF CpuRecibeDato
  <2> QED BY <1>0, <1>c, <1>16, <2>2, <2>4 DEF CpuRecibeDato, RecibeBuffer
<1>17. ASSUME Traducir PROVE Bien
  <2>1. PICK n \in PaginasDe(cpu.pid) : TlbHit(n) \/ TlbMiss(n)
    BY <1>17 DEF Traducir
  <2>2. cpu.pc # "libre" /\ cpu.pid \in Pids
    BY <1>0, <1>17, CpuAsigna DEF Traducir
  <2>3. n \in Nat
    <3>1. (tamanio[cpu.pid] + TamPagina - 1) \div TamPagina \in Nat
      BY <1>0, <2>2, Techo
    <3> QED BY <3>1 DEF PaginasDe
  <2>4. CASE TlbHit(n)
    <3>1. PICK e \in Encontradas(n) :
            /\ cpu' = [cpu EXCEPT !.pc = "accede", !.nro = n, !.marco = e.marco]
            /\ tiempos' = Append(RemoveFirst(tiempos, e), e)
            /\ UNCHANGED <<memoria, tlb, tamanio, fin, respuestas, pedidos>>
      BY <2>4 DEF TlbHit
    <3>2. e \in Entradas /\ e.marco \in Marcos
      <4>1. e \in ToSet(tlb)
        BY <3>1 DEF Encontradas
      <4>2. ToSet(tlb) \subseteq Entradas
        BY <1>0, Elementos
      <4> QED BY <4>1, <4>2 DEF Entradas
    <3>3. tiempos' \in Seq(Entradas)
      BY <1>0, <3>1, <3>2, ElementosSinPrimero, AppendProperties
    <3>4. CpuTipada(cpu')
      BY <1>0, <2>2, <2>3, <3>1, <3>2, CpuAsigna
    <3> QED BY <1>0, <1>c, <3>1, <3>3, <3>4
  <2>5. CASE TlbMiss(n)
    <3>1. CpuTipada(cpu')
      BY <1>0, <2>2, <2>3, <2>5, CpuAsigna DEF TlbMiss
    <3>2. pedidos' \in Seq(Pedidos)
      BY <1>p, <2>2, <2>3, <2>5 DEF TlbMiss, Pide
    <3> QED BY <1>0, <1>c, <2>5, <3>1, <3>2 DEF TlbMiss
  <2> QED BY <2>1, <2>4, <2>5
<1>18. ASSUME MovOut PROVE Bien
  <2>1. cpu.pc # "libre" /\ cpu.nro \in Nat /\ cpu.marco \in Marcos \cup {Nulo}
    BY <1>0, <1>18, CpuAsigna DEF MovOut
  <2>2. CpuTipada(cpu')
    BY <1>18, <1>l, <2>1 DEF MovOut
  <2> DEFINE a == Pedido("escribe", cpu.pid, cpu.nro, cpu.marco)
             b == Fetch(cpu.pid)
  <2>3. a \in Pedidos /\ b \in Pedidos
    BY <1>p, <2>1
  <2>4. pedidos' = Append(pedidos, a) \/ pedidos' = pedidos \o <<a, b>>
    BY <1>18 DEF MovOut
  <2> HIDE DEF a, b
  <2>5. pedidos \o <<a, b>> \in Seq(Pedidos)
    BY <1>0, <2>3
  <2>6. pedidos' \in Seq(Pedidos)
    <3>1. Append(pedidos, a) \in Seq(Pedidos)
      BY <1>0, <2>3
    <3> QED BY <2>4, <2>5, <3>1, Zenon
  <2> QED BY <1>0, <1>c, <1>18, <2>2, <2>6 DEF MovOut
<1>19. ASSUME MovIn PROVE Bien
  <2>1. cpu.pc # "libre" /\ cpu.nro \in Nat /\ cpu.marco \in Marcos \cup {Nulo}
    BY <1>0, <1>19, CpuAsigna DEF MovIn, EnCpu
  <2>2. CpuTipada(cpu')
    BY <1>19, <1>l, <2>1 DEF MovIn, EnCpu
  <2>3. pedidos' \in Seq(Pedidos)
    BY <1>19, <1>p, <2>1 DEF MovIn, Pide
  <2> QED BY <1>0, <1>c, <1>19, <2>2, <2>3 DEF MovIn
<1>20. ASSUME UNCHANGED vars PROVE Bien
  BY <1>0, <1>q, <1>20 DEF vars
<1> HIDE DEF Bien
<1>21. ASSUME Cpu PROVE Bien
  BY <1>21, <1>11, <1>12, <1>13, <1>14, <1>15, <1>16, <1>17, <1>18, <1>19 DEF Cpu
<1>22. Bien
  BY <1>8, <1>9, <1>10, <1>20, <1>21 DEF Next
<1> QED BY <1>22 DEF Bien

(***************************************************************************)
(* Who is known.                                                           *)
(***************************************************************************)

\* What the steps of each program leave alone.
LEMMA PasosAjenos ==
  /\ AtenderCpu => UNCHANGED <<lista_procesos, estadoCpu>>
  /\ Cpu => UNCHANGED memoria
  /\ \A p \in Pids : CpuEmpieza(p) => UNCHANGED <<memoria, tlb, tiempos, tamanio, fin, respuestas>>
  /\ \A p \in Pids : IniciarProceso(p) \/ LiberarProceso(p) =>
       UNCHANGED <<marcos, mem, estadoCpu, respuestas, pedidos>>
<1>1. AtenderCpu => UNCHANGED <<lista_procesos, estadoCpu>>
  BY DEF AtenderCpu, EnviarInstruccion, EmpiezaBusqueda, BuscarSiguiente, BuscarNulo, DevolverNroMarco,
         ResizeIgual, ResizeReduce, ResizeAmplia, ResizeSinMemoria, CrearPagina, CrearSinMarco,
         AgregarPagina, ResizeAmpliado, EscribirFisica, LeerFisica, SinCpu, memoria
<1>2. Cpu => UNCHANGED memoria
  BY DEF Cpu, CpuRecibeInstruccion, CpuSeTraba, CpuDevuelve, CpuRecibeResize, CpuRecibeMarco,
         CpuRecibeDato, Traducir, TlbHit, TlbMiss, MovOut, MovIn, EjecutarResize
<1> QED BY <1>1, <1>2 DEF CpuEmpieza, IniciarProceso, LiberarProceso, SinCpu

\* A process that was started stays in the census, and the list names it once.
LEMMA ListaSigue ==
  ASSUME TypeOK, IsInjective(lista_procesos), [Next]_vars
  PROVE  IsInjective(lista_procesos') /\ Conocidos \subseteq Conocidos'
<1>0. lista_procesos \in Seq(Pids)
  BY DEF TypeOK, TipoMemoria
<1>1. ASSUME NEW p \in Pids, IniciarProceso(p)
      PROVE  IsInjective(lista_procesos') /\ Conocidos \subseteq Conocidos'
  <2>1. p \notin ToSet(lista_procesos) /\ lista_procesos' = Append(lista_procesos, p) /\ fin' = fin
    BY <1>0, <1>1, Elementos DEF IniciarProceso, SinCpu, estadoCpu
  <2>2. IsInjective(Append(lista_procesos, p)) /\ ToSet(Append(lista_procesos, p)) = ToSet(lista_procesos) \cup {p}
    BY <1>0, <2>1, ElementosAgrega
  <2> QED BY <2>1, <2>2 DEF Conocidos
<1>2. ASSUME NEW p \in Pids, LiberarProceso(p)
      PROVE  IsInjective(lista_procesos') /\ Conocidos \subseteq Conocidos'
  <2>1. p \in fin /\ lista_procesos' = RemoveFirst(lista_procesos, p) /\ fin' = fin
    BY <1>2 DEF LiberarProceso, SinCpu, estadoCpu
  <2>2. /\ IsInjective(RemoveFirst(lista_procesos, p))
        /\ ToSet(RemoveFirst(lista_procesos, p)) = ToSet(lista_procesos) \ {p}
    BY <1>0, ElementosSinPrimero
  <2> QED BY <2>1, <2>2 DEF Conocidos
<1>3. ASSUME lista_procesos' = lista_procesos, fin \subseteq fin'
      PROVE  IsInjective(lista_procesos') /\ Conocidos \subseteq Conocidos'
  BY <1>3 DEF Conocidos
<1>4. CASE AtenderCpu
  BY <1>3, <1>4, PasosAjenos DEF estadoCpu
<1>5. CASE Cpu
  <2>1. fin \subseteq fin'
    BY <1>5 DEF Cpu, CpuRecibeInstruccion, CpuSeTraba, CpuDevuelve, CpuRecibeResize, CpuRecibeMarco,
         CpuRecibeDato, Traducir, TlbHit, TlbMiss, MovOut, MovIn, EjecutarResize
  <2> QED BY <1>3, <1>5, <2>1, PasosAjenos DEF memoria
<1>6. CASE \E p \in Pids : CpuEmpieza(p)
  BY <1>3, <1>6, PasosAjenos DEF memoria
<1>7. CASE UNCHANGED vars
  BY <1>3, <1>7 DEF vars, memoria, estadoCpu
<1> QED BY <1>1, <1>2, <1>4, <1>5, <1>6, <1>7 DEF Next

\* What a step adds to the requests names the process of the CPU.
LEMMA PedidosSiguen ==
  ASSUME TypeOK, TipoCruzado, [Next]_vars, NEW m \in ToSet(pedidos'), m \notin ToSet(pedidos)
  PROVE  cpu'.pc # "libre" /\ m.pid = cpu'.pid
<1>0. pedidos \in Seq(Pedidos) /\ cpu \in LocalesCpu /\ (cpu.pc # "libre" => cpu.pid \in Pids)
  BY DEF TypeOK, TipoMensajes, TipoCruzado, CpuTipada
<1>t. /\ cpu.nro \in Nat /\ cpu.marco \in Marcos \cup {Nulo}
      /\ \A c : [cpu EXCEPT !.pc = c].pid = cpu.pid /\ [cpu EXCEPT !.pc = c].pc = c
      /\ \A c, n : [cpu EXCEPT !.pc = c, !.nro = n].pid = cpu.pid /\ [cpu EXCEPT !.pc = c, !.nro = n].pc = c
  BY <1>0 DEF LocalesCpu
<1>1. ASSUME NEW a \in Pedidos, pedidos' = Append(pedidos, a) PROVE m = a
  BY <1>0, <1>1, SocketMemoria
<1>2. ASSUME NEW a \in Pedidos, NEW b \in Pedidos, pedidos' = pedidos \o <<a, b>> PROVE m \in {a, b}
  <2>1. ToSet(pedidos \o <<a, b>>) = ToSet(pedidos) \cup {a, b}
    BY <1>0, SocketMemoria
  <2>2. ToSet(pedidos') = ToSet(pedidos \o <<a, b>>)
    BY <1>2
  <2> QED BY <2>1, <2>2
<1>3. ASSUME pedidos # <<>>, pedidos' = Tail(pedidos) PROVE FALSE
  BY <1>0, <1>3, SocketMemoria
<1>4. ASSUME pedidos' = pedidos PROVE FALSE
  BY <1>4
<1>5. CASE AtenderCpu
  BY <1>3, <1>4, <1>5 DEF AtenderCpu, EnviarInstruccion, EmpiezaBusqueda, BuscarSiguiente, BuscarNulo,
         DevolverNroMarco, ResizeIgual, ResizeReduce, ResizeAmplia, ResizeSinMemoria, CrearPagina,
         CrearSinMarco, AgregarPagina, ResizeAmpliado, EscribirFisica, LeerFisica, SinCpu, Recibe
<1>6. CASE \E p \in Pids : IniciarProceso(p) \/ LiberarProceso(p)
  BY <1>4, <1>6, PasosAjenos
<1>7. CASE \E p \in Pids : CpuEmpieza(p)
  <2>1. PICK p \in Pids : CpuEmpieza(p)
    BY <1>7
  <2>2. Fetch(p) \in Pedidos /\ Fetch(p).pid = p
    BY SonPedidos, <1>t
  <2>3. cpu'.pc = "instruccion" /\ cpu'.pid = p
    BY <1>0, <2>1 DEF CpuEmpieza, LocalesCpu
  <2> QED BY <1>1, <2>1, <2>2, <2>3 DEF CpuEmpieza
<1>p. ASSUME cpu.pc # "libre", NEW n \in Nat, NEW f \in Marcos \cup {Nulo},
             NEW t \in {"instruccion", "marco", "resize", "escribe", "lee"}
      PROVE  /\ Pedido(t, cpu.pid, n, f) \in Pedidos /\ Fetch(cpu.pid) \in Pedidos
             /\ Pedido(t, cpu.pid, n, f).pid = cpu.pid /\ Fetch(cpu.pid).pid = cpu.pid
  BY <1>0, <1>p, SonPedidos
<1>8. CASE CpuRecibeInstruccion \/ CpuSeTraba \/ CpuDevuelve \/ CpuRecibeMarco
  BY <1>4, <1>8 DEF CpuRecibeInstruccion, CpuSeTraba, CpuDevuelve, CpuRecibeMarco
<1>9. CASE CpuRecibeResize \/ CpuRecibeDato
  <2>1. cpu.pc # "libre"
    BY <1>9 DEF CpuRecibeResize, CpuRecibeDato
  <2>2. pedidos' = pedidos \/ (cpu' = [cpu EXCEPT !.pc = "instruccion"] /\ pedidos' = Append(pedidos, Fetch(cpu.pid)))
    BY <1>9 DEF CpuRecibeResize, CpuRecibeDato
  <2>3. Fetch(cpu.pid) \in Pedidos /\ Fetch(cpu.pid).pid = cpu.pid
    BY <1>p, <1>t, <2>1
  <2> QED BY <1>1, <1>4, <1>t, <2>2, <2>3
<1>10. CASE \E t \in Tamanios : EjecutarResize(t)
  <2>1. PICK t \in Tamanios : EjecutarResize(t)
    BY <1>10
  <2>2. cpu.pc # "libre" /\ t \in Nat
    BY <2>1, TamaniosAssumption DEF EjecutarResize, EnCpu
  <2>3. m.pid = cpu.pid
    BY <1>1, <1>p, <2>1, <2>2 DEF EjecutarResize, Pide
  <2> QED BY <1>t, <2>1, <2>3 DEF EjecutarResize, EnCpu
<1>11. CASE Traducir
  <2>1. PICK n \in PaginasDe(cpu.pid) : TlbHit(n) \/ TlbMiss(n)
    BY <1>11 DEF Traducir
  <2>2. cpu.pc # "libre" /\ TlbMiss(n)
    BY <1>4, <1>11, <2>1 DEF Traducir, TlbHit
  <2>3. n \in Nat
    <3>1. tamanio[cpu.pid] \in Nat
      BY <1>0, <2>2 DEF TypeOK, TipoCpu
    <3>2. (tamanio[cpu.pid] + TamPagina - 1) \div TamPagina \in Nat
      BY <3>1, Techo
    <3> QED BY <3>2 DEF PaginasDe
  <2>4. m.pid = cpu.pid
    BY <1>1, <1>p, <2>2, <2>3 DEF TlbMiss, Pide
  <2> QED BY <1>t, <2>2, <2>4 DEF TlbMiss
<1>12. CASE MovOut
  <2>1. cpu.pc # "libre"
    BY <1>12 DEF MovOut
  <2> DEFINE a == Pedido("escribe", cpu.pid, cpu.nro, cpu.marco)
             b == Fetch(cpu.pid)
  <2>2. a \in Pedidos /\ b \in Pedidos /\ a.pid = cpu.pid /\ b.pid = cpu.pid
    BY <1>p, <1>t, <2>1
  <2>3. /\ pedidos' = Append(pedidos, a) \/ pedidos' = pedidos \o <<a, b>>
        /\ cpu'.pc # "libre" /\ cpu'.pid = cpu.pid
    BY <1>12, <1>t DEF MovOut
  <2> HIDE DEF a, b
  <2>4. m \in {a, b}
    BY <1>1, <1>2, <2>2, <2>3
  <2> QED BY <2>2, <2>3, <2>4
<1>13. CASE MovIn
  <2>1. cpu.pc # "libre"
    BY <1>13 DEF MovIn, EnCpu
  <2>2. m.pid = cpu.pid
    BY <1>1, <1>p, <1>t, <1>13, <2>1 DEF MovIn, Pide
  <2> QED BY <1>t, <1>13, <2>2 DEF MovIn, EnCpu
<1>14. CASE UNCHANGED vars
  BY <1>4, <1>14 DEF vars
<1>15. CASE Cpu
  BY <1>8, <1>9, <1>10, <1>11, <1>12, <1>13, <1>15 DEF Cpu
<1> QED BY <1>5, <1>6, <1>7, <1>14, <1>15 DEF Next

\* The CPU only runs processes of the census.
LEMMA CpuConocida ==
  ASSUME TypeOK, TipoCruzado, [Next]_vars, cpu'.pc # "libre"
  PROVE  (cpu.pc # "libre" /\ cpu'.pid = cpu.pid) \/ cpu'.pid \in ToSet(lista_procesos)
<1>0. cpu \in LocalesCpu /\ lista_procesos \in Seq(Pids)
  BY DEF TypeOK, TipoCpu, TipoMemoria
<1>t. /\ \A c : [cpu EXCEPT !.pc = c].pid = cpu.pid
      /\ \A c, n : [cpu EXCEPT !.pc = c, !.nro = n].pid = cpu.pid
      /\ \A c, n : [cpu EXCEPT !.pc = c, !.marco = n].pid = cpu.pid
      /\ \A c, n, f : [cpu EXCEPT !.pc = c, !.nro = n, !.marco = f].pid = cpu.pid
      /\ CpuOciosa.pc = "libre"
  BY <1>0 DEF LocalesCpu, CpuOciosa
<1>1. ASSUME cpu' = cpu PROVE cpu.pc # "libre" /\ cpu'.pid = cpu.pid
  BY <1>1
<1>2. CASE \E p \in Pids : CpuEmpieza(p)
  <2>1. PICK p \in Pids : CpuEmpieza(p)
    BY <1>2
  <2>2. p \in ToSet(lista_procesos)
    BY <1>0, <2>1, Elementos DEF CpuEmpieza
  <2>3. cpu'.pid = p
    BY <1>0, <2>1 DEF CpuEmpieza, LocalesCpu
  <2> QED BY <2>2, <2>3
<1>3. CASE Cpu
  <2>1. ASSUME CpuRecibeInstruccion \/ CpuSeTraba PROVE cpu.pc # "libre" /\ cpu'.pid = cpu.pid
    BY <1>t, <2>1 DEF CpuRecibeInstruccion, CpuSeTraba, EnCpu
  <2>2. ASSUME CpuDevuelve PROVE FALSE
    BY <1>t, <2>2 DEF CpuDevuelve
  <2>3. ASSUME CpuRecibeResize \/ CpuRecibeDato PROVE cpu.pc # "libre" /\ cpu'.pid = cpu.pid
    BY <1>t, <2>3 DEF CpuRecibeResize, CpuRecibeDato
  <2>4. ASSUME CpuRecibeMarco PROVE cpu.pc # "libre" /\ cpu'.pid = cpu.pid
    BY <1>t, <2>4 DEF CpuRecibeMarco
  <2>5. ASSUME MovOut \/ MovIn PROVE cpu.pc # "libre" /\ cpu'.pid = cpu.pid
    BY <1>t, <2>5 DEF MovOut, MovIn, EnCpu
  <2>6. ASSUME NEW t \in Tamanios, EjecutarResize(t) PROVE cpu.pc # "libre" /\ cpu'.pid = cpu.pid
    BY <1>t, <2>6 DEF EjecutarResize, EnCpu
  <2>7. ASSUME Traducir PROVE cpu.pc # "libre" /\ cpu'.pid = cpu.pid
    <3>1. PICK n \in PaginasDe(cpu.pid) : TlbHit(n) \/ TlbMiss(n)
      BY <2>7 DEF Traducir
    <3>2. cpu.pc # "libre"
      BY <2>7 DEF Traducir
    <3>3. CASE TlbHit(n)
      <4>1. PICK e \in Encontradas(n) :
              cpu' = [cpu EXCEPT !.pc = "accede", !.nro = n, !.marco = e.marco]
        BY <3>3 DEF TlbHit
      <4> QED BY <1>t, <3>2, <4>1
    <3>4. CASE TlbMiss(n)
      BY <1>t, <3>2, <3>4 DEF TlbMiss
    <3> QED BY <3>1, <3>3, <3>4
  <2> QED BY <1>3, <2>1, <2>2, <2>3, <2>4, <2>5, <2>6, <2>7 DEF Cpu
<1>4. CASE AtenderCpu \/ \E p \in Pids : IniciarProceso(p) \/ LiberarProceso(p)
  BY <1>1, <1>4, PasosAjenos DEF estadoCpu
<1>5. CASE UNCHANGED vars
  BY <1>1, <1>5 DEF vars, estadoCpu
<1> QED BY <1>2, <1>3, <1>4, <1>5 DEF Next

\* A request in course is about the process of the request that started it.
LEMMA MemConocida ==
  ASSUME TypeOK, TipoCruzado, [Next]_vars, mem'.pc \in Ocupada
  PROVE  \/ mem.pc \in Ocupada /\ mem'.pid = mem.pid
         \/ \E m \in ToSet(pedidos) : mem'.pid = m.pid
<1>0. mem \in LocalesMem /\ pedidos \in Seq(Pedidos)
  BY DEF TypeOK, TipoMemoria, TipoMensajes
<1>t. /\ \A c : [mem EXCEPT !.pc = c].pid = mem.pid /\ [mem EXCEPT !.pc = c].pc = c
      /\ \A n : [mem EXCEPT !.i = n].pid = mem.pid
      /\ \A c, n : [mem EXCEPT !.pc = c, !.faltan = n].pid = mem.pid
      /\ \A c, n, f : [mem EXCEPT !.pc = c, !.i = n, !.marco = f].pid = mem.pid
      /\ \A c, n, f : [mem EXCEPT !.pc = c, !.faltan = n, !.marco = f].pid = mem.pid
      /\ \A c, p, n, i : [mem EXCEPT !.pc = c, !.pid = p, !.nro = n, !.i = i].pid = p
      /\ Inactiva.pc \notin Ocupada
  BY <1>0, PuntosDeMem DEF LocalesMem, Inactiva
<1>1. ASSUME mem' = mem PROVE mem.pc \in Ocupada /\ mem'.pid = mem.pid
  BY <1>1
<1>2. ASSUME EmpiezaBusqueda PROVE \E m \in ToSet(pedidos) : mem'.pid = m.pid
  <2>1. Head(pedidos) \in ToSet(pedidos) /\ mem'.pid = Head(pedidos).pid
    BY <1>0, <1>2, <1>t, SocketMemoria DEF EmpiezaBusqueda, Recibe
  <2> QED BY <2>1
<1>3. ASSUME BuscarSiguiente \/ ResizeAmplia \/ CrearPagina \/ AgregarPagina
      PROVE  mem.pc \in Ocupada /\ mem'.pid = mem.pid
  <2>1. CASE BuscarSiguiente
    BY <1>t, <2>1, PuntosDeMem DEF BuscarSiguiente, Buscando
  <2>2. CASE ResizeAmplia
    BY <1>t, <2>2, PuntosDeMem DEF ResizeAmplia
  <2>3. CASE CrearPagina
    BY <1>t, <2>3, PuntosDeMem DEF CrearPagina
  <2>4. CASE AgregarPagina
    BY <1>t, <2>4, PuntosDeMem DEF AgregarPagina
  <2> QED BY <1>3, <2>1, <2>2, <2>3, <2>4
<1>4. ASSUME BuscarNulo \/ DevolverNroMarco \/ ResizeIgual \/ ResizeReduce \/ ResizeSinMemoria
             \/ CrearSinMarco \/ ResizeAmpliado
      PROVE  FALSE
  <2>1. mem' = Inactiva \/ mem' = [mem EXCEPT !.pc = "caida"] \/ mem' = [mem EXCEPT !.pc = "terminado"]
    BY <1>4 DEF BuscarNulo, DevolverNroMarco, ResizeIgual, ResizeReduce,
       ResizeSinMemoria, CrearSinMarco, ResizeAmpliado, EnMemoria
  <2>2. mem' = Inactiva \/ mem'.pc = "caida" \/ mem'.pc = "terminado"
    BY <1>t, <2>1
  <2>3. mem'.pc \notin Ocupada
    BY <1>t, <2>2, PuntosDeMem
  <2> QED BY <2>3
<1>5. CASE AtenderCpu
  BY <1>1, <1>2, <1>3, <1>4, <1>5 DEF AtenderCpu, EnviarInstruccion, EscribirFisica, LeerFisica, memoria
<1>6. CASE Cpu \/ \E p \in Pids : IniciarProceso(p) \/ LiberarProceso(p) \/ CpuEmpieza(p)
  BY <1>1, <1>6, PasosAjenos DEF memoria
<1>7. CASE UNCHANGED vars
  BY <1>1, <1>7 DEF vars, memoria
<1> QED BY <1>5, <1>6, <1>7 DEF Next

\* A frame changes of owner only to be free or to be the one of a page that
\* Memoria is creating.
LEMMA MarcoCambia ==
  ASSUME TypeOK, TipoCruzado, [Next]_vars, NEW f \in Marcos, marcos'[f] # marcos[f]
  PROVE  \/ marcos'[f] = Libre /\ ResizeReduce
         \/ /\ CrearPagina /\ marcos[f] = Libre /\ f = obtener_marco_libre
            /\ marcos'[f] = Pagina(mem.pid, Len(tabla))
<1>0. marcos \in [Marcos -> Paginas]
  BY DEF TypeOK, TipoMemoria
<1>1. CASE ResizeReduce
  BY <1>0, <1>1 DEF ResizeReduce
<1>2. CASE CrearPagina
  <2>1. obtener_marco_libre \in Marcos /\ marcos[obtener_marco_libre] = Libre
    BY <1>2, MarcoLibre DEF CrearPagina
  <2>2. marcos' = [marcos EXCEPT ![obtener_marco_libre] = Pagina(mem.pid, Len(tabla))]
    BY <1>2 DEF CrearPagina
  <2> QED BY <1>0, <1>2, <2>1, <2>2
<1>3. CASE marcos' = marcos
  BY <1>3
<1>4. CASE AtenderCpu
  BY <1>1, <1>2, <1>3, <1>4 DEF AtenderCpu, EnviarInstruccion, EmpiezaBusqueda, BuscarSiguiente,
     BuscarNulo, DevolverNroMarco, ResizeIgual, ResizeAmplia, ResizeSinMemoria, CrearSinMarco,
     AgregarPagina, ResizeAmpliado, EscribirFisica, LeerFisica, memoria
<1>5. CASE Cpu \/ \E p \in Pids : IniciarProceso(p) \/ LiberarProceso(p) \/ CpuEmpieza(p)
  BY <1>3, <1>5, PasosAjenos DEF memoria
<1>6. CASE UNCHANGED vars
  BY <1>3, <1>6 DEF vars, memoria
<1> QED BY <1>4, <1>5, <1>6 DEF Next

\* The census holds after every step.
LEMMA CensoSigue ==
  ASSUME TypeOK, TipoCruzado, Censo, [Next]_vars
  PROVE  Censo'
<1>1. IsInjective(lista_procesos') /\ Conocidos \subseteq Conocidos'
  BY ListaSigue DEF Censo
<1>2. ASSUME NEW f \in Marcos, marcos'[f].pid # Nulo PROVE marcos'[f].pid \in Conocidos'
  <2>1. CASE marcos'[f] = marcos[f]
    BY <1>1, <1>2, <2>1 DEF Censo
  <2>2. CASE marcos'[f] # marcos[f]
    <3>1. marcos'[f] = Pagina(mem.pid, Len(tabla)) /\ CrearPagina
      BY <1>2, <2>2, MarcoCambia DEF Libre
    <3>2. mem.pc = "crea" /\ marcos'[f].pid = mem.pid
      BY <3>1 DEF CrearPagina, Pagina
    <3> QED BY <1>1, <3>2, PuntosDeMem DEF Censo
  <2> QED BY <2>1, <2>2
<1>3. ASSUME cpu'.pc # "libre" PROVE cpu'.pid \in Conocidos'
  <2>1. (cpu.pc # "libre" /\ cpu'.pid = cpu.pid) \/ cpu'.pid \in ToSet(lista_procesos)
    BY <1>3, CpuConocida
  <2> QED BY <1>1, <2>1 DEF Censo, Conocidos
<1>4. ASSUME NEW m \in ToSet(pedidos') PROVE m.pid \in Conocidos'
  <2>1. CASE m \in ToSet(pedidos)
    BY <1>1, <2>1 DEF Censo
  <2>2. CASE m \notin ToSet(pedidos)
    BY <1>3, <2>2, PedidosSiguen
  <2> QED BY <2>1, <2>2
<1>5. ASSUME mem'.pc \in Ocupada PROVE mem'.pid \in Conocidos'
  <2>1. \/ mem.pc \in Ocupada /\ mem'.pid = mem.pid
        \/ \E m \in ToSet(pedidos) : mem'.pid = m.pid
    BY <1>5, MemConocida
  <2> QED BY <1>1, <2>1 DEF Censo
<1> QED BY <1>1, <1>2, <1>3, <1>4, <1>5 DEF Censo

(***************************************************************************)
(* Frames and tables.                                                      *)
(***************************************************************************)

\* The two parts of MarcosSinCompartir.
TablasFieles ==
  \A p \in Pids : \A n \in 1..Len(tabla_de_paginas[p]) :
    marcos[tabla_de_paginas[p][n]] = Pagina(p, n - 1)
EnTabla(f) ==
  /\ marcos[f].nro < Len(tabla_de_paginas[marcos[f].pid])
  /\ tabla_de_paginas[marcos[f].pid][marcos[f].nro + 1] = f
MarcosFieles ==
  \A f \in Marcos :
    \/ marcos[f].pid = Nulo
    \/ mem.pc = "caida" \/ EnCreacion(f)
    \/ ~Contains(lista_procesos, marcos[f].pid)
    \/ EnTabla(f)

Fieles == CreaPropia /\ TablasFieles /\ MarcosFieles

LEMMA SinCompartirPartes ==
  ASSUME TipoMemoria
  PROVE  MarcosSinCompartir <=> TablasFieles /\ MarcosFieles
<1>1. \A p \in Pids : DOMAIN tabla_de_paginas[p] = 1..Len(tabla_de_paginas[p])
  BY DEF TipoMemoria
<1> QED BY <1>1 DEF MarcosSinCompartir, TablasFieles, MarcosFieles, EnTabla

\* A page says of which process it is and which one.
LEMMA PaginaUnica ==
  /\ \A p, n : Pagina(p, n).pid = p /\ Pagina(p, n).nro = n
  /\ Libre.pid = Nulo
BY DEF Pagina, Libre

\* What the table of a process looks like, and what its frames are.
LEMMA TablaTipada ==
  ASSUME TipoMemoria, NEW p \in Pids
  PROVE  /\ tabla_de_paginas[p] \in Seq(Marcos) /\ Len(tabla_de_paginas[p]) \in Nat
         /\ \A n \in 1..Len(tabla_de_paginas[p]) : tabla_de_paginas[p][n] \in Marcos
BY DEF TipoMemoria

\* Steps that leave the list, the tables and the frames alone, and either
\* the page that is being created too or none is.
LEMMA FielesQuietas ==
  ASSUME Fieles, UNCHANGED <<marcos, lista_procesos, tabla_de_paginas>>,
         \/ mem'.pc = "caida"
         \/ mem'.pc = mem.pc /\ mem'.pid = mem.pid /\ mem'.marco = mem.marco
         \/ mem.pc \notin {"busca_crea", "caida"} /\ mem'.pc # "busca_crea"
  PROVE  Fieles'
<1>1. TablasFieles'
  BY DEF Fieles, TablasFieles
<1>2. ASSUME NEW f \in Marcos PROVE EnCreacion(f) => mem'.pc = "caida" \/ EnCreacion(f)'
  BY DEF EnCreacion
<1>3. \A f \in Marcos : EnTabla(f) <=> EnTabla(f)'
  BY DEF EnTabla
<1>4. CreaPropia'
  <2> SUFFICES ASSUME mem'.pc = "busca_crea", Contains(lista_procesos, mem'.pid)
               PROVE  EnCreacion(mem.marco)' /\ mem'.marco = mem.marco
    BY DEF CreaPropia, EnCreacion
  <2>1. mem'.pc = mem.pc /\ mem'.pid = mem.pid /\ mem'.marco = mem.marco
    OBVIOUS
  <2> QED BY <2>1 DEF Fieles, CreaPropia, EnCreacion
<1>5. MarcosFieles'
  <2> SUFFICES ASSUME NEW f \in Marcos
               PROVE  \/ marcos[f].pid = Nulo
                      \/ mem'.pc = "caida" \/ EnCreacion(f)'
                      \/ ~Contains(lista_procesos, marcos[f].pid)
                      \/ EnTabla(f)'
    BY DEF MarcosFieles
  <2>1. mem.pc = "caida" => mem'.pc = "caida"
    OBVIOUS
  <2> QED BY <1>2, <1>3, <2>1 DEF Fieles, MarcosFieles
<1> QED BY <1>1, <1>4, <1>5 DEF Fieles

\* A new process has no frames: its pid was never used.
LEMMA FielesInicia ==
  ASSUME TypeOK, Censo, Fieles, NEW p \in Pids, IniciarProceso(p)
  PROVE  Fieles'
<1>0. lista_procesos \in Seq(Pids) /\ UNCHANGED <<marcos, tabla_de_paginas, mem>>
  BY DEF TypeOK, TipoMemoria, IniciarProceso
<1>1. p \notin Conocidos /\ lista_procesos' = Append(lista_procesos, p)
  BY <1>0, Elementos DEF IniciarProceso, Conocidos
<1>2. \A q : Contains(lista_procesos', q) <=> Contains(lista_procesos, q) \/ q = p
  <2>1. /\ Append(lista_procesos, p) \in Seq(Pids)
        /\ ToSet(Append(lista_procesos, p)) = ToSet(lista_procesos) \cup {p}
    BY <1>0, Enviado
  <2> QED BY <1>0, <1>1, <2>1, Elementos
<1>3. \A f \in Marcos : marcos[f].pid # Nulo => marcos[f].pid # p
  BY <1>1 DEF Censo
<1>4. mem.pc = "busca_crea" => mem.pid # p
  BY <1>1, PuntosDeMem DEF Censo
<1>5. \A f : (EnCreacion(f) <=> EnCreacion(f)') /\ (EnTabla(f) <=> EnTabla(f)')
  BY <1>0 DEF EnCreacion, EnTabla
<1>6. TablasFieles'
  BY <1>0 DEF Fieles, TablasFieles
<1>7. CreaPropia'
  <2> SUFFICES ASSUME mem.pc = "busca_crea", Contains(lista_procesos', mem.pid)
               PROVE  EnCreacion(mem.marco)'
    BY <1>0 DEF CreaPropia
  <2>1. EnCreacion(mem.marco)
    BY <1>2, <1>4 DEF Fieles, CreaPropia
  <2> QED BY <1>0, <2>1 DEF EnCreacion
<1>8. MarcosFieles'
  <2> SUFFICES ASSUME NEW f \in Marcos
               PROVE  \/ marcos[f].pid = Nulo
                      \/ mem.pc = "caida" \/ EnCreacion(f)'
                      \/ ~Contains(lista_procesos', marcos[f].pid)
                      \/ EnTabla(f)'
    BY <1>0 DEF MarcosFieles
  <2> QED BY <1>2, <1>3, <1>5 DEF Fieles, MarcosFieles
<1> QED BY <1>6, <1>7, <1>8 DEF Fieles

\* A process that goes leaves its frames taken, and no table over them.
LEMMA FielesLibera ==
  ASSUME TypeOK, Censo, Fieles, NEW p \in Pids, LiberarProceso(p)
  PROVE  Fieles'
<1>0. /\ lista_procesos \in Seq(Pids) /\ UNCHANGED <<marcos, mem>>
      /\ tabla_de_paginas \in [Pids -> Seq(Marcos)]
      /\ tabla_de_paginas' = [tabla_de_paginas EXCEPT ![p] = <<>>]
  BY DEF TypeOK, TipoMemoria, LiberarProceso
<1>1. \A q : Contains(lista_procesos', q) <=> Contains(lista_procesos, q) /\ q # p
  <2>1. /\ lista_procesos' \in Seq(Pids)
        /\ ToSet(lista_procesos') = ToSet(lista_procesos) \ {p}
    BY <1>0, ElementosSinPrimero DEF LiberarProceso, Censo
  <2> QED BY <1>0, <2>1, Elementos
<1>2. /\ tabla_de_paginas'[p] = <<>>
      /\ \A q \in Pids : q # p => tabla_de_paginas'[q] = tabla_de_paginas[q]
  BY <1>0
<1>3. \A q : Contains(lista_procesos', q) => q \in Pids \ {p}
  BY <1>0, <1>1, Elementos
<1>4. \A f \in Marcos : Contains(lista_procesos', marcos[f].pid) =>
        (EnCreacion(f) => EnCreacion(f)') /\ (EnTabla(f) => EnTabla(f)')
  <2> SUFFICES ASSUME NEW f \in Marcos, Contains(lista_procesos', marcos[f].pid)
               PROVE  (EnCreacion(f) => EnCreacion(f)') /\ (EnTabla(f) => EnTabla(f)')
    OBVIOUS
  <2>1. tabla_de_paginas'[marcos[f].pid] = tabla_de_paginas[marcos[f].pid]
    BY <1>2, <1>3
  <2>2. EnCreacion(f) => mem.pid = marcos[f].pid
    BY PaginaUnica DEF EnCreacion
  <2> QED BY <1>0, <2>1, <2>2 DEF EnCreacion, EnTabla
<1>5. TablasFieles'
  <2> SUFFICES ASSUME NEW q \in Pids, NEW n \in 1..Len(tabla_de_paginas'[q])
               PROVE  marcos[tabla_de_paginas'[q][n]] = Pagina(q, n - 1)
    BY <1>0 DEF TablasFieles
  <2>1. q # p
    BY <1>2
  <2> QED BY <1>2, <2>1 DEF Fieles, TablasFieles
<1>6. CreaPropia'
  <2> SUFFICES ASSUME mem.pc = "busca_crea", Contains(lista_procesos', mem.pid)
               PROVE  EnCreacion(mem.marco)'
    BY <1>0 DEF CreaPropia
  <2>1. EnCreacion(mem.marco)
    BY <1>1 DEF Fieles, CreaPropia
  <2>2. tabla_de_paginas'[mem.pid] = tabla_de_paginas[mem.pid]
    BY <1>2, <1>3
  <2> QED BY <1>0, <2>1, <2>2 DEF EnCreacion
<1>7. MarcosFieles'
  <2> SUFFICES ASSUME NEW f \in Marcos, Contains(lista_procesos', marcos[f].pid)
               PROVE  \/ marcos[f].pid = Nulo
                      \/ mem.pc = "caida" \/ EnCreacion(f)'
                      \/ EnTabla(f)'
    BY <1>0 DEF MarcosFieles
  <2> QED BY <1>1, <1>4 DEF Fieles, MarcosFieles
<1> QED BY <1>5, <1>6, <1>7 DEF Fieles

\* A reduction frees the frames of the pages it takes out and of no other.
LEMMA FielesReduce ==
  ASSUME TypeOK, Fieles, ResizeReduce
  PROVE  Fieles'
<1> DEFINE q == mem.pid
           t == tabla_de_paginas[q]
           s == Solicitadas
           Sacada(f) == \E n \in s + 1..Len(t) : t[n] = f
<1>0. /\ TipoMemoria /\ lista_procesos' = lista_procesos
      /\ tabla_de_paginas \in [Pids -> Seq(Marcos)] /\ marcos \in [Marcos -> Paginas]
      /\ mem.pc = "busca_resize" /\ mem'.pc = "espera"
  BY DEF TypeOK, TipoMemoria, ResizeReduce, Inactiva
<1>l. lista_procesos \in Seq(Pids)
  BY <1>0 DEF TipoMemoria
<1>1. /\ q \in Pids /\ s \in Nat /\ s <= Len(t) /\ Len(t) \in Nat
      /\ \A n \in 1..Len(t) : t[n] \in Marcos
      /\ Len(SubSeq(t, 1, s)) = s
      /\ \A n \in 1..s : SubSeq(t, 1, s)[n] = t[n]
  BY <1>0, EncontradoConocido, PrefijoTabla, TablaTipada DEF ResizeReduce, tabla
<1>2. tabla_de_paginas' = [tabla_de_paginas EXCEPT ![q] = SubSeq(t, 1, s)]
  BY DEF ResizeReduce
<1>3. \A f \in Marcos : marcos'[f] = IF Sacada(f) THEN Libre ELSE marcos[f]
  BY DEF ResizeReduce, tabla
<1> HIDE DEF q, s
<1>4. /\ Len(tabla_de_paginas'[q]) = s
      /\ \A n \in 1..s : tabla_de_paginas'[q][n] = t[n]
      /\ \A p \in Pids : p # q => tabla_de_paginas'[p] = tabla_de_paginas[p]
  BY <1>0, <1>1, <1>2
<1>5. TablasFieles'
  <2> SUFFICES ASSUME NEW p \in Pids, NEW n \in 1..Len(tabla_de_paginas'[p])
               PROVE  marcos'[tabla_de_paginas'[p][n]] = Pagina(p, n - 1)
    BY DEF TablasFieles
  <2> DEFINE f == tabla_de_paginas[p][n]
  <2>1. /\ n \in 1..Len(tabla_de_paginas[p]) /\ tabla_de_paginas'[p][n] = f
        /\ p = q => n <= s
        /\ n \in Nat
    BY <1>0, <1>1, <1>4, TablaTipada
  <2>2. f \in Marcos /\ marcos[f] = Pagina(p, n - 1)
    BY <1>0, <2>1, TablaTipada DEF Fieles, TablasFieles
  <2> HIDE DEF f
  <2>3. ~Sacada(f)
    <3> SUFFICES ASSUME NEW m \in s + 1..Len(t), t[m] = f PROVE FALSE
      OBVIOUS
    <3>1. m \in 1..Len(t) /\ m \in Nat /\ m > s
      BY <1>1
    <3>2. marcos[f] = Pagina(q, m - 1)
      BY <1>1, <3>1 DEF Fieles, TablasFieles
    <3>3. p = q /\ n - 1 = m - 1
      BY <2>2, <3>2, PaginaUnica
    <3>4. n = m /\ n <= s
      BY <2>1, <3>1, <3>3
    <3> QED BY <1>1, <3>1, <3>4
  <2> QED BY <1>3, <2>1, <2>2, <2>3
<1>6. CreaPropia'
  BY <1>0 DEF CreaPropia
<1>7. MarcosFieles'
  <2> SUFFICES ASSUME NEW f \in Marcos, marcos'[f].pid # Nulo,
                      Contains(lista_procesos, marcos'[f].pid)
               PROVE  EnTabla(f)'
    BY <1>0 DEF MarcosFieles
  <2>1. ~Sacada(f) /\ marcos'[f] = marcos[f]
    BY <1>3, PaginaUnica
  <2>2. EnTabla(f)
    BY <1>0, <2>1 DEF Fieles, MarcosFieles, EnCreacion
  <2> DEFINE p == marcos[f].pid
             n == marcos[f].nro
  <2>3. n \in Nat /\ p \in Pids /\ n < Len(tabla_de_paginas[p]) /\ tabla_de_paginas[p][n + 1] = f
    <3>1. p \in Pids
      BY <1>l, <2>1, Elementos
    <3>2. n \in Nat
      BY <1>0 DEF Paginas
    <3> QED BY <2>2, <3>1, <3>2 DEF EnTabla
  <2>4. n < Len(tabla_de_paginas'[p]) /\ tabla_de_paginas'[p][n + 1] = f
    <3>1. CASE p # q
      BY <1>4, <2>3, <3>1
    <3>2. CASE p = q
      <4>1. n + 1 <= s
        <5>1. n + 1 \in 1..Len(t) /\ t[n + 1] = f
          BY <1>1, <2>3, <3>2
        <5> QED BY <1>1, <2>1, <5>1
      <4> QED BY <1>1, <1>4, <2>3, <3>2, <4>1
    <3> QED BY <3>1, <3>2
  <2> QED BY <2>1, <2>4 DEF EnTabla
<1> QED BY <1>5, <1>6, <1>7 DEF Fieles

\* The frame of a page that is being created was free: no table had it.
LEMMA FielesCrea ==
  ASSUME TypeOK, TipoCruzado, Fieles, CrearPagina
  PROVE  Fieles'
<1>o. PICK o \in Marcos : o = obtener_marco_libre /\ marcos[o] = Libre
  BY MarcoLibre DEF CrearPagina
<1> DEFINE n == Len(tabla)
<1>0. /\ TipoMemoria /\ UNCHANGED <<lista_procesos, tabla_de_paginas>>
      /\ marcos \in [Marcos -> Paginas] /\ mem \in LocalesMem /\ mem.pc = "crea"
      /\ mem' = [mem EXCEPT !.pc = "busca_crea", !.i = 0, !.marco = o]
      /\ o \in Marcos /\ marcos[o] = Libre
      /\ marcos' = [marcos EXCEPT ![o] = Pagina(mem.pid, n)]
  BY <1>o DEF TypeOK, TipoMemoria, CrearPagina
<1>1. mem'.pc = "busca_crea" /\ mem'.pid = mem.pid /\ mem'.marco = o
  BY <1>0 DEF LocalesMem
<1>n. n = Len(tabla_de_paginas[mem.pid])
  BY DEF tabla
<1> HIDE DEF n
<1>2. marcos'[o] = Pagina(mem.pid, n) /\ \A f \in Marcos : f # o => marcos'[f] = marcos[f]
  BY <1>0
<1>3. EnCreacion(o)' /\ (\A f : ~EnCreacion(f))
  BY <1>0, <1>1, <1>2, <1>n DEF EnCreacion
<1>4. TablasFieles'
  <2> SUFFICES ASSUME NEW p \in Pids, NEW k \in 1..Len(tabla_de_paginas[p])
               PROVE  marcos'[tabla_de_paginas[p][k]] = Pagina(p, k - 1)
    BY <1>0 DEF TablasFieles
  <2> DEFINE f == tabla_de_paginas[p][k]
  <2>1. f \in Marcos /\ marcos[f] = Pagina(p, k - 1)
    BY <1>0, TablaTipada DEF Fieles, TablasFieles
  <2>2. f # o
    BY <1>0, <2>1, PaginaUnica, PaginacionNuloAssumption
  <2> QED BY <1>2, <2>1, <2>2
<1>5. CreaPropia'
  BY <1>1, <1>3 DEF CreaPropia, EnCreacion
<1>6. MarcosFieles'
  <2> SUFFICES ASSUME NEW f \in Marcos, f # o
               PROVE  \/ marcos'[f].pid = Nulo
                      \/ ~Contains(lista_procesos, marcos'[f].pid)
                      \/ EnTabla(f)'
    BY <1>0, <1>3 DEF MarcosFieles
  <2>1. marcos'[f] = marcos[f]
    BY <1>2
  <2>2. EnTabla(f) <=> EnTabla(f)'
    BY <1>0, <2>1 DEF EnTabla
  <2> QED BY <1>0, <1>3, <2>1, <2>2 DEF Fieles, MarcosFieles
<1> QED BY <1>4, <1>5, <1>6 DEF Fieles

\* list_add of the frame ends the creation: the table has the page.
LEMMA FielesAgrega ==
  ASSUME TypeOK, TipoCruzado, Fieles, AgregarPagina
  PROVE  Fieles'
<1> DEFINE q == mem.pid
           o == mem.marco
           t == tabla_de_paginas[q]
           l == Len(t)
<1>0. /\ TipoMemoria /\ UNCHANGED <<marcos, lista_procesos>>
      /\ tabla_de_paginas \in [Pids -> Seq(Marcos)] /\ marcos \in [Marcos -> Paginas]
      /\ mem.pc = "busca_crea" /\ lista_procesos \in Seq(Pids)
      /\ tabla_de_paginas' = [tabla_de_paginas EXCEPT ![q] = Append(t, o)]
  BY DEF TypeOK, TipoMemoria, AgregarPagina
<1>1. mem'.pc = "crea"
  <2>1. mem \in LocalesMem
    BY DEF TypeOK, TipoMemoria
  <2> QED BY <2>1 DEF AgregarPagina, LocalesMem
<1>2. q \in Pids /\ o \in Marcos /\ Contains(lista_procesos, q)
  BY <1>0, EncontradoConocido DEF AgregarPagina, TipoCruzado, MemTipada
<1>3. marcos[o] = Pagina(q, l)
  BY <1>0, <1>2 DEF Fieles, CreaPropia, EnCreacion
<1>4. \A f : EnCreacion(f) => f = o
  BY DEF EnCreacion
<1>5. /\ t \in Seq(Marcos) /\ l \in Nat /\ Len(Append(t, o)) = l + 1
      /\ \A k \in 1..l : Append(t, o)[k] = t[k]
      /\ Append(t, o)[l + 1] = o
  BY <1>0, <1>2, AppendProperties
<1> HIDE DEF q, o
<1>6. /\ Len(tabla_de_paginas'[q]) = l + 1 /\ tabla_de_paginas'[q][l + 1] = o
      /\ \A k \in 1..l : tabla_de_paginas'[q][k] = t[k]
      /\ \A p \in Pids : p # q => tabla_de_paginas'[p] = tabla_de_paginas[p]
  BY <1>0, <1>2, <1>5
<1>7. TablasFieles'
  <2> SUFFICES ASSUME NEW p \in Pids, NEW k \in 1..Len(tabla_de_paginas'[p])
               PROVE  marcos[tabla_de_paginas'[p][k]] = Pagina(p, k - 1)
    BY <1>0 DEF TablasFieles
  <2>1. CASE p = q /\ k = l + 1
    <3>1. tabla_de_paginas'[p][k] = o /\ k - 1 = l
      BY <1>5, <1>6, <2>1
    <3> QED BY <1>3, <2>1, <3>1
  <2>2. CASE ~(p = q /\ k = l + 1)
    <3>1. k \in 1..Len(tabla_de_paginas[p]) /\ tabla_de_paginas'[p][k] = tabla_de_paginas[p][k]
      BY <1>5, <1>6, <2>2
    <3> QED BY <3>1 DEF Fieles, TablasFieles
  <2> QED BY <2>1, <2>2
<1>8. CreaPropia'
  BY <1>1 DEF CreaPropia
<1>9. MarcosFieles'
  <2> SUFFICES ASSUME NEW f \in Marcos, marcos[f].pid # Nulo, Contains(lista_procesos, marcos[f].pid)
               PROVE  EnTabla(f)'
    BY <1>0 DEF MarcosFieles
  <2> DEFINE p == marcos[f].pid
             n == marcos[f].nro
  <2>1. p \in Pids /\ n \in Nat
    BY <1>0, Elementos DEF Paginas
  <2>2. CASE f = o
    <3>1. p = q /\ n = l
      BY <1>3, <2>2, PaginaUnica
    <3> QED BY <1>0, <1>5, <1>6, <2>2, <3>1 DEF EnTabla
  <2>3. CASE f # o
    <3>1. EnTabla(f)
      BY <1>0, <1>4, <2>3 DEF Fieles, MarcosFieles
    <3>2. n < Len(tabla_de_paginas[p]) /\ tabla_de_paginas[p][n + 1] = f
      BY <3>1 DEF EnTabla
    <3>3. n < Len(tabla_de_paginas'[p]) /\ tabla_de_paginas'[p][n + 1] = f
      <4>1. CASE p # q
        BY <1>6, <2>1, <3>2, <4>1
      <4>2. CASE p = q
        <5>1. n + 1 \in 1..l /\ t[n + 1] = f
          BY <1>5, <2>1, <3>2, <4>2
        <5>2. n < l + 1
          BY <1>5, <2>1, <5>1
        <5> QED BY <1>6, <4>2, <5>1, <5>2
      <4> QED BY <4>1, <4>2
    <3> QED BY <1>0, <3>3 DEF EnTabla
  <2> QED BY <2>2, <2>3
<1> QED BY <1>7, <1>8, <1>9 DEF Fieles

\* Every step keeps frames and tables inverse of each other.
LEMMA FielesSiguen ==
  ASSUME TypeOK, TipoCruzado, Censo, Fieles, [Next]_vars
  PROVE  Fieles'
<1>0. mem \in LocalesMem
  BY DEF TypeOK, TipoMemoria
<1>t. /\ Inactiva.pc = "espera"
      /\ \A c : [mem EXCEPT !.pc = c].pc = c
      /\ \A n : /\ [mem EXCEPT !.i = n].pid = mem.pid /\ [mem EXCEPT !.i = n].pc = mem.pc
                /\ [mem EXCEPT !.i = n].marco = mem.marco
      /\ \A c, n : [mem EXCEPT !.pc = c, !.faltan = n].pc = c
      /\ \A c, p, n : [mem EXCEPT !.pc = c, !.pid = p, !.nro = n, !.i = 0].pc = c
  BY <1>0 DEF LocalesMem, Inactiva
<1>1. ASSUME UNCHANGED memoria PROVE Fieles'
  <2>1. UNCHANGED <<marcos, lista_procesos, tabla_de_paginas>> /\ mem' = mem
    BY <1>1 DEF memoria
  <2> QED BY <2>1, FielesQuietas
<1>2. ASSUME EmpiezaBusqueda PROVE Fieles'
  <2>1. PICK tipo \in {"marco", "resize"} :
          /\ mem.pc = "espera" /\ UNCHANGED <<marcos, lista_procesos, tabla_de_paginas>>
          /\ mem' = [mem EXCEPT !.pc = IF tipo = "marco" THEN "busca_marco" ELSE "busca_resize",
                                !.pid = Head(pedidos).pid, !.nro = Head(pedidos).nro, !.i = 0]
    BY <1>2 DEF EmpiezaBusqueda, Recibe
  <2>2. mem'.pc # "busca_crea"
    BY <1>t, <2>1
  <2> QED BY <2>1, <2>2, FielesQuietas
<1>3. ASSUME BuscarSiguiente PROVE Fieles'
  <2>1. /\ UNCHANGED <<marcos, lista_procesos, tabla_de_paginas>>
        /\ mem'.pc = mem.pc /\ mem'.pid = mem.pid /\ mem'.marco = mem.marco
    BY <1>3, <1>t DEF BuscarSiguiente
  <2> QED BY <2>1, FielesQuietas
<1>4. ASSUME BuscarNulo \/ CrearSinMarco PROVE Fieles'
  <2>1. UNCHANGED <<marcos, lista_procesos, tabla_de_paginas>> /\ mem'.pc = "caida"
    BY <1>4, <1>t DEF BuscarNulo, CrearSinMarco, EnMemoria
  <2> QED BY <2>1, FielesQuietas
<1>5. ASSUME DevolverNroMarco PROVE Fieles'
  <2>1. /\ UNCHANGED <<marcos, lista_procesos, tabla_de_paginas>> /\ mem.pc = "busca_marco"
        /\ mem' = Inactiva \/ mem' = [mem EXCEPT !.pc = "caida"]
    BY <1>5 DEF DevolverNroMarco
  <2>2. mem'.pc = "espera" \/ mem'.pc = "caida"
    BY <1>t, <2>1
  <2> QED BY <2>1, <2>2, FielesQuietas
<1>6. ASSUME ResizeIgual \/ ResizeSinMemoria \/ ResizeAmpliado \/ ResizeAmplia PROVE Fieles'
  <2>1. UNCHANGED <<marcos, lista_procesos, tabla_de_paginas>> /\ mem.pc \in {"busca_resize", "crea"}
    BY <1>6 DEF ResizeIgual, ResizeSinMemoria, ResizeAmpliado, ResizeAmplia, EnMemoria
  <2>2. \/ mem' = Inactiva \/ mem' = [mem EXCEPT !.pc = "terminado"]
        \/ mem' = [mem EXCEPT !.pc = "crea", !.faltan = Solicitadas]
    BY <1>6 DEF ResizeIgual, ResizeSinMemoria, ResizeAmpliado, ResizeAmplia, EnMemoria
  <2>3. mem'.pc # "busca_crea"
    BY <1>t, <2>2, ZenonT(30)
  <2> QED BY <2>1, <2>3, FielesQuietas
<1>7. CASE AtenderCpu
  BY <1>1, <1>2, <1>3, <1>4, <1>5, <1>6, <1>7, FielesReduce, FielesCrea, FielesAgrega
     DEF AtenderCpu, EnviarInstruccion, EscribirFisica, LeerFisica
<1>8. CASE Cpu \/ \E p \in Pids : CpuEmpieza(p)
  BY <1>1, <1>8, PasosAjenos
<1>9. CASE \E p \in Pids : IniciarProceso(p) \/ LiberarProceso(p)
  BY <1>9, FielesInicia, FielesLibera
<1>10. CASE UNCHANGED vars
  BY <1>1, <1>10 DEF vars
<1> QED BY <1>7, <1>8, <1>9, <1>10 DEF Next

(***************************************************************************)
(* Theorems.                                                               *)
(***************************************************************************)

\* The inductive invariant holds when Memoria and the CPU start.
LEMMA PInvInicial == Init => PInv
<1> SUFFICES ASSUME Init PROVE PInv
  OBVIOUS
<1>1. TipoMemoria
  BY PuntosDeMem DEF Init, TipoMemoria, LocalesMem, Inactiva, Paginas, Libre
<1>2. TypeOK
  <2>1. "libre" \in PuntosCpu
    BY DEF PuntosCpu
  <2> QED BY <1>1, <2>1 DEF Init, TypeOK, TipoMensajes, TipoCpu, LocalesCpu, CpuOciosa
<1>3. ToSet(respuestas) = {} /\ ToSet(pedidos) = {} /\ IsInjective(lista_procesos)
  BY DEF Init, ToSet, IsInjective
<1>4. mem.pc = "espera" /\ cpu.pc = "libre" /\ \A f \in Marcos : marcos[f].pid = Nulo
  BY DEF Init, Inactiva, CpuOciosa, Libre
<1>5. TipoCruzado
  BY <1>2, <1>3, <1>4, PuntosDeMem DEF TypeOK, TipoMemoria, TipoCpu, TipoCruzado, MemTipada, CpuTipada
<1>6. Censo /\ CreaPropia
  BY <1>3, <1>4, PuntosDeMem DEF Censo, CreaPropia
<1>7. TablasFieles /\ MarcosFieles
  BY <1>4 DEF Init, TablasFieles, MarcosFieles
<1> QED BY <1>1, <1>2, <1>5, <1>6, <1>7, SinCompartirPartes DEF PInv

\* Every step keeps the inductive invariant.
LEMMA PInvSigue == PInv /\ [Next]_vars => PInv'
<1> SUFFICES ASSUME PInv, [Next]_vars PROVE PInv'
  OBVIOUS
<1>1. /\ TypeOK /\ TipoCruzado /\ Censo /\ TipoMemoria
      /\ Fieles
  BY SinCompartirPartes DEF PInv, Fieles, TypeOK
<1>2. TipoMemoria' /\ MemTipada(mem')
  BY <1>1, TipoMemoriaSigue
<1>3. /\ TipoMensajes' /\ TipoCpu' /\ CpuTipada(cpu')
      /\ \A m \in ToSet(respuestas') : m.tipo = "marco" => m.marco \in Marcos
  BY <1>1, TipoCpuSigue
<1>4. TypeOK' /\ TipoCruzado'
  BY <1>2, <1>3 DEF TypeOK, TipoCruzado
<1>5. Censo' /\ Fieles'
  BY <1>1, CensoSigue, FielesSiguen
<1>6. MarcosSinCompartir'
  <2>1. \A p \in Pids : DOMAIN tabla_de_paginas'[p] = 1..Len(tabla_de_paginas'[p])
    BY <1>2 DEF TipoMemoria
  <2> QED BY <1>5, <2>1 DEF Fieles, MarcosSinCompartir, TablasFieles, MarcosFieles, EnTabla
<1> QED BY <1>4, <1>5, <1>6 DEF PInv, Fieles

\* Every value of every variable of the two programs is of its type.
THEOREM MemoriaTipada == Spec => []TypeOK
<1>1. PInv => TypeOK
  BY DEF PInv
<1> QED BY <1>1, PInvInicial, PInvSigue, PTL DEF Spec

\* tabla_de_marcos and the tables of pages are inverse of each other: two
\* pages never share a frame, and none is mislaid while Memoria is up.
THEOREM SinCompartir == Spec => []MarcosSinCompartir
<1>1. PInv => MarcosSinCompartir
  BY DEF PInv
<1> QED BY <1>1, PInvInicial, PInvSigue, PTL DEF Spec

\* The CPU waits for the answer to this request, or it got stuck and will
\* not read it.
Atiende(tipo, p, n) ==
  /\ p = cpu.pid
  /\ cpu.pc \in {IF tipo = "lee" THEN "dato" ELSE tipo, "trabada"}
  /\ tipo = "marco" => n = cpu.nro
  /\ tipo = "resize" => n = tamanio[cpu.pid]

\* Memoria owes an answer.
Pendiente == mem.pc \in Ocupada \/ \E k \in 1..Len(pedidos) : pedidos[k].tipo # "escribe"

\* A request that is answered is the last one in the socket, it finds Memoria
\* idle, and it is the one the CPU waits for.
EnTurno ==
  \A k \in 1..Len(pedidos) : pedidos[k].tipo # "escribe" =>
    /\ k = Len(pedidos) /\ mem.pc \notin Ocupada
    /\ Atiende(pedidos[k].tipo, pedidos[k].pid, pedidos[k].nro)
EnCurso ==
  mem.pc \in Ocupada =>
    pedidos = <<>> /\ Atiende(IF mem.pc = "busca_marco" THEN "marco" ELSE "resize", mem.pid, mem.nro)

\* One answer at a time; before it, only the PEDIDO_OK that follows a RESIZE
\* without memory, which the process that comes next finds in its fetch.
SonSobras(desde) == \A k \in desde..Len(respuestas) : respuestas[k].tipo = "PEDIDO_OK"
UnaRespuesta ==
  /\ cpu.pc = "libre" => ~Pendiente /\ SonSobras(1)
  /\ cpu.pc \in {"decodifica", "accede", "continua"} => ~Pendiente /\ respuestas = <<>>
  /\ cpu.pc \in {"resize", "marco", "dato"} /\ Pendiente => respuestas = <<>>
  /\ cpu.pc = "instruccion" => \A k \in 1..Len(respuestas) :
       respuestas[k].tipo = "PEDIDO_OK" \/ (~Pendiente /\ k = Len(respuestas))
  /\ cpu.pc \in {"marco", "dato"} => Len(respuestas) <= 1
  /\ cpu.pc = "resize" => SonSobras(2)

Turno == EnTurno /\ EnCurso /\ UnaRespuesta

(***************************************************************************)
(* Turns.                                                                  *)
(***************************************************************************)
\* Steps inside of Memoria, that neither take a request nor answer it.
LEMMA TurnoInterno ==
  ASSUME Turno, UNCHANGED <<pedidos, respuestas, cpu, tamanio>>,
         \/ mem' = mem
         \/ mem'.pc \notin Ocupada
         \/ /\ mem'.pid = mem.pid /\ mem'.nro = mem.nro
            /\ \/ mem'.pc = mem.pc
               \/ mem.pc \in Ocupada \ {"busca_marco"} /\ mem'.pc \in Ocupada \ {"busca_marco"}
  PROVE  Turno'
<1>1. mem'.pc \in Ocupada =>
        /\ mem.pc \in Ocupada /\ mem'.pid = mem.pid /\ mem'.nro = mem.nro
        /\ mem'.pc = "busca_marco" <=> mem.pc = "busca_marco"
  OBVIOUS
<1>2. EnTurno' /\ EnCurso'
  BY <1>1 DEF Turno, EnTurno, EnCurso, Atiende
<1>3. Pendiente' => Pendiente
  BY <1>1 DEF Pendiente
<1>4. UnaRespuesta'
  BY <1>3 DEF Turno, UnaRespuesta, SonSobras
<1> QED BY <1>2, <1>4 DEF Turno

\* While Memoria is busy nothing is in the sockets, unless the CPU is stuck.
LEMMA SocketsVacios ==
  ASSUME Turno, mem.pc \in Ocupada
  PROVE  /\ Pendiente /\ pedidos = <<>>
         /\ cpu.pc \in {IF mem.pc = "busca_marco" THEN "marco" ELSE "resize", "trabada"}
         /\ cpu.pc # "trabada" => respuestas = <<>>
BY DEF Turno, EnCurso, UnaRespuesta, Atiende, Pendiente

\* The end of a request: the answer is the only one, except for the PEDIDO_OK
\* that follows an error.
LEMMA TurnoResponde ==
  ASSUME TypeOK, Turno, mem.pc \in Ocupada, mem'.pc \notin Ocupada,
         UNCHANGED <<pedidos, cpu, tamanio>>,
         \/ \E m \in Mensajes : respuestas' = respuestas \o <<m>>
         \/ \E m, n \in Mensajes : /\ mem.pc # "busca_marco" /\ n.tipo = "PEDIDO_OK"
                                   /\ respuestas' = respuestas \o <<m, n>>
  PROVE  Turno'
<1>1. /\ pedidos = <<>> /\ cpu.pc \in {IF mem.pc = "busca_marco" THEN "marco" ELSE "resize", "trabada"}
      /\ cpu.pc # "trabada" => respuestas = <<>>
  BY SocketsVacios
<1>2. EnTurno' /\ EnCurso' /\ ~Pendiente'
  BY <1>1 DEF EnTurno, EnCurso, Pendiente
<1>3. ASSUME cpu.pc # "trabada" PROVE UnaRespuesta'
  <2>1. \/ \E m \in Mensajes : respuestas' = <<m>>
        \/ /\ cpu.pc = "resize"
           /\ \E m, n \in Mensajes : n.tipo = "PEDIDO_OK" /\ respuestas' = <<m, n>>
    <3>1. respuestas = <<>> /\ (mem.pc # "busca_marco" => cpu.pc = "resize")
      BY <1>1, <1>3
    <3>2. ASSUME NEW m \in Mensajes PROVE respuestas \o <<m>> = <<m>>
      BY <3>1, ConcatEmptySeq
    <3>3. ASSUME NEW m \in Mensajes, NEW n \in Mensajes PROVE respuestas \o <<m, n>> = <<m, n>>
      <4>1. <<m, n>> \in Seq(Mensajes)
        OBVIOUS
      <4> QED BY <3>1, <4>1, ConcatEmptySeq
    <3> QED BY <3>1, <3>2, <3>3
  <2>2. cpu'.pc = cpu.pc /\ cpu.pc \in {"marco", "resize"}
    BY <1>1, <1>3
  <2>3. CASE \E m \in Mensajes : respuestas' = <<m>>
    <3>1. Len(respuestas') = 1 /\ \A k \in 2..1 : FALSE
      BY <2>3
    <3> QED BY <1>2, <2>2, <3>1 DEF UnaRespuesta, SonSobras
  <2>4. CASE cpu.pc = "resize" /\ \E m, n \in Mensajes : n.tipo = "PEDIDO_OK" /\ respuestas' = <<m, n>>
    <3>1. Len(respuestas') = 2 /\ respuestas'[2].tipo = "PEDIDO_OK" /\ \A k \in 2..2 : k = 2
      BY <2>4
    <3> QED BY <1>2, <2>2, <2>4, <3>1 DEF UnaRespuesta, SonSobras
  <2> QED BY <2>1, <2>3, <2>4
<1>4. ASSUME cpu.pc = "trabada" PROVE UnaRespuesta'
  BY <1>4 DEF UnaRespuesta
<1> QED BY <1>2, <1>3, <1>4 DEF Turno

\* t is the queue s without its first element.
SinElPrimero(s, t) ==
  /\ Len(s) \in Nat \ {0} /\ Len(t) = Len(s) - 1
  /\ \A k \in 1..Len(t) : k + 1 \in 1..Len(s) /\ t[k] = s[k + 1]
  /\ Len(s) = 1 => t = <<>>

LEMMA QuitaElPrimero ==
  ASSUME NEW S, NEW s \in Seq(S), s # <<>>
  PROVE  SinElPrimero(s, Tail(s)) /\ Head(s) = s[1]
<1>1. PICK t \in Seq(S) : t = Tail(s)
  BY MensajeRecibido
<1>2. /\ Len(s) \in Nat \ {0} /\ Len(t) = Len(s) - 1 /\ Head(s) = s[1]
      /\ \A j \in 1..(Len(s) - 1) : t[j] = s[j + 1]
  BY <1>1, MensajeRecibido
<1>3. SinElPrimero(s, t)
  BY <1>2 DEF SinElPrimero
<1> QED BY <1>1, <1>2, <1>3

\* A request that is taken from the socket: a write has no answer; any other
\* is the last one.
LEMMA TurnoToma ==
  ASSUME TypeOK, Turno, SinElPrimero(pedidos, pedidos'), UNCHANGED <<cpu, tamanio>>
  PROVE  /\ pedidos[1].tipo = "escribe" /\ UNCHANGED <<mem, respuestas>> => Turno'
         /\ pedidos[1].tipo # "escribe" =>
              /\ pedidos' = <<>> /\ mem.pc \notin Ocupada /\ Pendiente
              /\ Atiende(pedidos[1].tipo, pedidos[1].pid, pedidos[1].nro)
<1>1. /\ Len(pedidos) \in Nat \ {0} /\ Len(pedidos') = Len(pedidos) - 1
      /\ \A k \in 1..Len(pedidos') : k + 1 \in 1..Len(pedidos) /\ pedidos'[k] = pedidos[k + 1]
      /\ Len(pedidos) = 1 => pedidos' = <<>>
  BY DEF SinElPrimero
<1>2. ASSUME pedidos[1].tipo = "escribe", UNCHANGED <<mem, respuestas>> PROVE Turno'
  <2>1. EnTurno'
    <3> SUFFICES ASSUME NEW k \in 1..Len(pedidos'), pedidos'[k].tipo # "escribe"
                 PROVE  /\ k = Len(pedidos') /\ mem'.pc \notin Ocupada
                        /\ Atiende(pedidos[k].tipo, pedidos[k].pid, pedidos[k].nro)'
      BY DEF EnTurno
    <3>1. k + 1 \in 1..Len(pedidos) /\ pedidos'[k] = pedidos[k + 1]
      BY <1>1
    <3>2. /\ k + 1 = Len(pedidos) /\ mem.pc \notin Ocupada
          /\ Atiende(pedidos[k + 1].tipo, pedidos[k + 1].pid, pedidos[k + 1].nro)
      BY <3>1 DEF Turno, EnTurno
    <3>3. k = Len(pedidos') /\ mem'.pc \notin Ocupada
      <4>1. k \in Nat /\ k + 1 = Len(pedidos) /\ Len(pedidos') = Len(pedidos) - 1
        BY <1>1, <3>2
      <4> QED BY <1>2, <3>2, <4>1
    <3>4. PICK m : m = pedidos'[k] /\ m = pedidos[k + 1]
      BY <3>1
    <3>5. Atiende(m.tipo, m.pid, m.nro)
      BY <3>2, <3>4
    <3>6. Atiende(m.tipo, m.pid, m.nro)'
      BY <3>5 DEF Atiende
    <3> QED BY <3>3, <3>4, <3>6
  <2>2. EnCurso'
    <3>1. pedidos # <<>>
      BY <1>1, EmptySeq
    <3> QED BY <1>2, <3>1 DEF Turno, EnCurso
  <2>3. Pendiente' => Pendiente
    BY <1>1, <1>2 DEF Pendiente
  <2>4. UnaRespuesta'
    BY <1>2, <2>3 DEF Turno, UnaRespuesta, SonSobras
  <2> QED BY <2>1, <2>2, <2>4 DEF Turno
<1>3. ASSUME pedidos[1].tipo # "escribe"
      PROVE  /\ pedidos' = <<>> /\ mem.pc \notin Ocupada /\ Pendiente
             /\ Atiende(pedidos[1].tipo, pedidos[1].pid, pedidos[1].nro)
  <2>1. 1 \in 1..Len(pedidos)
    BY <1>1
  <2>2. /\ 1 = Len(pedidos) /\ mem.pc \notin Ocupada
        /\ Atiende(pedidos[1].tipo, pedidos[1].pid, pedidos[1].nro)
    BY <1>1, <1>3, <2>1 DEF Turno, EnTurno
  <2>3. Pendiente
    BY <1>1, <1>3, <2>1 DEF Pendiente
  <2>4. pedidos' = <<>>
    BY <1>1, <2>2
  <2> QED BY <1>1, <2>2, <2>3, <2>4
<1> QED BY <1>2, <1>3

\* A request that is answered when it is taken: the instruction, if the process is
\* there, or what MOV_IN reads.
LEMMA TurnoContesta ==
  ASSUME TypeOK, Turno, SinElPrimero(pedidos, pedidos'), UNCHANGED <<cpu, tamanio, mem>>,
         pedidos[1].tipo \in {"instruccion", "lee"},
         \/ respuestas' = respuestas
         \/ \E m \in Mensajes : respuestas' = respuestas \o <<m>>
  PROVE  Turno'
<1>1. /\ pedidos' = <<>> /\ mem.pc \notin Ocupada /\ Pendiente
      /\ cpu.pc \in {"instruccion", "dato", "trabada"}
  BY TurnoToma DEF Atiende
<1>2. EnTurno' /\ EnCurso' /\ ~Pendiente'
  <2>1. mem'.pc \notin Ocupada
    BY <1>1
  <2>2. Len(pedidos') = 0
    BY <1>1, Zenon, EmptySeq
  <2>3. \A k \in 1..Len(pedidos') : FALSE
    BY <2>2
  <2> QED BY <2>1, <2>3 DEF EnTurno, EnCurso, Pendiente
<1>3. respuestas \in Seq(Mensajes) /\ Len(respuestas) \in Nat
  BY DEF TypeOK, TipoMensajes
<1>4. /\ cpu.pc = "dato" => respuestas = <<>>
      /\ cpu.pc = "instruccion" => SonSobras(1)
  BY <1>1 DEF Turno, UnaRespuesta, SonSobras
<1>5. CASE respuestas' = respuestas
  BY <1>1, <1>2, <1>3, <1>4, <1>5 DEF Turno, UnaRespuesta, SonSobras
<1>6. CASE \E m \in Mensajes : respuestas' = respuestas \o <<m>>
  <2>1. PICK m \in Mensajes : respuestas' = Append(respuestas, m)
    BY <1>3, <1>6, Enviado
  <2>2. Len(respuestas') = Len(respuestas) + 1 /\ \A k \in 1..Len(respuestas) : respuestas'[k] = respuestas[k]
    BY <1>3, <2>1, Enviado
  <2>3. \A k \in 1..Len(respuestas') : k = Len(respuestas') \/ k \in 1..Len(respuestas)
    BY <1>3, <2>2
  <2>4. ASSUME cpu.pc = "instruccion" PROVE UnaRespuesta'
    BY <1>2, <1>4, <2>2, <2>3, <2>4 DEF UnaRespuesta, SonSobras
  <2>5. ASSUME cpu.pc = "dato" PROVE UnaRespuesta'
    <3>1. Len(respuestas) = 0
      BY <1>4, <2>5
    <3> QED BY <1>2, <2>2, <2>5, <3>1 DEF UnaRespuesta, SonSobras
  <2>6. ASSUME cpu.pc = "trabada" PROVE UnaRespuesta'
    BY <2>6 DEF UnaRespuesta
  <2> QED BY <1>1, <1>2, <2>4, <2>5, <2>6 DEF Turno
<1> QED BY <1>2, <1>5, <1>6 DEF Turno

\* NUMERO_MARCO_SOLICITUD and RESIZE_SOLICITUD: what Memoria is busy with is
\* what the CPU waits for.
LEMMA TurnoBusca ==
  ASSUME TypeOK, TipoCruzado, Turno, EmpiezaBusqueda
  PROVE  Turno'
<1>1. PICK tipo \in {"marco", "resize"} :
        /\ pedidos # <<>> /\ Head(pedidos).tipo = tipo /\ pedidos' = Tail(pedidos)
        /\ mem' = [mem EXCEPT !.pc = IF tipo = "marco" THEN "busca_marco" ELSE "busca_resize",
                              !.pid = Head(pedidos).pid, !.nro = Head(pedidos).nro, !.i = 0]
        /\ UNCHANGED <<cpu, tamanio, respuestas>>
  BY DEF EmpiezaBusqueda, Recibe, estadoCpu
<1>2. SinElPrimero(pedidos, pedidos') /\ Head(pedidos) = pedidos[1]
  BY <1>1, QuitaElPrimero DEF TypeOK, TipoMensajes
<1>3. /\ pedidos' = <<>> /\ Pendiente
      /\ Atiende(tipo, Head(pedidos).pid, Head(pedidos).nro)
  BY <1>1, <1>2, TurnoToma
<1>4. PICK p, n : p = Head(pedidos).pid /\ n = Head(pedidos).nro
  OBVIOUS
<1>5. /\ mem'.pc = (IF tipo = "marco" THEN "busca_marco" ELSE "busca_resize")
      /\ mem'.pid = p /\ mem'.nro = n
  BY <1>1, <1>4 DEF TypeOK, TipoMemoria, LocalesMem
<1>6. Atiende(tipo, p, n)'
  BY <1>1, <1>3, <1>4 DEF Atiende
<1>7. (IF mem'.pc = "busca_marco" THEN "marco" ELSE "resize") = tipo
  BY <1>5
<1>8. EnCurso'
  BY <1>3, <1>5, <1>6, <1>7 DEF EnCurso
<1>9. EnTurno'
  <2>1. Len(pedidos') = 0
    BY <1>3, EmptySeq, Zenon
  <2>2. \A k \in 1..Len(pedidos') : FALSE
    <3>1. \A k \in 1..0 : FALSE
      OBVIOUS
    <3> QED BY <2>1, <3>1, Zenon
  <2> QED BY <2>2 DEF EnTurno
<1>10. UnaRespuesta'
  <2>1. cpu.pc \in {"marco", "resize", "trabada"} /\ (cpu.pc # "trabada" => respuestas = <<>>)
    BY <1>3 DEF Atiende, Turno, UnaRespuesta
  <2>2. cpu' = cpu /\ respuestas' = respuestas
    BY <1>1
  <2> QED BY <2>1, <2>2 DEF Turno, UnaRespuesta, SonSobras
<1> QED BY <1>8, <1>9, <1>10 DEF Turno

\* Nobody waits for an answer to what is in s.
SoloEscribe(s) == \A k \in 1..Len(s) : s[k].tipo = "escribe"

LEMMA NadaPendiente == ~Pendiente <=> mem.pc \notin Ocupada /\ SoloEscribe(pedidos)
BY DEF Pendiente, SoloEscribe

\* The CPU sends a request, behind writes at most, and waits for its answer.
LEMMA TurnoPide ==
  ASSUME NEW s \in Seq(Pedidos), SoloEscribe(s), NEW r \in Pedidos, r.tipo # "escribe",
         pedidos' = Append(s, r), mem'.pc \notin Ocupada,
         Atiende(r.tipo, r.pid, r.nro)', cpu'.pc # "trabada",
         SonSobras(1)', r.tipo # "instruccion" => respuestas' = <<>>
  PROVE  Turno'
<1>1. /\ Len(s) \in Nat /\ Len(pedidos') = Len(s) + 1 /\ pedidos'[Len(s) + 1] = r
      /\ \A k \in 1..Len(s) : pedidos'[k] = s[k]
  BY Enviado
<1>2. EnTurno'
  <2> SUFFICES ASSUME NEW k \in 1..Len(pedidos'), pedidos'[k].tipo # "escribe"
               PROVE  /\ k = Len(pedidos') /\ mem'.pc \notin Ocupada
                      /\ Atiende(pedidos[k].tipo, pedidos[k].pid, pedidos[k].nro)'
    BY DEF EnTurno
  <2>1. k \notin 1..Len(s)
    BY <1>1 DEF SoloEscribe
  <2>2. k = Len(pedidos') /\ pedidos'[k] = r
    BY <1>1, <2>1
  <2> QED BY <2>2
<1>3. EnCurso'
  BY DEF EnCurso
<1>4. cpu'.pc = (IF r.tipo = "lee" THEN "dato" ELSE r.tipo)
      /\ r.tipo \in {"instruccion", "marco", "resize", "lee"}
  BY DEF Atiende, Pedidos
<1>5. UnaRespuesta'
  <2>1. cpu'.pc = "instruccion" => r.tipo = "instruccion"
    BY <1>4
  <2>2. cpu'.pc \in {"instruccion", "resize", "marco", "dato"}
    BY <1>4
  <2>3. cpu'.pc # "instruccion" => respuestas' = <<>> /\ Len(respuestas') = 0
    BY <1>4, EmptySeq
  <2> QED BY <2>2, <2>3 DEF UnaRespuesta, SonSobras
<1> QED BY <1>2, <1>3, <1>5 DEF Turno

\* The CPU waits for nothing.
LEMMA TurnoDescansa ==
  ASSUME SoloEscribe(pedidos'), mem'.pc \notin Ocupada,
         \/ cpu'.pc = "libre" /\ SonSobras(1)'
         \/ cpu'.pc \in {"decodifica", "accede", "continua"} /\ respuestas' = <<>>
  PROVE  Turno'
<1>1. EnTurno' /\ EnCurso' /\ ~Pendiente'
  BY DEF SoloEscribe, EnTurno, EnCurso, Pendiente
<1>2. UnaRespuesta'
  BY <1>1 DEF UnaRespuesta
<1> QED BY <1>1, <1>2 DEF Turno

\* recibir_buffer reads a code as a size: the CPU waits for ever.
LEMMA TurnoTraba ==
  ASSUME TypeOK, Turno, CpuSeTraba
  PROVE  Turno'
<1>1. /\ cpu'.pc = "trabada" /\ cpu'.pid = cpu.pid /\ cpu'.nro = cpu.nro
      /\ UNCHANGED <<mem, tamanio, pedidos>>
  BY DEF CpuSeTraba, TypeOK, TipoCpu, LocalesCpu, memoria
<1>2. ASSUME NEW t, NEW p, NEW n, Atiende(t, p, n) PROVE Atiende(t, p, n)'
  BY <1>1, <1>2 DEF Atiende
<1>3. EnTurno'
  <2> SUFFICES ASSUME NEW k \in 1..Len(pedidos), pedidos[k].tipo # "escribe"
               PROVE  /\ k = Len(pedidos) /\ mem.pc \notin Ocupada
                      /\ Atiende(pedidos[k].tipo, pedidos[k].pid, pedidos[k].nro)'
    BY <1>1 DEF EnTurno
  <2>1. PICK m : m = pedidos[k]
    OBVIOUS
  <2>2. k = Len(pedidos) /\ mem.pc \notin Ocupada /\ Atiende(m.tipo, m.pid, m.nro)
    BY <2>1 DEF Turno, EnTurno
  <2>3. Atiende(m.tipo, m.pid, m.nro)'
    BY <1>2, <2>2
  <2> QED BY <1>1, <2>1, <2>2, <2>3
<1>4. EnCurso'
  <2> SUFFICES ASSUME mem.pc \in Ocupada
               PROVE  pedidos = <<>> /\ Atiende(IF mem.pc = "busca_marco" THEN "marco" ELSE "resize", mem.pid, mem.nro)'
    BY <1>1 DEF EnCurso
  <2>1. PICK t, p, n : t = (IF mem.pc = "busca_marco" THEN "marco" ELSE "resize") /\ p = mem.pid /\ n = mem.nro
    OBVIOUS
  <2>2. pedidos = <<>> /\ Atiende(t, p, n)
    BY <2>1 DEF Turno, EnCurso
  <2>3. Atiende(t, p, n)'
    BY <1>2, <2>2
  <2> QED BY <1>1, <2>1, <2>2, <2>3
<1>5. UnaRespuesta'
  BY <1>1 DEF UnaRespuesta
<1> QED BY <1>3, <1>4, <1>5 DEF Turno

\* The steps of Memoria keep the turn.
LEMMA TurnoMemoria ==
  ASSUME TypeOK, TipoCruzado, Turno, AtenderCpu
  PROVE  Turno'
<1>0. mem \in LocalesMem /\ pedidos \in Seq(Pedidos) /\ respuestas \in Seq(Mensajes)
  BY DEF TypeOK, TipoMemoria, TipoMensajes
<1>t. /\ Inactiva.pc \notin Ocupada
      /\ \A c : [mem EXCEPT !.pc = c].pc = c
      /\ \A n : /\ [mem EXCEPT !.i = n].pid = mem.pid /\ [mem EXCEPT !.i = n].pc = mem.pc
                /\ [mem EXCEPT !.i = n].nro = mem.nro
      /\ \A c, n : /\ [mem EXCEPT !.pc = c, !.faltan = n].pc = c
                   /\ [mem EXCEPT !.pc = c, !.faltan = n].pid = mem.pid
                   /\ [mem EXCEPT !.pc = c, !.faltan = n].nro = mem.nro
      /\ \A c, n, f : /\ [mem EXCEPT !.pc = c, !.i = n, !.marco = f].pc = c
                      /\ [mem EXCEPT !.pc = c, !.i = n, !.marco = f].pid = mem.pid
                      /\ [mem EXCEPT !.pc = c, !.i = n, !.marco = f].nro = mem.nro
      /\ \A c, n, f : /\ [mem EXCEPT !.pc = c, !.faltan = n, !.marco = f].pc = c
                      /\ [mem EXCEPT !.pc = c, !.faltan = n, !.marco = f].pid = mem.pid
                      /\ [mem EXCEPT !.pc = c, !.faltan = n, !.marco = f].nro = mem.nro
  BY <1>0, PuntosDeMem DEF LocalesMem, Inactiva
<1>r. cpu' = cpu /\ tamanio' = tamanio
  BY PasosAjenos DEF estadoCpu
<1>1. CASE EnviarInstruccion
  <2>1. /\ pedidos # <<>> /\ Head(pedidos).tipo = "instruccion" /\ pedidos' = Tail(pedidos)
        /\ mem' = mem
    BY <1>1 DEF EnviarInstruccion, Recibe, memoria
  <2>2. respuestas' = respuestas \/ \E m \in Mensajes : respuestas' = respuestas \o <<m>>
    <3>1. respuestas \o <<>> = respuestas
      BY <1>0, SocketCpu
    <3> QED BY <1>1, <3>1, SonMensajes DEF EnviarInstruccion, Responde
  <2>3. SinElPrimero(pedidos, pedidos') /\ Head(pedidos) = pedidos[1]
    BY <1>0, <2>1, QuitaElPrimero
  <2> QED BY <1>r, <2>1, <2>2, <2>3, TurnoContesta
<1>2. CASE LeerFisica
  <2>1. /\ pedidos # <<>> /\ Head(pedidos).tipo = "lee" /\ pedidos' = Tail(pedidos)
        /\ mem' = mem
    BY <1>2 DEF LeerFisica, Recibe, memoria
  <2>2. \E m \in Mensajes : respuestas' = respuestas \o <<m>>
    BY <1>2, SonMensajes DEF LeerFisica, Responde
  <2>3. SinElPrimero(pedidos, pedidos') /\ Head(pedidos) = pedidos[1]
    BY <1>0, <2>1, QuitaElPrimero
  <2> QED BY <1>r, <2>1, <2>2, <2>3, TurnoContesta
<1>3. CASE EscribirFisica
  <2>1. /\ pedidos # <<>> /\ Head(pedidos).tipo = "escribe" /\ pedidos' = Tail(pedidos)
        /\ mem' = mem /\ respuestas' = respuestas
    BY <1>3 DEF EscribirFisica, Recibe, memoria
  <2>2. SinElPrimero(pedidos, pedidos') /\ Head(pedidos) = pedidos[1]
    BY <1>0, <2>1, QuitaElPrimero
  <2> QED BY <1>r, <2>1, <2>2, TurnoToma
<1>4. CASE BuscarSiguiente
  <2>1. UNCHANGED <<pedidos, respuestas>> /\ mem'.pc = mem.pc /\ mem'.pid = mem.pid /\ mem'.nro = mem.nro
    BY <1>4, <1>t DEF BuscarSiguiente, SinCpu
  <2> QED BY <1>r, <2>1, TurnoInterno
<1>5. CASE BuscarNulo \/ CrearSinMarco
  <2>1. UNCHANGED <<pedidos, respuestas>> /\ mem'.pc = "caida"
    BY <1>5, <1>t DEF BuscarNulo, CrearSinMarco, EnMemoria, SinCpu
  <2> QED BY <1>r, <2>1, TurnoInterno, PuntosDeMem
<1>6. CASE ResizeAmplia \/ CrearPagina \/ AgregarPagina
  <2>1. /\ UNCHANGED <<pedidos, respuestas>> /\ mem'.pid = mem.pid /\ mem'.nro = mem.nro
        /\ mem.pc \in {"busca_resize", "crea", "busca_crea"} /\ mem'.pc \in {"crea", "busca_crea"}
    <3>1. CASE ResizeAmplia
      BY <1>t, <3>1 DEF ResizeAmplia, SinCpu
    <3>2. CASE CrearPagina
      BY <1>t, <3>2 DEF CrearPagina, SinCpu
    <3>3. CASE AgregarPagina
      BY <1>t, <3>3 DEF AgregarPagina, SinCpu
    <3> QED BY <1>6, <3>1, <3>2, <3>3
  <2>2. mem.pc \in Ocupada \ {"busca_marco"} /\ mem'.pc \in Ocupada \ {"busca_marco"}
    BY <2>1, PuntosDeMem
  <2> QED BY <1>r, <2>1, <2>2, TurnoInterno
<1>7. CASE DevolverNroMarco
  <2>1. pedidos' = pedidos /\ mem.pc = "busca_marco"
    BY <1>7 DEF DevolverNroMarco
  <2>2. CASE mem.nro < Len(tabla)
    <3>1. tabla \in Seq(Marcos) /\ mem.nro \in Nat
      BY <1>0, <1>7, EncontradoConocido DEF DevolverNroMarco, LocalesMem
    <3>2. Buffer("marco", tabla[mem.nro + 1]) \in Mensajes
      <4>1. tabla[mem.nro + 1] \in Marcos
        BY <2>2, <3>1
      <4> QED BY <4>1, SonMensajes
    <3>3. respuestas' = respuestas \o <<Buffer("marco", tabla[mem.nro + 1])>> /\ mem' = Inactiva
      BY <1>7, <2>2 DEF DevolverNroMarco, Responde
    <3> QED BY <1>r, <1>t, <2>1, <3>2, <3>3, TurnoResponde, PuntosDeMem
  <2>3. CASE ~(mem.nro < Len(tabla))
    <3>1. respuestas' = respuestas /\ mem'.pc = "caida"
      BY <1>7, <1>t, <2>3 DEF DevolverNroMarco
    <3> QED BY <1>r, <2>1, <3>1, TurnoInterno, PuntosDeMem
  <2> QED BY <2>2, <2>3
<1>8. CASE ResizeIgual \/ ResizeReduce \/ ResizeAmpliado
  <2>1. /\ pedidos' = pedidos /\ mem.pc \in {"busca_resize", "crea"}
        /\ mem' = Inactiva \/ mem' = [mem EXCEPT !.pc = "terminado"]
        /\ respuestas' = respuestas \o <<Codigo("PEDIDO_OK")>>
    BY <1>8 DEF ResizeIgual, ResizeReduce, ResizeAmpliado, EnMemoria, Responde
  <2>2. mem'.pc \notin Ocupada /\ mem.pc \in Ocupada
    <3>1. mem'.pc = Inactiva.pc \/ mem'.pc = "terminado"
      BY <1>t, <2>1
    <3> QED BY <1>t, <2>1, <3>1, PuntosDeMem
  <2> QED BY <1>r, <2>1, <2>2, TurnoResponde, SonMensajes
<1>9. CASE ResizeSinMemoria
  <2> DEFINE a == Codigo("ERROR_OUT_OF_MEMORY")
             b == Codigo("PEDIDO_OK")
  <2>1. pedidos' = pedidos /\ mem.pc = "busca_resize" /\ mem' = Inactiva /\ respuestas' = respuestas \o <<a, b>>
    BY <1>9 DEF ResizeSinMemoria, Responde
  <2>2. a \in Mensajes /\ b \in Mensajes /\ b.tipo = "PEDIDO_OK"
    BY SonMensajes
  <2> HIDE DEF a, b
  <2> QED BY <1>r, <1>t, <2>1, <2>2, TurnoResponde, PuntosDeMem
<1> QED BY <1>1, <1>2, <1>3, <1>4, <1>5, <1>6, <1>7, <1>8, <1>9, TurnoBusca DEF AtenderCpu

\* What an answer finds: the CPU was owed nothing else, and what is left are
\* codes to spare.
LEMMA TurnoLee ==
  ASSUME TypeOK, Turno, respuestas # <<>>, respuestas' = Tail(respuestas),
         \/ cpu.pc \in {"resize", "marco", "dato"}
         \/ cpu.pc = "instruccion" /\ Head(respuestas).tipo # "PEDIDO_OK"
  PROVE  /\ mem.pc \notin Ocupada /\ SoloEscribe(pedidos) /\ SonSobras(1)'
         /\ cpu.pc # "resize" => respuestas' = <<>>
<1>1. SinElPrimero(respuestas, respuestas') /\ Head(respuestas) = respuestas[1]
  BY QuitaElPrimero DEF TypeOK, TipoMensajes
<1>2. PICK s : s = respuestas'
  OBVIOUS
<1>3. /\ Len(respuestas) \in Nat \ {0} /\ Len(s) = Len(respuestas) - 1
      /\ \A k \in 1..Len(s) : k + 1 \in 1..Len(respuestas) /\ s[k] = respuestas[k + 1]
      /\ Len(respuestas) = 1 => s = <<>>
  BY <1>1, <1>2 DEF SinElPrimero
<1>4. CASE cpu.pc = "resize"
  <2>1. ~Pendiente /\ SonSobras(2)
    BY <1>4 DEF Turno, UnaRespuesta
  <2>2. \A k \in 1..Len(s) : s[k].tipo = "PEDIDO_OK"
    BY <1>3, <2>1 DEF SonSobras
  <2> QED BY <1>2, <1>4, <2>1, <2>2, NadaPendiente DEF SonSobras
<1>5. CASE cpu.pc # "resize"
  <2>1. ~Pendiente /\ Len(respuestas) = 1
    <3>1. CASE cpu.pc \in {"marco", "dato"}
      BY <1>3, <3>1 DEF Turno, UnaRespuesta
    <3>2. CASE cpu.pc = "instruccion" /\ respuestas[1].tipo # "PEDIDO_OK"
      <4>1. 1 \in 1..Len(respuestas)
        BY <1>3
      <4> QED BY <3>2, <4>1 DEF Turno, UnaRespuesta
    <3> QED BY <1>1, <1>5, <3>1, <3>2
  <2>2. s = <<>> /\ Len(s) = 0
    BY <1>3, <2>1, EmptySeq
  <2>3. \A k \in 1..Len(s) : s[k].tipo = "PEDIDO_OK"
    BY <2>2
  <2> QED BY <1>2, <2>1, <2>2, <2>3, NadaPendiente DEF SonSobras
<1> QED BY <1>4, <1>5

\* The steps of the CPU keep the turn.
LEMMA TurnoCpu ==
  ASSUME TypeOK, TipoCruzado, Turno, Cpu \/ \E p \in Pids : CpuEmpieza(p)
  PROVE  Turno'
<1>0. /\ pedidos \in Seq(Pedidos) /\ respuestas \in Seq(Mensajes) /\ CpuTipada(cpu)
      /\ cpu \in LocalesCpu /\ tamanio \in [Pids -> Nat]
  BY DEF TypeOK, TipoMensajes, TipoCpu, TipoCruzado
<1>t. /\ cpu.nro \in Nat /\ cpu.marco \in Marcos \cup {Nulo} /\ CpuOciosa.pc = "libre"
      /\ cpu.pc # "libre" => cpu.pid \in Pids
      /\ \A c : [cpu EXCEPT !.pc = c].pc = c /\ [cpu EXCEPT !.pc = c].pid = cpu.pid
      /\ \A c, p : [cpu EXCEPT !.pc = c, !.pid = p].pc = c /\ [cpu EXCEPT !.pc = c, !.pid = p].pid = p
      /\ \A c, n : /\ [cpu EXCEPT !.pc = c, !.nro = n].pc = c /\ [cpu EXCEPT !.pc = c, !.nro = n].nro = n
                   /\ [cpu EXCEPT !.pc = c, !.nro = n].pid = cpu.pid
      /\ \A c, f : [cpu EXCEPT !.pc = c, !.marco = f].pc = c
      /\ \A c, n, f : [cpu EXCEPT !.pc = c, !.nro = n, !.marco = f].pc = c
  BY <1>0 DEF LocalesCpu, CpuTipada, CpuOciosa
<1>m. mem' = mem
  BY PasosAjenos DEF memoria
<1>p. \A t, p, n, f : /\ Pedido(t, p, n, f).tipo = t /\ Pedido(t, p, n, f).pid = p
                      /\ Pedido(t, p, n, f).nro = n
                      /\ Fetch(p).tipo = "instruccion" /\ Fetch(p).pid = p
  BY DEF Pedido, Fetch
\* What the CPU was waiting for, before and after.
<1>d. ASSUME cpu.pc \in {"decodifica", "accede", "continua"}
      PROVE  mem'.pc \notin Ocupada /\ SoloEscribe(pedidos) /\ respuestas = <<>> /\ SonSobras(1)
  <2>1. ~Pendiente /\ respuestas = <<>>
    BY <1>d DEF Turno, UnaRespuesta
  <2>2. Len(respuestas) = 0
    BY <2>1, EmptySeq
  <2> QED BY <1>m, <2>1, <2>2, NadaPendiente DEF SonSobras
<1>f. ASSUME NEW p \in Pids, NEW s \in Seq(Pedidos), SoloEscribe(s), pedidos' = Append(s, Fetch(p)),
             mem'.pc \notin Ocupada, cpu'.pc = "instruccion", cpu'.pid = p, SonSobras(1)'
      PROVE  Turno'
  <2>1. PICK r \in Pedidos : r = Fetch(p) /\ r.tipo = "instruccion" /\ r.pid = p
    BY <1>p, SonPedidos
  <2>2. Atiende(r.tipo, r.pid, r.nro)'
    BY <1>f, <2>1 DEF Atiende
  <2> QED BY <1>f, <2>1, <2>2, TurnoPide
<1>1. CASE \E p \in Pids : CpuEmpieza(p)
  <2>1. PICK p \in Pids : CpuEmpieza(p)
    BY <1>1
  <2>2. mem.pc \notin Ocupada /\ SoloEscribe(pedidos) /\ SonSobras(1)
    BY <2>1, NadaPendiente DEF CpuEmpieza, Turno, UnaRespuesta
  <2>3. SonSobras(1)'
    BY <2>1, <2>2 DEF CpuEmpieza, SonSobras
  <2>4. cpu'.pc = "instruccion" /\ cpu'.pid = p /\ pedidos' = Append(pedidos, Fetch(p))
    <3>1. cpu' = [cpu EXCEPT !.pc = "instruccion", !.pid = p] /\ pedidos' = Append(pedidos, Fetch(p))
      BY <2>1 DEF CpuEmpieza
    <3> QED BY <1>t, <3>1
  <2> QED BY <1>0, <1>f, <1>m, <2>2, <2>3, <2>4
<1>2. CASE CpuDevuelve
  <2>1. cpu.pc = "decodifica" /\ cpu' = CpuOciosa /\ UNCHANGED <<respuestas, pedidos>>
    BY <1>2 DEF CpuDevuelve
  <2>2. SoloEscribe(pedidos') /\ SonSobras(1)' /\ mem'.pc \notin Ocupada
    BY <1>d, <2>1 DEF SonSobras
  <2> QED BY <1>t, <2>1, <2>2, TurnoDescansa
<1>3. CASE CpuRecibeInstruccion
  <2>1. /\ cpu.pc = "instruccion" /\ cpu'.pc = "decodifica" /\ pedidos' = pedidos
        /\ respuestas # <<>> /\ Head(respuestas).tipo = "instruccion" /\ respuestas' = Tail(respuestas)
    BY <1>3, <1>t DEF CpuRecibeInstruccion, EnCpu, RecibeBuffer
  <2>2. mem.pc \notin Ocupada /\ SoloEscribe(pedidos) /\ respuestas' = <<>>
    BY <2>1, TurnoLee
  <2> QED BY <1>m, <2>1, <2>2, TurnoDescansa
<1>4. CASE CpuRecibeResize
  <2>1. cpu.pc = "resize" /\ respuestas # <<>> /\ respuestas' = Tail(respuestas)
    BY <1>4 DEF CpuRecibeResize
  <2>2. mem'.pc \notin Ocupada /\ SoloEscribe(pedidos) /\ SonSobras(1)'
    BY <1>m, <2>1, TurnoLee
  <2>3. CASE Head(respuestas).tipo = "ERROR_OUT_OF_MEMORY"
    <3>1. cpu'.pc = "libre" /\ pedidos' = pedidos
      BY <1>4, <1>t, <2>3 DEF CpuRecibeResize
    <3> QED BY <2>2, <3>1, TurnoDescansa
  <2>4. CASE Head(respuestas).tipo # "ERROR_OUT_OF_MEMORY"
    <3>1. cpu'.pc = "instruccion" /\ cpu'.pid = cpu.pid /\ pedidos' = Append(pedidos, Fetch(cpu.pid))
      <4>1. cpu' = [cpu EXCEPT !.pc = "instruccion"] /\ pedidos' = Append(pedidos, Fetch(cpu.pid))
        BY <1>4, <2>4 DEF CpuRecibeResize
      <4> QED BY <1>t, <4>1
    <3> QED BY <1>0, <1>f, <1>t, <2>1, <2>2, <3>1
  <2> QED BY <2>3, <2>4
<1>5. CASE CpuRecibeMarco
  <2>1. /\ cpu.pc = "marco" /\ cpu'.pc = "accede" /\ pedidos' = pedidos
        /\ respuestas # <<>> /\ respuestas' = Tail(respuestas)
    BY <1>5, <1>t DEF CpuRecibeMarco, RecibeBuffer
  <2>2. mem'.pc \notin Ocupada /\ SoloEscribe(pedidos) /\ respuestas' = <<>>
    BY <1>m, <2>1, TurnoLee
  <2> QED BY <2>1, <2>2, TurnoDescansa
<1>6. CASE CpuRecibeDato
  <2>1. cpu.pc = "dato" /\ respuestas # <<>> /\ respuestas' = Tail(respuestas)
    BY <1>6 DEF CpuRecibeDato, RecibeBuffer
  <2>2. mem'.pc \notin Ocupada /\ SoloEscribe(pedidos) /\ respuestas' = <<>> /\ SonSobras(1)'
    BY <1>m, <2>1, TurnoLee
  <2>3. CASE cpu' = [cpu EXCEPT !.pc = "continua"] /\ pedidos' = pedidos
    BY <1>t, <2>2, <2>3, TurnoDescansa
  <2>4. CASE cpu' = [cpu EXCEPT !.pc = "instruccion"] /\ pedidos' = Append(pedidos, Fetch(cpu.pid))
    BY <1>0, <1>f, <1>t, <2>1, <2>2, <2>4
  <2> QED BY <1>6, <2>3, <2>4 DEF CpuRecibeDato
<1>7. CASE \E t \in Tamanios : EjecutarResize(t)
  <2>1. PICK t \in Tamanios : EjecutarResize(t)
    BY <1>7
  <2>2. /\ cpu.pc = "decodifica" /\ cpu'.pc = "resize" /\ cpu'.pid = cpu.pid /\ respuestas' = respuestas
        /\ tamanio' = [tamanio EXCEPT ![cpu.pid] = t] /\ t \in Nat
        /\ pedidos' = Append(pedidos, Pedido("resize", cpu.pid, t, Nulo))
    BY <1>t, <2>1, TamaniosAssumption DEF EjecutarResize, EnCpu, Pide
  <2>3. PICK r \in Pedidos : /\ r = Pedido("resize", cpu.pid, t, Nulo)
                             /\ r.tipo = "resize" /\ r.pid = cpu.pid /\ r.nro = t
    BY <1>p, <1>t, <2>2, SonPedidos
  <2>4. Atiende(r.tipo, r.pid, r.nro)'
    BY <1>0, <1>t, <2>2, <2>3 DEF Atiende
  <2>5. SoloEscribe(pedidos) /\ mem'.pc \notin Ocupada /\ SonSobras(1)' /\ respuestas' = <<>>
    BY <1>d, <2>2 DEF SonSobras
  <2>6. pedidos' = Append(pedidos, r)
    BY <2>2, <2>3
  <2> QED BY <1>0, <2>2, <2>3, <2>4, <2>5, <2>6, TurnoPide
<1>8. CASE Traducir
  <2>1. PICK n \in PaginasDe(cpu.pid) : TlbHit(n) \/ TlbMiss(n)
    BY <1>8 DEF Traducir
  <2>2. /\ mem'.pc \notin Ocupada /\ SoloEscribe(pedidos) /\ respuestas = <<>> /\ SonSobras(1)
        /\ cpu.pid \in Pids
    BY <1>8, <1>d, <1>t DEF Traducir
  <2>3. CASE TlbHit(n)
    <3>1. cpu'.pc = "accede" /\ pedidos' = pedidos /\ respuestas' = respuestas
      BY <1>t, <2>3 DEF TlbHit
    <3> QED BY <2>2, <3>1, TurnoDescansa
  <2>4. CASE TlbMiss(n)
    <3>1. n \in Nat
      <4>1. tamanio[cpu.pid] \in Nat
        BY <1>0, <2>2
      <4>2. (tamanio[cpu.pid] + TamPagina - 1) \div TamPagina \in Nat
        BY <4>1, Techo
      <4> QED BY <4>2 DEF PaginasDe
    <3>2. /\ cpu'.pc = "marco" /\ cpu'.pid = cpu.pid /\ cpu'.nro = n /\ respuestas' = respuestas
          /\ pedidos' = Append(pedidos, Pedido("marco", cpu.pid, n, Nulo))
      BY <1>t, <2>4 DEF TlbMiss, Pide
    <3>3. PICK r \in Pedidos : /\ r = Pedido("marco", cpu.pid, n, Nulo)
                               /\ r.tipo = "marco" /\ r.pid = cpu.pid /\ r.nro = n
      BY <1>p, <2>2, <3>1, SonPedidos
    <3>4. Atiende(r.tipo, r.pid, r.nro)' /\ SonSobras(1)' /\ pedidos' = Append(pedidos, r)
      BY <2>2, <3>2, <3>3 DEF Atiende, SonSobras
    <3> QED BY <1>0, <2>2, <3>2, <3>3, <3>4, TurnoPide
  <2> QED BY <2>1, <2>3, <2>4
<1>9. CASE MovIn
  <2>1. /\ cpu.pc = "accede" /\ cpu'.pc = "dato" /\ cpu'.pid = cpu.pid /\ respuestas' = respuestas
        /\ pedidos' = Append(pedidos, Pedido("lee", cpu.pid, cpu.nro, cpu.marco))
    BY <1>9, <1>t DEF MovIn, EnCpu, Pide
  <2>2. /\ mem'.pc \notin Ocupada /\ SoloEscribe(pedidos) /\ respuestas = <<>> /\ SonSobras(1)
    BY <1>d, <2>1
  <2>3. PICK r \in Pedidos : /\ r = Pedido("lee", cpu.pid, cpu.nro, cpu.marco)
                             /\ r.tipo = "lee" /\ r.pid = cpu.pid
    BY <1>p, <1>t, <2>1, SonPedidos
  <2>4. Atiende(r.tipo, r.pid, r.nro)' /\ SonSobras(1)' /\ pedidos' = Append(pedidos, r)
    BY <2>1, <2>2, <2>3 DEF Atiende, SonSobras
  <2> QED BY <1>0, <2>1, <2>2, <2>3, <2>4, TurnoPide
<1>10. CASE MovOut
  <2>1. PICK w \in Pedidos : /\ w = Pedido("escribe", cpu.pid, cpu.nro, cpu.marco)
                             /\ w.tipo = "escribe"
    BY <1>10, <1>p, <1>t, SonPedidos DEF MovOut
  <2>2. cpu.pc = "accede" /\ respuestas' = respuestas /\ cpu.pid \in Pids
    BY <1>10, <1>t DEF MovOut
  <2>3. mem'.pc \notin Ocupada /\ SoloEscribe(pedidos) /\ respuestas' = <<>> /\ SonSobras(1)'
    BY <1>d, <2>2 DEF SonSobras
  <2>4. PICK s \in Seq(Pedidos) : s = Append(pedidos, w) /\ SoloEscribe(s)
    <3>1. PICK s \in Seq(Pedidos) : /\ s = Append(pedidos, w) /\ Len(s) = Len(pedidos) + 1
                                    /\ \A j \in 1..Len(pedidos) : s[j] = pedidos[j]
                                    /\ s[Len(pedidos) + 1] = w /\ Len(pedidos) \in Nat
      BY <1>0, Enviado
    <3>2. \A j \in 1..Len(s) : s[j].tipo = "escribe"
      BY <2>1, <2>3, <3>1 DEF SoloEscribe
    <3> QED BY <3>1, <3>2 DEF SoloEscribe
  <2>5. CASE cpu' = [cpu EXCEPT !.pc = "continua"] /\ pedidos' = s
    BY <1>t, <2>3, <2>4, <2>5, TurnoDescansa
  <2>6. CASE cpu' = [cpu EXCEPT !.pc = "instruccion"] /\ pedidos' = pedidos \o <<w, Fetch(cpu.pid)>>
    <3>1. pedidos' = Append(s, Fetch(cpu.pid))
      BY <1>0, <2>1, <2>2, <2>4, <2>6, EnviadosDos, SonPedidos
    <3> QED BY <1>f, <1>t, <2>2, <2>3, <2>4, <2>6, <3>1
  <2> QED BY <1>10, <2>1, <2>4, <2>5, <2>6 DEF MovOut
<1> QED BY <1>1, <1>2, <1>3, <1>4, <1>5, <1>6, <1>7, <1>8, <1>9, <1>10, TurnoTraba DEF Cpu

\* Every step keeps the turn.
LEMMA TurnoSigue ==
  ASSUME TypeOK, TipoCruzado, Turno, [Next]_vars
  PROVE  Turno'
<1>1. CASE UNCHANGED vars \/ \E p \in Pids : IniciarProceso(p) \/ LiberarProceso(p)
  <2>1. UNCHANGED <<mem, pedidos, respuestas, cpu, tamanio>>
    BY <1>1, PasosAjenos DEF vars, memoria, estadoCpu
  <2> QED BY <2>1, TurnoInterno
<1> QED BY <1>1, TurnoMemoria, TurnoCpu DEF Next

(***************************************************************************)
(* Translations.                                                           *)
(***************************************************************************)
\* The frame f is the one of the page n of p, inside of what p asked for: of a
\* program that never shrinks, whatever the others do.
Fija(p, n, f) == p \notin Achican => f \in Marcos /\ marcos[f] = Pagina(p, n) /\ n \in PaginasDe(p)

\* So is every translation on its way: in the TLB, in an answer, in the CPU
\* and in a request to read or write.
Fijas ==
  /\ \A e \in ToSet(tlb) : Fija(e.pid, e.nro, e.marco)
  /\ cpu.pc = "marco" /\ cpu.pid \notin Achican => cpu.nro \in PaginasDe(cpu.pid)
  /\ cpu.pc = "marco" => \A m \in ToSet(respuestas) : m.tipo = "marco" => Fija(cpu.pid, cpu.nro, m.marco)
  /\ cpu.pc = "accede" => Fija(cpu.pid, cpu.nro, cpu.marco)
  /\ \A m \in ToSet(pedidos) : m.tipo \in {"lee", "escribe"} => Fija(m.pid, m.nro, m.marco)

\* More bytes are no fewer pages.
LEMMA TechoCrece ==
  ASSUME NEW a \in Nat, NEW b \in Nat, a <= b
  PROVE  (a + TamPagina - 1) \div TamPagina <= (b + TamPagina - 1) \div TamPagina
<1> DEFINE t == TamPagina
           d == (a + t - 1) \div t
           e == (b + t - 1) \div t
<1>1. t \in Nat /\ t > 0
  BY MemoriaAssumption
<1> HIDE DEF t
<1>2. d \in Int /\ d * t <= a + t - 1 /\ e \in Int /\ b + t - 1 < (e + 1) * t
  BY <1>1
<1> HIDE DEF d, e
<1>3. ASSUME d >= e + 1 PROVE FALSE
  <2>1. (e + 1) * t <= d * t
    BY <1>1, <1>2, <1>3
  <2>2. d * t \in Int /\ (e + 1) * t \in Int
    BY <1>1, <1>2
  <2> QED BY <1>1, <1>2, <2>1, <2>2
<1> QED BY <1>2, <1>3 DEF d, e, t

\* A program that only grows keeps the pages it may name.
LEMMA PaginasCrecen ==
  ASSUME TypeOK, TipoCruzado, [Next]_vars, NEW p \in Pids, p \notin Achican
  PROVE  PaginasDe(p) \subseteq PaginasDe(p)'
<1>0. tamanio \in [Pids -> Nat] /\ CpuTipada(cpu)
  BY DEF TypeOK, TipoCpu, TipoCruzado
<1>1. CASE tamanio' = tamanio
  BY <1>1 DEF PaginasDe
<1>2. CASE \E t \in Tamanios : EjecutarResize(t)
  <2>1. PICK t \in Tamanios : EjecutarResize(t)
    BY <1>2
  <2>2. (cpu.pid = p => t > tamanio[p]) /\ t \in Nat /\ tamanio' = [tamanio EXCEPT ![cpu.pid] = t]
    BY <2>1, TamaniosAssumption DEF EjecutarResize
  <2>3. PICK a \in Nat, b \in Nat : a = tamanio[p] /\ b = tamanio'[p] /\ a <= b
    BY <1>0, <2>2
  <2>4. (a + TamPagina - 1) \div TamPagina <= (b + TamPagina - 1) \div TamPagina
    BY <2>3, TechoCrece
  <2>5. (a + TamPagina - 1) \div TamPagina \in Nat /\ (b + TamPagina - 1) \div TamPagina \in Nat
    BY Techo
  <2> DEFINE d == (a + TamPagina - 1) \div TamPagina
             e == (b + TamPagina - 1) \div TamPagina
  <2>6. PaginasDe(p) = 0..d - 1 /\ PaginasDe(p)' = 0..e - 1
    BY <2>3 DEF PaginasDe
  <2>7. d <= e /\ d \in Nat /\ e \in Nat
    BY <2>4, <2>5
  <2> HIDE DEF d, e
  <2> QED BY <2>6, <2>7
<1>3. CASE Cpu
  BY <1>1, <1>2, <1>3 DEF Cpu, CpuRecibeInstruccion, CpuSeTraba, CpuDevuelve, CpuRecibeResize,
     CpuRecibeMarco, CpuRecibeDato, Traducir, TlbHit, TlbMiss, MovOut, MovIn
<1>4. CASE UNCHANGED vars \/ AtenderCpu \/ \E q \in Pids : IniciarProceso(q) \/ LiberarProceso(q) \/ CpuEmpieza(q)
  BY <1>1, <1>4, PasosAjenos DEF vars, estadoCpu
<1> QED BY <1>3, <1>4 DEF Next

\* A frame keeps its page while the program may name it: a RESIZE only gives
\* back the pages past the size it asks for.
LEMMA FijaSigue ==
  ASSUME TypeOK, TipoCruzado, Fieles, Turno, [Next]_vars,
         NEW p \in Pids, NEW n, NEW f, Fija(p, n, f)
  PROVE  Fija(p, n, f)'
<1> SUFFICES ASSUME p \notin Achican PROVE (f \in Marcos /\ marcos[f] = Pagina(p, n) /\ n \in PaginasDe(p))'
  BY DEF Fija
<1>0. f \in Marcos /\ marcos[f] = Pagina(p, n) /\ n \in PaginasDe(p)
  BY DEF Fija
<1>1. n \in PaginasDe(p)'
  BY <1>0, PaginasCrecen
<1>2. ASSUME marcos'[f] # marcos[f] PROVE FALSE
  <2>1. CASE ResizeReduce /\ marcos'[f] = Libre
    <3>1. PICK k \in Solicitadas + 1..Len(tabla) : tabla[k] = f
      BY <1>0, <1>2, <2>1 DEF ResizeReduce
    <3>2. /\ Solicitadas \in Nat /\ Len(tabla) \in Nat /\ mem.pid \in Pids
          /\ mem.pc = "busca_resize"
      BY <2>1, PrefijoTabla, EncontradoConocido DEF ResizeReduce
    <3>3. k \in 1..Len(tabla_de_paginas[mem.pid]) /\ tabla_de_paginas[mem.pid][k] = f
      BY <3>1, <3>2 DEF tabla
    <3>4. marcos[f] = Pagina(mem.pid, k - 1)
      BY <3>2, <3>3 DEF Fieles, TablasFieles
    <3>5. p = mem.pid /\ n = k - 1
      <4>1. Pagina(p, n) = Pagina(mem.pid, k - 1)
        BY <1>0, <3>4
      <4>2. Pagina(p, n).pid = p /\ Pagina(p, n).nro = n
        BY PaginaUnica
      <4>3. Pagina(mem.pid, k - 1).pid = mem.pid /\ Pagina(mem.pid, k - 1).nro = k - 1
        BY PaginaUnica, Zenon
      <4> QED BY <4>1, <4>2, <4>3, Zenon
    <3>6. mem.nro = tamanio[mem.pid]
      BY <3>2, PuntosDeMem DEF Turno, EnCurso, Atiende
    <3>7. PaginasDe(p) = 0..Solicitadas - 1
      BY <3>5, <3>6 DEF PaginasDe, Solicitadas
    <3> HIDE DEF Solicitadas
    <3> QED BY <1>0, <3>1, <3>2, <3>5, <3>7
  <2>2. CASE CrearPagina /\ marcos[f] = Libre
    <3>1. p = Nulo
      BY <1>0, <2>2, PaginaUnica
    <3> QED BY <3>1, PaginacionNuloAssumption
  <2> QED BY <1>0, <1>2, <2>1, <2>2, MarcoCambia
<1> QED BY <1>0, <1>1, <1>2 DEF Fija

\* Only MOV_IN and MOV_OUT send a request to read or write, of what the CPU
\* has translated.
LEMMA AccesosNuevos ==
  ASSUME TypeOK, TipoCruzado, [Next]_vars,
         NEW m \in ToSet(pedidos'), m.tipo \in {"lee", "escribe"}, m \notin ToSet(pedidos)
  PROVE  cpu.pc = "accede" /\ m.pid = cpu.pid /\ m.nro = cpu.nro /\ m.marco = cpu.marco
<1> DEFINE Propio == cpu.pc = "accede" /\ m.pid = cpu.pid /\ m.nro = cpu.nro /\ m.marco = cpu.marco
<1>0. cpu.pc # "libre" => cpu.pid \in Pids
  BY DEF TypeOK, TipoCruzado, CpuTipada
<1>t. /\ pedidos \in Seq(Pedidos) /\ cpu.nro \in Nat /\ cpu.marco \in Marcos \cup {Nulo}
      /\ \A t, p, n, f : /\ Pedido(t, p, n, f).tipo = t /\ Pedido(t, p, n, f).pid = p
                         /\ Pedido(t, p, n, f).nro = n /\ Pedido(t, p, n, f).marco = f
                         /\ Fetch(p).tipo = "instruccion"
  BY DEF TypeOK, TipoMensajes, TipoCpu, LocalesCpu, Pedido, Fetch
<1>1. ASSUME NEW a \in Pedidos, pedidos' = Append(pedidos, a) PROVE m = a
  BY <1>t, <1>1, SocketMemoria
<1>2. ASSUME NEW a \in Pedidos, NEW b \in Pedidos, pedidos' = pedidos \o <<a, b>> PROVE m \in {a, b}
  <2>1. ToSet(pedidos \o <<a, b>>) = ToSet(pedidos) \cup {a, b}
    BY <1>t, SocketMemoria
  <2>2. ToSet(pedidos') = ToSet(pedidos \o <<a, b>>)
    BY <1>2
  <2> QED BY <2>1, <2>2
<1>3. ASSUME pedidos # <<>>, pedidos' = Tail(pedidos) PROVE FALSE
  BY <1>t, <1>3, SocketMemoria
<1>4. ASSUME pedidos' = pedidos PROVE FALSE
  BY <1>4
<1>f. ASSUME NEW p \in Pids, pedidos' = Append(pedidos, Fetch(p)) PROVE FALSE
  <2>1. Fetch(p) \in Pedidos
    BY <1>t, SonPedidos
  <2> QED BY <1>1, <1>f, <1>t, <2>1
<1>5. CASE AtenderCpu
  BY <1>3, <1>4, <1>5 DEF AtenderCpu, EnviarInstruccion, EmpiezaBusqueda, BuscarSiguiente, BuscarNulo,
         DevolverNroMarco, ResizeIgual, ResizeReduce, ResizeAmplia, ResizeSinMemoria, CrearPagina,
         CrearSinMarco, AgregarPagina, ResizeAmpliado, EscribirFisica, LeerFisica, SinCpu, Recibe
<1>6. CASE UNCHANGED vars \/ \E p \in Pids : IniciarProceso(p) \/ LiberarProceso(p)
  BY <1>4, <1>6, PasosAjenos DEF vars
<1>7. CASE \E p \in Pids : CpuEmpieza(p)
  BY <1>f, <1>7 DEF CpuEmpieza
<1>8. CASE CpuRecibeInstruccion \/ CpuSeTraba \/ CpuDevuelve \/ CpuRecibeMarco
  BY <1>4, <1>8 DEF CpuRecibeInstruccion, CpuSeTraba, CpuDevuelve, CpuRecibeMarco
<1>9. CASE CpuRecibeResize \/ CpuRecibeDato
  <2>1. cpu.pc # "libre" /\ (pedidos' = pedidos \/ pedidos' = Append(pedidos, Fetch(cpu.pid)))
    BY <1>9 DEF CpuRecibeResize, CpuRecibeDato
  <2> QED BY <1>0, <1>4, <1>f, <2>1
<1>10. CASE \E t \in Tamanios : EjecutarResize(t)
  <2>1. PICK t \in Tamanios : EjecutarResize(t)
    BY <1>10
  <2>2. cpu.pid \in Pids /\ t \in Nat
    BY <1>0, <2>1, TamaniosAssumption DEF EjecutarResize, EnCpu
  <2>3. PICK a \in Pedidos : a = Pedido("resize", cpu.pid, t, Nulo)
    BY <2>2, SonPedidos
  <2>4. pedidos' = Append(pedidos, a)
    BY <2>1, <2>3 DEF EjecutarResize, Pide
  <2> QED BY <1>1, <1>t, <2>3, <2>4
<1>11. CASE Traducir
  <2>1. PICK n \in PaginasDe(cpu.pid) : TlbHit(n) \/ TlbMiss(n)
    BY <1>11 DEF Traducir
  <2>2. cpu.pid \in Pids /\ TlbMiss(n)
    BY <1>0, <1>4, <1>11, <2>1 DEF Traducir, TlbHit
  <2>3. n \in Nat
    <3>1. tamanio[cpu.pid] \in Nat
      BY <2>2 DEF TypeOK, TipoCpu
    <3>2. (tamanio[cpu.pid] + TamPagina - 1) \div TamPagina \in Nat
      BY <3>1, Techo
    <3> QED BY <3>2 DEF PaginasDe
  <2>4. PICK a \in Pedidos : a = Pedido("marco", cpu.pid, n, Nulo)
    BY <2>2, <2>3, SonPedidos
  <2>5. pedidos' = Append(pedidos, a)
    BY <2>2, <2>4 DEF TlbMiss, Pide
  <2> QED BY <1>1, <1>t, <2>4, <2>5
<1>12. ASSUME MovOut PROVE Propio
  <2>1. cpu.pc = "accede" /\ cpu.pid \in Pids
    BY <1>0, <1>12 DEF MovOut
  <2>2. PICK a \in Pedidos : a = Pedido("escribe", cpu.pid, cpu.nro, cpu.marco)
    BY <1>t, <2>1, SonPedidos
  <2>3. PICK b \in Pedidos : b = Fetch(cpu.pid) /\ b.tipo = "instruccion"
    BY <1>t, <2>1, SonPedidos, ZenonT(30)
  <2>4. pedidos' = Append(pedidos, a) \/ pedidos' = pedidos \o <<a, b>>
    BY <1>12, <2>2, <2>3 DEF MovOut
  <2>5. m \in {a, b}
    BY <1>1, <1>2, <2>4
  <2> QED BY <1>t, <2>1, <2>2, <2>3, <2>5
<1>13. ASSUME MovIn PROVE Propio
  <2>1. cpu.pc = "accede" /\ cpu.pid \in Pids
    BY <1>0, <1>13 DEF MovIn, EnCpu
  <2>2. PICK a \in Pedidos : a = Pedido("lee", cpu.pid, cpu.nro, cpu.marco)
    BY <1>t, <2>1, SonPedidos
  <2>3. pedidos' = Append(pedidos, a)
    BY <1>13, <2>2 DEF MovIn, Pide
  <2> QED BY <1>1, <1>t, <2>1, <2>2, <2>3
<1>15. CASE Cpu
  BY <1>8, <1>9, <1>10, <1>11, <1>12, <1>13, <1>15 DEF Cpu
<1> QED BY <1>5, <1>6, <1>7, <1>15 DEF Next

\* Only the answer to NUMERO_MARCO_SOLICITUD brings a frame.
LEMMA MarcosContestados ==
  ASSUME TypeOK, TipoCruzado, [Next]_vars,
         NEW m \in ToSet(respuestas'), m.tipo = "marco", m \notin ToSet(respuestas)
  PROVE  DevolverNroMarco /\ mem.nro < Len(tabla) /\ m.marco = tabla[mem.nro + 1]
<1>0. respuestas \in Seq(Mensajes)
  BY DEF TypeOK, TipoMensajes
<1>t. /\ \A c : Codigo(c).tipo = c
      /\ \A c, f : Buffer(c, f).tipo = c /\ Buffer(c, f).marco = f
  BY DEF Codigo, Buffer
<1>1. ASSUME NEW a \in Mensajes, respuestas' = respuestas \o <<a>> PROVE m = a
  BY <1>0, <1>1, SocketCpu
<1>2. ASSUME NEW a \in Mensajes, NEW b \in Mensajes, respuestas' = respuestas \o <<a, b>> PROVE m \in {a, b}
  <2>1. ToSet(respuestas \o <<a, b>>) = ToSet(respuestas) \cup {a, b}
    BY <1>0, SocketCpu
  <2>2. ToSet(respuestas') = ToSet(respuestas \o <<a, b>>)
    BY <1>2
  <2> QED BY <2>1, <2>2
<1>3. ASSUME respuestas # <<>>, respuestas' = Tail(respuestas) PROVE FALSE
  BY <1>0, <1>3, SocketCpu
<1>4. ASSUME respuestas' = respuestas PROVE FALSE
  BY <1>4
<1>5. CASE EnviarInstruccion \/ LeerFisica
  <2>1. PICK a \in Mensajes, b \in Mensajes :
          /\ a = Buffer("instruccion", Nulo) /\ b = Buffer("dato", Nulo)
          /\ a.tipo = "instruccion" /\ b.tipo = "dato"
    BY <1>t, SonMensajes
  <2>2. respuestas' = respuestas \o <<a>> \/ respuestas' = respuestas \o <<>> \/ respuestas' = respuestas \o <<b>>
    BY <1>5, <2>1 DEF EnviarInstruccion, LeerFisica, Responde
  <2>3. respuestas \o <<>> = respuestas
    BY <1>0, SocketCpu
  <2> QED BY <1>1, <1>4, <2>1, <2>2, <2>3
<1>6. CASE ResizeIgual \/ ResizeReduce \/ ResizeAmpliado \/ ResizeSinMemoria
  <2>1. PICK a \in Mensajes, b \in Mensajes :
          /\ a = Codigo("PEDIDO_OK") /\ b = Codigo("ERROR_OUT_OF_MEMORY")
          /\ a.tipo = "PEDIDO_OK" /\ b.tipo = "ERROR_OUT_OF_MEMORY"
    BY <1>t, SonMensajes
  <2>2. respuestas' = respuestas \o <<a>> \/ respuestas' = respuestas \o <<b, a>>
    BY <1>6, <2>1 DEF ResizeIgual, ResizeReduce, ResizeAmpliado, ResizeSinMemoria, Responde
  <2> QED BY <1>1, <1>2, <2>1, <2>2
<1>7. ASSUME DevolverNroMarco PROVE mem.nro < Len(tabla) /\ m.marco = tabla[mem.nro + 1]
  <2>1. mem.nro < Len(tabla) /\ respuestas' = respuestas \o <<Buffer("marco", tabla[mem.nro + 1])>>
    BY <1>4, <1>7 DEF DevolverNroMarco, Responde
  <2>2. mem.pid \in Pids /\ mem.nro \in Nat
    BY <1>7, PuntosDeMem DEF DevolverNroMarco, TipoCruzado, MemTipada, LocalesMem
  <2>3. Len(tabla) \in Nat /\ \A k \in 1..Len(tabla) : tabla[k] \in Marcos
    BY <2>2, TablaTipada DEF TypeOK, tabla
  <2>4. tabla[mem.nro + 1] \in Marcos
    BY <2>1, <2>2, <2>3
  <2>5. PICK a \in Mensajes : a = Buffer("marco", tabla[mem.nro + 1])
    BY <2>4, SonMensajes
  <2> QED BY <1>1, <1>t, <2>1, <2>5
<1>8. CASE EmpiezaBusqueda \/ BuscarSiguiente \/ BuscarNulo \/ ResizeAmplia \/ CrearPagina \/ CrearSinMarco
           \/ AgregarPagina \/ EscribirFisica
  BY <1>4, <1>8 DEF EmpiezaBusqueda, BuscarSiguiente, BuscarNulo, ResizeAmplia, CrearPagina,
         CrearSinMarco, AgregarPagina, EscribirFisica, SinCpu
<1>9. CASE AtenderCpu
  BY <1>5, <1>6, <1>7, <1>8, <1>9 DEF AtenderCpu
<1>10. CASE Cpu
  BY <1>3, <1>4, <1>10 DEF Cpu, CpuRecibeInstruccion, CpuSeTraba, CpuDevuelve, CpuRecibeResize, CpuRecibeMarco,
         CpuRecibeDato, Traducir, TlbHit, TlbMiss, MovOut, MovIn, EjecutarResize, RecibeBuffer
<1>11. CASE UNCHANGED vars \/ \E p \in Pids : IniciarProceso(p) \/ LiberarProceso(p) \/ CpuEmpieza(p)
  BY <1>4, <1>11, PasosAjenos DEF vars
<1> QED BY <1>9, <1>10, <1>11 DEF Next

\* Only the answer with a frame brings an entry to the TLB.
LEMMA EntradasNuevas ==
  ASSUME TypeOK, TipoCruzado, [Next]_vars, NEW e \in ToSet(tlb'), e \notin ToSet(tlb)
  PROVE  CpuRecibeMarco /\ e = Entrada(cpu.pid, cpu.nro, Head(respuestas).marco)
<1>0. tlb \in Seq(Entradas) /\ tiempos \in Seq(Entradas)
  BY DEF TypeOK, TipoCpu
<1>1. ASSUME CpuRecibeMarco PROVE e = Entrada(cpu.pid, cpu.nro, Head(respuestas).marco)
  <2> DEFINE f == Head(respuestas).marco
  <2>1. respuestas # <<>> /\ Head(respuestas).tipo = "marco" /\ cpu.pc = "marco"
        /\ colocar_pagina_en_tlb(Entrada(cpu.pid, cpu.nro, f))
    BY <1>1 DEF CpuRecibeMarco, RecibeBuffer
  <2>2. f \in Marcos
    BY <2>1, SocketCpu DEF TypeOK, TipoMensajes, TipoCruzado
  <2>3. cpu.pid \in Pids /\ cpu.nro \in Nat
    BY <2>1 DEF TipoCruzado, CpuTipada, LocalesCpu
  <2> HIDE DEF f
  <2>4. PICK x \in Entradas : x = Entrada(cpu.pid, cpu.nro, f)
    BY <2>2, <2>3 DEF Entradas, Entrada
  <2>5. ToSet(tlb') \subseteq ToSet(tlb) \cup {x}
    BY <1>0, <2>1, <2>4, TlbTipada
  <2> QED BY <2>4, <2>5 DEF f
<1>2. CASE Cpu /\ ~CpuRecibeMarco
  BY <1>2 DEF Cpu, CpuRecibeInstruccion, CpuSeTraba, CpuDevuelve, CpuRecibeResize, 
         CpuRecibeDato, Traducir, TlbHit, TlbMiss, MovOut, MovIn, EjecutarResize
<1>3. CASE UNCHANGED vars \/ AtenderCpu \/ \E p \in Pids : IniciarProceso(p) \/ LiberarProceso(p) \/ CpuEmpieza(p)
  BY <1>3, PasosAjenos DEF vars, estadoCpu
<1> QED BY <1>1, <1>2, <1>3 DEF Next

\* How the CPU comes to ask for a frame and to have one.
LEMMA CpuTraduce ==
  ASSUME TypeOK, TipoCruzado, [Next]_vars, cpu' # cpu
  PROVE  /\ cpu'.pc = "marco" =>
              /\ cpu.pc \in {"decodifica", "continua"} /\ respuestas' = respuestas
              /\ cpu'.pid = cpu.pid /\ cpu'.nro \in PaginasDe(cpu.pid)
         /\ cpu'.pc = "accede" =>
              \/ /\ CpuRecibeMarco /\ cpu'.pid = cpu.pid /\ cpu'.nro = cpu.nro
                 /\ cpu'.marco = Head(respuestas).marco
              \/ \E e \in ToSet(tlb) : cpu'.pid = e.pid /\ cpu'.nro = e.nro /\ cpu'.marco = e.marco
<1>t. /\ CpuOciosa.pc = "libre"
      /\ \A c : [cpu EXCEPT !.pc = c].pc = c
      /\ \A c, p : [cpu EXCEPT !.pc = c, !.pid = p].pc = c
      /\ \A c, n : /\ [cpu EXCEPT !.pc = c, !.nro = n].pc = c /\ [cpu EXCEPT !.pc = c, !.nro = n].nro = n
                   /\ [cpu EXCEPT !.pc = c, !.nro = n].pid = cpu.pid
      /\ \A c, f : /\ [cpu EXCEPT !.pc = c, !.marco = f].pc = c /\ [cpu EXCEPT !.pc = c, !.marco = f].marco = f
                   /\ [cpu EXCEPT !.pc = c, !.marco = f].pid = cpu.pid
                   /\ [cpu EXCEPT !.pc = c, !.marco = f].nro = cpu.nro
      /\ \A c, n, f : /\ [cpu EXCEPT !.pc = c, !.nro = n, !.marco = f].pc = c
                      /\ [cpu EXCEPT !.pc = c, !.nro = n, !.marco = f].nro = n
                      /\ [cpu EXCEPT !.pc = c, !.nro = n, !.marco = f].marco = f
                      /\ [cpu EXCEPT !.pc = c, !.nro = n, !.marco = f].pid = cpu.pid
  BY DEF TypeOK, TipoCpu, LocalesCpu, CpuOciosa
<1> DEFINE Bien == /\ cpu'.pc = "marco" =>
                        /\ cpu.pc \in {"decodifica", "continua"} /\ respuestas' = respuestas
                        /\ cpu'.pid = cpu.pid /\ cpu'.nro \in PaginasDe(cpu.pid)
                   /\ cpu'.pc = "accede" =>
                        \/ /\ CpuRecibeMarco /\ cpu'.pid = cpu.pid /\ cpu'.nro = cpu.nro
                           /\ cpu'.marco = Head(respuestas).marco
                        \/ \E e \in ToSet(tlb) : cpu'.pid = e.pid /\ cpu'.nro = e.nro /\ cpu'.marco = e.marco
<1>1. ASSUME cpu'.pc \notin {"marco", "accede"} PROVE Bien
  BY <1>1
<1>2. ASSUME CpuRecibeInstruccion \/ CpuSeTraba \/ CpuDevuelve \/ CpuRecibeResize \/ CpuRecibeDato
             \/ MovOut \/ MovIn \/ (\E t \in Tamanios : EjecutarResize(t)) \/ \E p \in Pids : CpuEmpieza(p)
      PROVE  Bien
  <2>1. \/ cpu' = CpuOciosa
        \/ \E c \in {"decodifica", "trabada", "instruccion", "continua", "dato", "resize"} :
             cpu' = [cpu EXCEPT !.pc = c]
        \/ \E p : cpu' = [cpu EXCEPT !.pc = "instruccion", !.pid = p]
    BY <1>2 DEF CpuRecibeInstruccion, CpuSeTraba, CpuDevuelve, CpuRecibeResize, CpuRecibeDato, MovOut, MovIn,
           EjecutarResize, CpuEmpieza, EnCpu
  <2>2. cpu'.pc \notin {"marco", "accede"}
    <3>1. CASE cpu' = CpuOciosa
      BY <1>t, <3>1
    <3>2. ASSUME NEW c \in {"decodifica", "trabada", "instruccion", "continua", "dato", "resize"},
                 cpu' = [cpu EXCEPT !.pc = c]
          PROVE  cpu'.pc = c
      BY <1>t, <3>2
    <3>3. ASSUME NEW p, cpu' = [cpu EXCEPT !.pc = "instruccion", !.pid = p] PROVE cpu'.pc = "instruccion"
      BY <1>t, <3>3
    <3> QED BY <2>1, <3>1, <3>2, <3>3
  <2> QED BY <1>1, <2>2
<1>3. ASSUME CpuRecibeMarco PROVE Bien
  <2>1. cpu' = [cpu EXCEPT !.pc = "accede", !.marco = Head(respuestas).marco]
    BY <1>3 DEF CpuRecibeMarco
  <2> QED BY <1>3, <1>t, <2>1
<1>4. ASSUME Traducir PROVE Bien
  <2>1. PICK n \in PaginasDe(cpu.pid) : TlbHit(n) \/ TlbMiss(n)
    BY <1>4 DEF Traducir
  <2>2. CASE TlbHit(n)
    <3>1. PICK e \in Encontradas(n) : cpu' = [cpu EXCEPT !.pc = "accede", !.nro = n, !.marco = e.marco]
      BY <2>2 DEF TlbHit
    <3>2. e \in ToSet(tlb) /\ e.nro = n /\ e.pid = cpu.pid
      BY <3>1 DEF Encontradas
    <3> QED BY <1>t, <3>1, <3>2
  <2>3. CASE TlbMiss(n)
    <3>1. cpu' = [cpu EXCEPT !.pc = "marco", !.nro = n] /\ respuestas' = respuestas
      BY <2>3 DEF TlbMiss
    <3>2. cpu.pc \in {"decodifica", "continua"}
      BY <1>4 DEF Traducir
    <3> QED BY <1>t, <2>1, <3>1, <3>2
  <2> QED BY <2>1, <2>2, <2>3
<1>5. ASSUME Cpu PROVE Bien
  BY <1>2, <1>3, <1>4, <1>5 DEF Cpu
<1>6. ASSUME UNCHANGED vars \/ AtenderCpu \/ \E p \in Pids : IniciarProceso(p) \/ LiberarProceso(p)
      PROVE  FALSE
  BY <1>6, PasosAjenos DEF vars, estadoCpu
<1> HIDE DEF Bien
<1>7. Bien
  BY <1>2, <1>5, <1>6 DEF Next
<1> QED BY <1>7 DEF Bien

\* No step leaves a stale translation anywhere.
LEMMA FijasSiguen ==
  ASSUME TypeOK, TipoCruzado, Censo, Fieles, Turno, Fijas, [Next]_vars
  PROVE  Fijas'
<1>0. /\ cpu.pc # "libre" => cpu.pid \in Pids
      /\ pedidos \in Seq(Pedidos) /\ respuestas \in Seq(Mensajes)
      /\ tlb \in Seq(Entradas) /\ tlb' \in Seq(Entradas)
  BY TipoCpuSigue DEF TypeOK, TipoMensajes, TipoCpu, TipoCruzado, CpuTipada
<1>1. ASSUME NEW p \in Pids, NEW n, NEW f, Fija(p, n, f) PROVE Fija(p, n, f)'
  BY <1>1, FijaSigue
<1>2. ASSUME CpuRecibeMarco PROVE cpu.pid \in Pids /\ Fija(cpu.pid, cpu.nro, Head(respuestas).marco)
  <2>1. cpu.pc = "marco" /\ respuestas # <<>> /\ Head(respuestas).tipo = "marco"
    BY <1>2 DEF CpuRecibeMarco, RecibeBuffer
  <2>2. Head(respuestas) \in ToSet(respuestas)
    BY <1>0, <2>1, SocketCpu
  <2> QED BY <1>0, <2>1, <2>2 DEF Fijas
<1>3. ASSUME NEW e \in ToSet(tlb) PROVE e.pid \in Pids /\ Fija(e.pid, e.nro, e.marco)
  <2>1. e \in Entradas
    BY <1>0, <1>3, Elementos
  <2> QED BY <2>1 DEF Fijas, Entradas
<1>4. ASSUME NEW e \in ToSet(tlb') PROVE Fija(e.pid, e.nro, e.marco)'
  <2>1. PICK p, n, f : p = e.pid /\ n = e.nro /\ f = e.marco
    OBVIOUS
  <2>2. CASE e \in ToSet(tlb)
    <3>1. Fija(p, n, f)'
      BY <1>1, <1>3, <2>1, <2>2
    <3> QED BY <2>1, <3>1
  <2>3. CASE e \notin ToSet(tlb)
    <3>1. CpuRecibeMarco /\ e = Entrada(cpu.pid, cpu.nro, Head(respuestas).marco)
      BY <1>4, <2>3, EntradasNuevas
    <3>2. p = cpu.pid /\ n = cpu.nro /\ f = Head(respuestas).marco
      BY <2>1, <3>1 DEF Entrada
    <3>3. Fija(p, n, f)'
      BY <1>1, <1>2, <3>1, <3>2
    <3> QED BY <2>1, <3>3
  <2> QED BY <2>2, <2>3
<1>5. ASSUME cpu'.pc = "marco", cpu'.pid \notin Achican PROVE (cpu.nro \in PaginasDe(cpu.pid))'
  <2>1. PICK p : p = cpu'.pid /\ p \notin Achican
    BY <1>5
  <2>2. p = cpu.pid /\ cpu.pc # "libre" /\ cpu'.nro \in PaginasDe(p)
    BY <1>5, <2>1, CpuTraduce DEF Fijas
  <2>3. PaginasDe(p) \subseteq PaginasDe(p)'
    BY <1>0, <2>1, <2>2, PaginasCrecen
  <2>4. cpu'.nro \in PaginasDe(p)'
    BY <2>2, <2>3
  <2> QED BY <2>1, <2>4
<1>6. ASSUME cpu'.pc = "marco", NEW m \in ToSet(respuestas'), m.tipo = "marco"
      PROVE  Fija(cpu.pid, cpu.nro, m.marco)'
  <2>1. cpu' = cpu
    <3>1. ASSUME cpu' # cpu PROVE FALSE
      <4>1. cpu.pc \in {"decodifica", "continua"} /\ respuestas' = respuestas
        BY <1>6, <3>1, CpuTraduce
      <4>2. respuestas = <<>>
        BY <4>1 DEF Turno, UnaRespuesta
      <4> QED BY <1>6, <4>1, <4>2 DEF ToSet
    <3> QED BY <3>1
  <2>2. PICK p, n, f : p \in Pids /\ p = cpu.pid /\ n = cpu.nro /\ f = m.marco
    BY <1>0, <1>6, <2>1
  <2>3. Fija(p, n, f)
    <3>1. CASE m \in ToSet(respuestas)
      BY <1>6, <2>1, <2>2, <3>1 DEF Fijas
    <3>2. ASSUME m \notin ToSet(respuestas), p \notin Achican PROVE Fija(p, n, f)
      <4>1. DevolverNroMarco /\ mem.nro < Len(tabla) /\ f = tabla[mem.nro + 1]
        BY <1>6, <2>2, <3>2, MarcosContestados
      <4>2. mem.pc = "busca_marco" /\ mem.pid = p /\ mem.nro = n
        BY <1>6, <2>1, <2>2, <4>1, PuntosDeMem DEF DevolverNroMarco, Turno, EnCurso, Atiende
      <4>3. n \in PaginasDe(p) /\ n \in Nat
        BY <1>6, <2>1, <2>2, <3>2, <4>2 DEF Fijas, TypeOK, TipoMemoria, LocalesMem
      <4>4. /\ Len(tabla_de_paginas[p]) \in Nat
            /\ \A k \in 1..Len(tabla_de_paginas[p]) : tabla_de_paginas[p][k] \in Marcos
        BY <2>2, TablaTipada DEF TypeOK
      <4>5. n + 1 \in 1..Len(tabla_de_paginas[p]) /\ f = tabla_de_paginas[p][n + 1]
        BY <4>1, <4>2, <4>3, <4>4 DEF tabla
      <4>6. PICK k \in 1..Len(tabla_de_paginas[p]) : k = n + 1 /\ k - 1 = n
        BY <4>3, <4>5
      <4>7. marcos[f] = Pagina(p, k - 1)
        BY <2>2, <4>5, <4>6 DEF Fieles, TablasFieles
      <4> QED BY <4>3, <4>4, <4>5, <4>6, <4>7 DEF Fija
    <3>3. p \in Achican => Fija(p, n, f)
      BY DEF Fija
    <3> QED BY <3>1, <3>2, <3>3
  <2>4. Fija(p, n, f)'
    BY <1>1, <2>2, <2>3
  <2> QED BY <2>1, <2>2, <2>4
<1>7. ASSUME cpu'.pc = "accede" PROVE Fija(cpu.pid, cpu.nro, cpu.marco)'
  <2>1. PICK p, n, f : p = cpu'.pid /\ n = cpu'.nro /\ f = cpu'.marco
    OBVIOUS
  <2>2. p \in Pids /\ Fija(p, n, f)
    <3>1. CASE cpu' = cpu
      BY <1>0, <1>7, <2>1, <3>1 DEF Fijas
    <3>2. CASE CpuRecibeMarco /\ p = cpu.pid /\ n = cpu.nro /\ f = Head(respuestas).marco
      BY <1>2, <3>2
    <3>3. CASE \E e \in ToSet(tlb) : p = e.pid /\ n = e.nro /\ f = e.marco
      BY <1>3, <3>3
    <3> QED BY <1>7, <2>1, <3>1, <3>2, <3>3, CpuTraduce
  <2>3. Fija(p, n, f)'
    BY <1>1, <2>2
  <2> QED BY <2>1, <2>3
<1>8. ASSUME NEW m \in ToSet(pedidos'), m.tipo \in {"lee", "escribe"} PROVE Fija(m.pid, m.nro, m.marco)'
  <2>1. PICK p, n, f : p = m.pid /\ n = m.nro /\ f = m.marco
    OBVIOUS
  <2>2. p \in Pids /\ Fija(p, n, f)
    <3>1. CASE m \in ToSet(pedidos)
      <4>1. m \in Pedidos
        BY <1>0, <3>1, Elementos
      <4> QED BY <1>8, <2>1, <3>1, <4>1 DEF Fijas, Pedidos
    <3>2. CASE m \notin ToSet(pedidos)
      BY <1>0, <1>8, <2>1, <3>2, AccesosNuevos DEF Fijas
    <3> QED BY <3>1, <3>2
  <2>3. Fija(p, n, f)'
    BY <1>1, <2>2
  <2> QED BY <2>1, <2>3
<1> QED BY <1>4, <1>5, <1>6, <1>7, <1>8 DEF Fijas

(***************************************************************************)
(* The TLB and the times of its entries.                                   *)
(***************************************************************************)
\* Both queues hold the same entries, each of them once.
MismasEntradas ==
  /\ IsInjective(tlb) /\ IsInjective(tiempos)
  /\ ToSet(tiempos) = ToSet(tlb) /\ Len(tiempos) = Len(tlb)

\* A page has one entry at most, none while its frame is asked for, and there
\* are never more than CANTIDAD_ENTRADAS_TLB.
TlbFiel ==
  /\ MismasEntradas /\ Len(tlb) <= EntradasTlb
  /\ \A d, e \in ToSet(tlb) : d.pid = e.pid /\ d.nro = e.nro => d = e
  /\ cpu.pc = "marco" => \A e \in ToSet(tlb) : e.pid # cpu.pid \/ e.nro # cpu.nro

\* What colocar_pagina_en_tlb does to them, and what it never evicts.
LEMMA ColocaFiel ==
  ASSUME tlb \in Seq(Entradas), tiempos \in Seq(Entradas), MismasEntradas, Len(tlb) <= EntradasTlb,
         NEW e \in Entradas, e \notin ToSet(tlb), colocar_pagina_en_tlb(e)
  PROVE  /\ MismasEntradas' /\ Len(tlb)' <= EntradasTlb
         /\ AlgoritmoTlb = "LRU" /\ EntradasTlb >= 2 /\ tiempos # <<>> => Last(tiempos) \in ToSet(tlb')
<1>0. /\ EntradasTlb \in Nat /\ Len(tlb) \in Nat /\ Len(tiempos) = Len(tlb)
      /\ IsInjective(tlb) /\ IsInjective(tiempos) /\ ToSet(tiempos) = ToSet(tlb)
  BY TlbAssumption DEF MismasEntradas
<1>u. ASSUME tiempos # <<>>
      PROVE  Last(tiempos) \in ToSet(tlb) /\ (Len(tiempos) >= 2 => Last(tiempos) # Head(tiempos))
  <2>1. Len(tiempos) \in Nat \ {0} /\ Head(tiempos) = tiempos[1]
    BY <1>u, MensajeRecibido
  <2>2. Last(tiempos) = tiempos[Len(tiempos)] /\ DOMAIN tiempos = 1..Len(tiempos)
    BY DEF Last
  <2>3. Last(tiempos) \in ToSet(tiempos)
    BY <2>1, <2>2 DEF ToSet
  <2> QED BY <1>0, <2>1, <2>2, <2>3 DEF IsInjective
<1>1. CASE EntradasTlb = 0
  BY <1>0, <1>1, <1>u DEF colocar_pagina_en_tlb, MismasEntradas
<1>2. CASE EntradasTlb > 0 /\ Len(tlb) < EntradasTlb
  <2>1. tlb' = Append(tlb, e) /\ tiempos' = Append(tiempos, e)
    BY <1>0, <1>2 DEF colocar_pagina_en_tlb
  <2>2. /\ ToSet(Append(tlb, e)) = ToSet(tlb) \cup {e} /\ Len(Append(tlb, e)) = Len(tlb) + 1
        /\ ToSet(Append(tiempos, e)) = ToSet(tiempos) \cup {e} /\ Len(Append(tiempos, e)) = Len(tiempos) + 1
        /\ IsInjective(Append(tlb, e)) /\ IsInjective(Append(tiempos, e))
    BY <1>0, Enviado, ElementosAgrega
  <2>3. /\ ToSet(tlb') = ToSet(tlb) \cup {e} /\ Len(tlb') = Len(tlb) + 1
        /\ ToSet(tiempos') = ToSet(tlb) \cup {e} /\ Len(tiempos') = Len(tlb) + 1
        /\ IsInjective(tlb') /\ IsInjective(tiempos')
    BY <1>0, <2>1, <2>2
  <2> QED BY <1>0, <1>2, <1>u, <2>3 DEF MismasEntradas
<1>3. CASE EntradasTlb > 0 /\ Len(tlb) = EntradasTlb
  <2> DEFINE a == RemoveFirst(tlb, victima)
             b == RemoveFirst(tiempos, victima)
  <2>1. tlb' = Append(a, e) /\ tiempos' = Append(b, e)
    BY <1>0, <1>3 DEF colocar_pagina_en_tlb
  <2>2. victima \in ToSet(tlb)
    <3>1. tlb # <<>> /\ tiempos # <<>>
      BY <1>0, <1>3, EmptySeq
    <3>2. Head(tlb) \in ToSet(tlb) /\ Head(tiempos) \in ToSet(tlb)
      BY <1>0, <3>1, MensajeRecibido
    <3> QED BY <3>2 DEF victima
  <2>3. /\ a \in Seq(Entradas) /\ Len(a) = Len(tlb) - 1 /\ ToSet(a) = ToSet(tlb) \ {victima} /\ IsInjective(a)
        /\ b \in Seq(Entradas) /\ Len(b) = Len(tlb) - 1 /\ ToSet(b) = ToSet(tlb) \ {victima} /\ IsInjective(b)
    BY <1>0, <2>2, ElementosSinPrimero
  <2> HIDE DEF a, b
  <2>4. /\ ToSet(Append(a, e)) = ToSet(a) \cup {e} /\ Len(Append(a, e)) = Len(a) + 1
        /\ ToSet(Append(b, e)) = ToSet(b) \cup {e} /\ Len(Append(b, e)) = Len(b) + 1
        /\ IsInjective(Append(a, e)) /\ IsInjective(Append(b, e))
    BY <2>3, Enviado, ElementosAgrega
  <2>5. /\ ToSet(tlb') = (ToSet(tlb) \ {victima}) \cup {e} /\ Len(tlb') = Len(tlb)
        /\ ToSet(tiempos') = (ToSet(tlb) \ {victima}) \cup {e} /\ Len(tiempos') = Len(tlb)
        /\ IsInjective(tlb') /\ IsInjective(tiempos')
    BY <1>0, <2>1, <2>3, <2>4
  <2>6. ASSUME AlgoritmoTlb = "LRU", EntradasTlb >= 2, tiempos # <<>> PROVE Last(tiempos) \in ToSet(tlb')
    <3>1. victima = Head(tiempos) /\ Len(tiempos) >= 2
      BY <1>0, <1>3, <2>6 DEF victima
    <3> QED BY <1>u, <2>5, <2>6, <3>1
  <2> QED BY <1>0, <2>5, <2>6 DEF MismasEntradas
<1> QED BY <1>0, <1>1, <1>2, <1>3

\* A hit puts its entry at the end of the times, and takes it from where it was.
LEMMA AciertoFiel ==
  ASSUME tlb \in Seq(Entradas), tiempos \in Seq(Entradas), MismasEntradas,
         NEW e \in ToSet(tlb), tiempos' = Append(RemoveFirst(tiempos, e), e), tlb' = tlb
  PROVE  MismasEntradas'
<1> DEFINE b == RemoveFirst(tiempos, e)
<1>1. e \in Entradas /\ e \in ToSet(tiempos)
  BY Elementos DEF MismasEntradas
<1>2. b \in Seq(Entradas) /\ Len(b) = Len(tiempos) - 1 /\ ToSet(b) = ToSet(tiempos) \ {e} /\ IsInjective(b)
  BY <1>1, ElementosSinPrimero DEF MismasEntradas
<1> HIDE DEF b
<1>3. ToSet(Append(b, e)) = ToSet(b) \cup {e} /\ Len(Append(b, e)) = Len(b) + 1 /\ IsInjective(Append(b, e))
  BY <1>1, <1>2, Enviado, ElementosAgrega
<1>4. tiempos' = Append(b, e) /\ Len(tiempos) \in Nat
  BY DEF b
<1>5. ToSet(tiempos') = ToSet(tiempos) /\ Len(tiempos') = Len(tiempos) /\ IsInjective(tiempos')
  <2>1. Len(Append(b, e)) = Len(tiempos)
    BY <1>2, <1>3, <1>4
  <2>2. ToSet(Append(b, e)) = ToSet(tiempos)
    BY <1>1, <1>2, <1>3
  <2> QED BY <1>3, <1>4, <2>1, <2>2
<1> QED BY <1>5 DEF MismasEntradas

\* Every step keeps the TLB, and with LRU the entry used last.
LEMMA TlbSigue ==
  ASSUME TypeOK, TipoCruzado, TlbFiel, [Next]_vars
  PROVE  /\ TlbFiel'
         /\ AlgoritmoTlb = "LRU" /\ EntradasTlb >= 2 /\ tiempos # <<>> => Contains(tlb', Last(tiempos))
<1>0. /\ tlb \in Seq(Entradas) /\ tiempos \in Seq(Entradas) /\ tlb' \in Seq(Entradas)
      /\ MismasEntradas /\ Len(tlb) <= EntradasTlb
  BY TipoCpuSigue DEF TypeOK, TipoCpu, TlbFiel
<1> DEFINE Queda == AlgoritmoTlb = "LRU" /\ EntradasTlb >= 2 /\ tiempos # <<>> => Contains(tlb', Last(tiempos))
<1>u. ASSUME tlb' = tlb PROVE Queda
  <2> SUFFICES ASSUME tiempos # <<>> PROVE Contains(tlb', Last(tiempos))
    OBVIOUS
  <2>1. Len(tiempos) \in Nat \ {0}
    BY <1>0, MensajeRecibido
  <2>2. Last(tiempos) \in ToSet(tiempos)
    BY <1>0, <2>1 DEF Last, ToSet
  <2>3. Last(tiempos) \in ToSet(tlb')
    BY <1>0, <1>u, <2>2 DEF MismasEntradas
  <2> QED BY <1>0, <2>3, Elementos
<1>1. ASSUME CpuRecibeMarco PROVE TlbFiel' /\ Queda
  <2> DEFINE f == Head(respuestas).marco
  <2>1. respuestas # <<>> /\ Head(respuestas).tipo = "marco" /\ cpu.pc = "marco"
        /\ colocar_pagina_en_tlb(Entrada(cpu.pid, cpu.nro, f)) /\ cpu' = [cpu EXCEPT !.pc = "accede", !.marco = f]
    BY <1>1 DEF CpuRecibeMarco, RecibeBuffer
  <2>2. f \in Marcos
    BY <2>1, SocketCpu DEF TypeOK, TipoMensajes, TipoCruzado
  <2>3. cpu \in LocalesCpu /\ cpu.pid \in Pids /\ cpu.nro \in Nat
    BY <2>1 DEF TipoCruzado, CpuTipada, LocalesCpu
  <2>4. cpu'.pc = "accede"
    BY <2>1, <2>3 DEF LocalesCpu
  <2> HIDE DEF f
  <2>5. PICK e \in Entradas : e = Entrada(cpu.pid, cpu.nro, f) /\ e.pid = cpu.pid /\ e.nro = cpu.nro
    <3>1. PICK p \in Pids, n \in Nat : p = cpu.pid /\ n = cpu.nro
      BY <2>3
    <3>2. Entrada(p, n, f) \in Entradas /\ Entrada(p, n, f).pid = p /\ Entrada(p, n, f).nro = n
      BY <2>2 DEF Entradas, Entrada
    <3> QED BY <3>1, <3>2
  <2>6. \A d \in ToSet(tlb) : d.pid # e.pid \/ d.nro # e.nro
    BY <2>1, <2>5 DEF TlbFiel
  <2>7. e \notin ToSet(tlb)
    BY <2>6
  <2>8. /\ MismasEntradas' /\ Len(tlb)' <= EntradasTlb
        /\ AlgoritmoTlb = "LRU" /\ EntradasTlb >= 2 /\ tiempos # <<>> => Last(tiempos) \in ToSet(tlb')
    BY <1>0, <2>1, <2>5, <2>7, ColocaFiel
  <2>9. ToSet(tlb') \subseteq ToSet(tlb) \cup {e}
    BY <1>0, <2>1, <2>5, TlbTipada
  <2>10. \A c, d \in ToSet(tlb') : c.pid = d.pid /\ c.nro = d.nro => c = d
    BY <2>6, <2>9 DEF TlbFiel
  <2>11. TlbFiel'
    BY <2>4, <2>8, <2>10 DEF TlbFiel
  <2> QED BY <1>0, <2>8, <2>11, Elementos
<1>2. ASSUME UNCHANGED <<tlb, tiempos>>, cpu'.pc = "marco" => cpu' = cpu PROVE TlbFiel'
  BY <1>2 DEF TlbFiel, MismasEntradas
<1>3. ASSUME NEW n, TlbHit(n) PROVE TlbFiel' /\ Queda
  <2>1. PICK e \in Encontradas(n) : /\ cpu' = [cpu EXCEPT !.pc = "accede", !.nro = n, !.marco = e.marco]
                                    /\ tiempos' = Append(RemoveFirst(tiempos, e), e) /\ tlb' = tlb
    BY <1>3 DEF TlbHit
  <2>2. e \in ToSet(tlb)
    BY DEF Encontradas
  <2>3. cpu'.pc = "accede"
    BY <2>1 DEF TypeOK, TipoCpu, LocalesCpu
  <2>4. MismasEntradas'
    BY <1>0, <2>1, <2>2, AciertoFiel
  <2> QED BY <1>u, <2>1, <2>3, <2>4 DEF TlbFiel
<1>4. ASSUME NEW n, TlbMiss(n) PROVE TlbFiel' /\ Queda
  <2>1. /\ UNCHANGED <<tlb, tiempos>> /\ Encontradas(n) = {} /\ cpu' = [cpu EXCEPT !.pc = "marco", !.nro = n]
    BY <1>4 DEF TlbMiss
  <2>2. cpu'.pid = cpu.pid /\ cpu'.nro = n
    BY <2>1 DEF TypeOK, TipoCpu, LocalesCpu
  <2>3. \A e \in ToSet(tlb) : e.pid # cpu'.pid \/ e.nro # cpu'.nro
    BY <2>1, <2>2 DEF Encontradas
  <2> QED BY <1>u, <2>1, <2>3 DEF TlbFiel, MismasEntradas
<1>5. ASSUME UNCHANGED <<tlb, tiempos>>, ~CpuRecibeMarco, ~Traducir PROVE TlbFiel' /\ Queda
  <2>1. ASSUME cpu' # cpu, cpu'.pc = "marco" PROVE FALSE
    <3>1. Cpu \/ \E p \in Pids : CpuEmpieza(p)
      BY <2>1, PasosAjenos DEF Next, vars, estadoCpu
    <3>2. \/ cpu' = CpuOciosa
          \/ \E c \in {"decodifica", "trabada", "instruccion", "continua", "dato", "resize"} :
               cpu' = [cpu EXCEPT !.pc = c]
          \/ \E p : cpu' = [cpu EXCEPT !.pc = "instruccion", !.pid = p]
      BY <1>5, <3>1 DEF Cpu, CpuRecibeInstruccion, CpuSeTraba, CpuDevuelve, CpuRecibeResize, CpuRecibeDato,
             MovOut, MovIn, EjecutarResize, CpuEmpieza, EnCpu
    <3>3. cpu \in LocalesCpu
      BY DEF TypeOK, TipoCpu
    <3>4. CASE cpu' = CpuOciosa
      BY <2>1, <3>4 DEF CpuOciosa
    <3>5. ASSUME NEW c \in {"decodifica", "trabada", "instruccion", "continua", "dato", "resize"},
                 cpu' = [cpu EXCEPT !.pc = c]
          PROVE  FALSE
      BY <2>1, <3>3, <3>5 DEF LocalesCpu
    <3>6. ASSUME NEW p, cpu' = [cpu EXCEPT !.pc = "instruccion", !.pid = p] PROVE FALSE
      BY <2>1, <3>3, <3>6 DEF LocalesCpu
    <3> QED BY <3>2, <3>4, <3>5, <3>6
  <2> QED BY <1>2, <1>5, <1>u, <2>1
<1>6. ASSUME ~CpuRecibeMarco, ~Traducir PROVE UNCHANGED <<tlb, tiempos>>
  <2>1. Cpu => UNCHANGED <<tlb, tiempos>>
    BY <1>6 DEF Cpu, CpuRecibeInstruccion, CpuSeTraba, CpuDevuelve, CpuRecibeResize, CpuRecibeDato,
           MovOut, MovIn, EjecutarResize
  <2> QED BY <2>1, PasosAjenos DEF Next, vars, estadoCpu
<1>7. ASSUME Traducir PROVE TlbFiel' /\ Queda
  BY <1>3, <1>4, <1>7 DEF Traducir
<1> HIDE DEF Queda
<1>8. TlbFiel' /\ Queda
  BY <1>1, <1>5, <1>6, <1>7
<1> QED BY <1>8 DEF Queda

(***************************************************************************)
(* Theorems.                                                               *)
(***************************************************************************)

\* The CPU and Memoria start in turn, with no translation made.
LEMMA AccesoInicial == Init => PInv /\ Turno /\ Fijas
<1> SUFFICES ASSUME Init PROVE PInv /\ Turno /\ Fijas
  OBVIOUS
<1>1. PInv
  BY PInvInicial
<1>2. /\ mem.pc = "espera" /\ cpu.pc = "libre" /\ pedidos = <<>> /\ respuestas = <<>> /\ tlb = <<>>
  BY DEF Init, Inactiva, CpuOciosa
<1>3. Len(pedidos) = 0 /\ Len(respuestas) = 0 /\ ToSet(pedidos) = {} /\ ToSet(tlb) = {}
  BY <1>2, EmptySeq DEF ToSet
<1>4. Turno
  BY <1>2, <1>3, PuntosDeMem DEF Turno, EnTurno, EnCurso, UnaRespuesta, Pendiente, SonSobras
<1>5. Fijas
  BY <1>2, <1>3 DEF Fijas
<1> QED BY <1>1, <1>4, <1>5

\* The answer of each request reaches the step of the CPU that waits for it:
\* a request with an answer is the last of its socket, Memoria is not busy
\* with another, and no answer is left over but the PEDIDO_OK that follows
\* the error of a RESIZE.
THEOREM CadaCualATiempo == Spec => []Turno
<1> DEFINE I == PInv /\ Turno
<1>1. Init => I
  BY AccesoInicial
<1>2. I /\ [Next]_vars => I'
  BY PInvSigue, TurnoSigue DEF PInv
<1>3. I => Turno
  OBVIOUS
<1> HIDE DEF I
<1> QED BY <1>1, <1>2, <1>3, PTL DEF Spec

\* MOV_IN and MOV_OUT of a program that never shrinks reach the frame of the
\* page it named, with a TLB that nobody invalidates and whatever the other
\* programs do: shrink, grow, end.
THEOREM AccesoDeCadaUno == Spec => []AccesoPropio
<1> DEFINE I == PInv /\ Turno /\ Fijas
<1>1. Init => I
  BY AccesoInicial
<1>2. I /\ [Next]_vars => I'
  <2> SUFFICES ASSUME I, [Next]_vars PROVE I'
    OBVIOUS
  <2>1. TypeOK /\ TipoCruzado /\ Censo /\ Fieles
    BY SinCompartirPartes DEF PInv, Fieles, TypeOK
  <2> QED BY <2>1, PInvSigue, TurnoSigue, FijasSiguen
<1>3. I => AccesoPropio
  <2> SUFFICES ASSUME I, NEW k \in DOMAIN pedidos, pedidos[k].tipo \in {"escribe", "lee"}, pedidos[k].pid \notin Achican
               PROVE  marcos[pedidos[k].marco] = Pagina(pedidos[k].pid, pedidos[k].nro)
    BY DEF AccesoPropio
  <2>1. pedidos[k] \in ToSet(pedidos)
    BY DEF ToSet
  <2> QED BY <2>1 DEF Fijas, Fija
<1> HIDE DEF I
<1> QED BY <1>1, <1>2, <1>3, PTL DEF Spec

\* The TLB holds each page once, and no more of them than its entries: no
\* page is translated in two ways.
THEOREM UnaEntradaPorPagina == Spec => []TlbFiel
<1> DEFINE I == PInv /\ TlbFiel
<1>1. Init => I
  <2> SUFFICES ASSUME Init PROVE TlbFiel
    BY PInvInicial
  <2>1. tlb = <<>> /\ tiempos = <<>> /\ cpu.pc = "libre"
    BY DEF Init, CpuOciosa
  <2>2. ToSet(tlb) = {} /\ Len(tlb) = 0 /\ IsInjective(tlb)
    BY <2>1, EmptySeq DEF ToSet, IsInjective
  <2> QED BY <2>1, <2>2, TlbAssumption DEF TlbFiel, MismasEntradas
<1>2. I /\ [Next]_vars => I'
  BY PInvSigue, TlbSigue DEF PInv
<1>3. I => TlbFiel
  OBVIOUS
<1> HIDE DEF I
<1> QED BY <1>1, <1>2, <1>3, PTL DEF Spec

\* LRU with two entries or more: no step evicts the translation used last.
THEOREM LaUltimaQueda == Spec => UltimaQueda
<1>1. PInv /\ TlbFiel /\ [Next]_vars =>
        (AlgoritmoTlb = "LRU" /\ EntradasTlb >= 2 /\ tiempos # <<>> => Contains(tlb', Last(tiempos)))
  BY TlbSigue DEF PInv
<1>2. Spec => []PInv
  BY PInvInicial, PInvSigue, PTL DEF Spec
<1>3. Spec => []TlbFiel
  BY UnaEntradaPorPagina
<1> QED BY <1>1, <1>2, <1>3, PTL DEF Spec, UltimaQueda
=============================================================================
