------------------------- MODULE AccesoMemoria_proofs -------------------------
(***************************************************************************)
(* Theorems about AccesoMemoria, for any tables of pages and any accesses, *)
(* when no device starts a write in the middle of a page and leaves it     *)
(* (~Cruces): the types, that each process has a memory of its own where   *)
(* every access is done at once (EspacioLogico), and that only the read of *)
(* a device inside a page kills Memoria.                                   *)
(***************************************************************************)
EXTENDS AccesoMemoria, Secuencias_lemas

(***************************************************************************)
(* The invariant.                                                          *)
(***************************************************************************)
\* n bytes of p from d on, in one page.
Parte(p, d, n) ==
  /\ p \in Procesos /\ d \in Nat /\ n \in Nat \ {0}
  /\ Desplazamiento(d) + n <= TamPagina /\ d + n <= Tamanios[p]

Piezas == [dir : Nat, datos : Seq(Bytes)]
DeProceso(w, p) ==
  \E d \in 0..(Tamanios[p] - 1) : Parte(p, d, Len(w.datos)) /\ w.dir = DirFisica(p, d)

Usos == [acceso : Accesos \cup {Nulo}, fase : {"libre", "lee", "escribe", "empieza", "sigue"},
         dir : Nat, datos : Seq(Bytes)]

\* The memory of p when the pieces in the socket have arrived, the CPU has c
\* and the device of p has i; and what p has asked for.
Ver(m, c, i, p) ==
  CASE c.fase = "escribe" /\ c.acceso.pid = p /\ Len(c.datos) < c.acceso.n ->
         Copiada(Vista(m, p), c.dir, c.datos)
    [] i.fase = "sigue" /\ i.acceso.tipo = "ENTRADA" ->
         Copiada(Vista(m, p), i.acceso.dir + i.acceso.n - Len(i.datos), i.datos)
    [] OTHER -> Vista(m, p)
Pide(c, i, p) ==
  CASE /\ c.fase # "libre" /\ c.acceso.pid = p
       /\ ~(c.fase = "escribe" /\ Len(c.datos) < c.acceso.n) -> c.acceso
    [] i.fase # "libre" /\ ~(i.fase = "sigue" /\ i.acceso.tipo = "ENTRADA") -> i.acceso
    [] OTHER -> Nulo

\* Where an instruction writes, and what, when the memory of its process is v.
Inicio(a) == IF a.tipo = "COPY_STRING" THEN a.destino ELSE a.dir
Escrito(a, v) == IF a.tipo = "COPY_STRING" THEN Contenido(v, a.dir, a.n) ELSE a.datos

\* The CPU has read the first bytes of its access, or has the last ones of it
\* still to write.
CpuFiel(c, v) ==
  LET a == c.acceso IN
  /\ c.fase \in {"lee", "escribe"} /\ a \in Accesos
  /\ c.fase = "lee" =>
       /\ a.tipo \in {"MOV_IN", "COPY_STRING"} /\ Len(c.datos) < a.n
       /\ c.dir = a.dir + Len(c.datos) /\ c.datos = Contenido(v, a.dir, Len(c.datos))
  /\ c.fase = "escribe" =>
       /\ a.tipo \in {"MOV_OUT", "COPY_STRING"} /\ Len(c.datos) \in 1..a.n
       /\ c.dir = Inicio(a) + a.n - Len(c.datos)
       /\ Len(c.datos) = a.n => c.datos = Escrito(a, v)

\* The same of the device of p, that goes on from the page it did last.
IoFiel(i, p, v) ==
  LET a == i.acceso
      x == IF a.tipo = "ENTRADA" THEN a.dir + a.n - Len(i.datos) ELSE a.dir + Len(i.datos) IN
  /\ i.fase \in {"empieza", "sigue"} /\ a \in Accesos /\ a.pid = p
  /\ a.tipo \in {"ENTRADA", "SALIDA"} /\ Admitido(a)
  /\ i.fase = "empieza" => i.dir = DirFisica(p, a.dir) /\ i.datos = a.datos
  /\ i.fase = "sigue" =>
       /\ Len(i.datos) \in 1..(a.n - 1)
       /\ Desplazamiento(x) = 0 /\ x >= TamPagina
       /\ i.dir \div TamPagina = Tablas[p][x \div TamPagina]
       /\ a.tipo = "SALIDA" => i.datos = Contenido(v, a.dir, Len(i.datos))

Tipos ==
  /\ memoria_fisica \in [Direcciones -> Bytes]
  /\ cpu \in Usos /\ (cpu.fase # "libre" => cpu.acceso \in Accesos)
  /\ interfaz \in [Procesos -> Usos]
  /\ socket_cpu \in Seq(Piezas)
  /\ leido \in [Procesos -> Seq(Bytes)]
  /\ hechos \in 0..MaxAccesos /\ falla \in BOOLEAN

\* The pieces in the socket are of processes that no device works for.
Apartadas(s, dispositivos) ==
  \A k \in 1..Len(s) :
    \E q \in Procesos : DeProceso(s[k], q) /\ dispositivos[q].fase = "libre"

\* A process is served by the CPU or by a device, not by both.
Fiel(m, c, i, p) ==
  /\ c.fase # "libre" /\ c.acceso.pid = p => i.fase = "libre" /\ CpuFiel(c, Ver(m, c, i, p))
  /\ i.fase # "libre" => IoFiel(i, p, Ver(m, c, i, p))

\* What kills Memoria.
Muerte ==
  falla => \E p \in Procesos : interfaz[p].fase # "libre" /\ Dentro(interfaz[p].acceso)

AInv ==
  /\ Tipos /\ Muerte /\ Apartadas(socket_cpu, interfaz)
  /\ \A p \in Procesos : Fiel(Llegan(memoria_fisica, socket_cpu), cpu, interfaz[p], p)

(***************************************************************************)
(* Addresses.                                                              *)
(***************************************************************************)

LEMMA Pagina ==
  ASSUME NEW d \in Nat
  PROVE  /\ d \div TamPagina \in Nat /\ Desplazamiento(d) \in 0..(TamPagina - 1)
         /\ d = (d \div TamPagina) * TamPagina + Desplazamiento(d)
<1>1. TamPagina \in Nat /\ TamPagina > 0
  BY TamPaginaAssumption
<1> QED BY <1>1 DEF Desplazamiento

\* There is one way to write an address as a page and an offset.
LEMMA Cociente ==
  ASSUME NEW q \in Nat, NEW r \in 0..(TamPagina - 1)
  PROVE  /\ q * TamPagina + r \in Nat
         /\ (q * TamPagina + r) \div TamPagina = q /\ Desplazamiento(q * TamPagina + r) = r
<1> DEFINE b == TamPagina
           t == q * b
           e == (t + r) \div b
           o == (t + r) % b
<1>1. b \in Nat /\ b > 0 /\ t \in Nat /\ r \in Nat /\ r < b /\ t + r \in Nat
  BY TamPaginaAssumption
<1>2. e \in Int /\ o \in Nat /\ o < b /\ t + r = e * b + o
  BY <1>1
<1> HIDE DEF e, o
<1>3. ASSUME e >= q + 1 PROVE FALSE
  <2>1. e * b >= (q + 1) * b
    BY <1>1, <1>2, <1>3
  <2>2. (q + 1) * b = t + b /\ e * b \in Int
    BY <1>1, <1>2
  <2> QED BY <1>1, <1>2, <2>1, <2>2
<1>4. ASSUME e + 1 <= q PROVE FALSE
  <2>1. (e + 1) * b <= q * b
    BY <1>1, <1>2, <1>4
  <2>2. (e + 1) * b = e * b + b /\ e * b \in Int
    BY <1>1, <1>2
  <2> QED BY <1>1, <1>2, <2>1, <2>2
<1>5. e = q
  BY <1>2, <1>3, <1>4
<1>6. o = r
  BY <1>1, <1>2, <1>5
<1> QED BY <1>1, <1>5, <1>6 DEF Desplazamiento, e, o

LEMMA MismaPagina ==
  ASSUME NEW d \in Nat, NEW j \in Nat, Desplazamiento(d) + j < TamPagina
  PROVE  /\ (d + j) \div TamPagina = d \div TamPagina
         /\ Desplazamiento(d + j) = Desplazamiento(d) + j
<1>1. PICK q \in Nat, r \in Nat : /\ q = d \div TamPagina /\ r = Desplazamiento(d)
                                  /\ d = q * TamPagina + r
  BY Pagina
<1>2. r + j \in 0..(TamPagina - 1) /\ q * TamPagina \in Nat
  BY <1>1, TamPaginaAssumption
<1>3. d + j = q * TamPagina + (r + j)
  BY <1>1, <1>2
<1> QED BY <1>1, <1>2, <1>3, Cociente

\* The first byte of the page after that of d.
LEMMA FinDePagina ==
  ASSUME NEW d \in Nat, NEW t, t = TamPagina - Desplazamiento(d)
  PROVE  /\ t \in Nat /\ t > 0 /\ d + t >= TamPagina
         /\ (d + t) \div TamPagina = (d \div TamPagina) + 1
         /\ Desplazamiento(d + t) = 0
<1>1. PICK q \in Nat, r \in 0..(TamPagina - 1) :
        q = d \div TamPagina /\ r = Desplazamiento(d) /\ d = q * TamPagina + r
  BY Pagina
<1>2. q * TamPagina \in Nat /\ TamPagina \in Nat /\ TamPagina > 0 /\ t = TamPagina - r
  BY <1>1, TamPaginaAssumption
<1>3. t \in Nat /\ t > 0 /\ d + t >= TamPagina
  BY <1>1, <1>2
<1>4. d + t = (q + 1) * TamPagina + 0 /\ 0 \in 0..(TamPagina - 1)
  BY <1>1, <1>2
<1> QED BY <1>1, <1>3, <1>4, Cociente

LEMMA Tablillas ==
  ASSUME NEW p \in Procesos
  PROVE  /\ Tablas[p] \in Seq(0..(CantMarcos - 1)) /\ DOMAIN Tablas[p] = 1..Len(Tablas[p])
         /\ Tamanios[p] = Len(Tablas[p]) * TamPagina /\ Tamanios[p] \in Nat
<1>1. Tablas[p] \in Seq(0..(CantMarcos - 1))
  BY TablasAssumption
<1>2. DOMAIN Tablas[p] = 1..Len(Tablas[p]) /\ Len(Tablas[p]) \in Nat
  BY <1>1
<1> QED BY <1>1, <1>2, TamPaginaAssumption DEF Tamanios

LEMMA Crece ==
  ASSUME NEW x \in Nat, NEW y \in Nat, NEW b \in Nat, x <= y
  PROVE  x * b <= y * b /\ x * b \in Nat /\ y * b \in Nat
OBVIOUS

LEMMA Marco ==
  ASSUME NEW p \in Procesos, NEW d \in 0..(Tamanios[p] - 1)
  PROVE  /\ d \in Nat /\ 1 + (d \div TamPagina) \in DOMAIN Tablas[p]
         /\ Tablas[p][1 + (d \div TamPagina)] \in 0..(CantMarcos - 1)
         /\ DirFisica(p, d) \in Direcciones /\ DirFisica(p, d) \in Nat
         /\ DirFisica(p, d) \div TamPagina = Tablas[p][1 + (d \div TamPagina)]
         /\ Desplazamiento(DirFisica(p, d)) = Desplazamiento(d)
<1> DEFINE l == Len(Tablas[p])
<1>1. /\ Tablas[p] \in Seq(0..(CantMarcos - 1)) /\ DOMAIN Tablas[p] = 1..l
      /\ Tamanios[p] = l * TamPagina /\ Tamanios[p] \in Nat /\ l \in Nat
  BY Tablillas
<1>2. d \in Nat /\ d < l * TamPagina
  BY <1>1
<1> HIDE DEF l
<1>3. PICK q \in Nat, r \in 0..(TamPagina - 1) :
        q = d \div TamPagina /\ r = Desplazamiento(d) /\ d = q * TamPagina + r
  BY <1>2, Pagina
<1>4. q < l
  <2> SUFFICES ASSUME q >= l PROVE FALSE
    BY <1>1, <1>3
  <2>1. l * TamPagina <= q * TamPagina /\ q * TamPagina \in Nat /\ l * TamPagina \in Nat
    BY <1>1, <1>3, TamPaginaAssumption, Crece
  <2>2. d >= q * TamPagina
    BY <1>3, <2>1
  <2> QED BY <1>2, <2>1, <2>2
<1>5. 1 + q \in DOMAIN Tablas[p]
  <2>1. 1 + q \in 1..l
    BY <1>1, <1>3, <1>4
  <2> QED BY <1>1, <2>1
<1>6. PICK f \in 0..(CantMarcos - 1) : f = Tablas[p][1 + q]
  <2>1. \A k \in DOMAIN Tablas[p] : Tablas[p][k] \in 0..(CantMarcos - 1)
    <3>1. Tablas[p] \in Seq(0..(CantMarcos - 1)) /\ DOMAIN Tablas[p] = 1..Len(Tablas[p])
      BY Tablillas
    <3> QED BY <3>1, ElementOfSeq
  <2> QED BY <1>5, <2>1
<1>7. f \in Nat /\ f + 1 <= CantMarcos /\ CantMarcos \in Nat
  BY <1>6, TablasAssumption
<1>8. DirFisica(p, d) = f * TamPagina + r
  BY <1>3, <1>6 DEF DirFisica
<1>9. f * TamPagina + r \in Direcciones
  <2>1. (f + 1) * TamPagina <= CantMarcos * TamPagina
    BY <1>7, TamPaginaAssumption, Crece
  <2>2. (f + 1) * TamPagina = f * TamPagina + TamPagina /\ f * TamPagina \in Nat
        /\ CantMarcos * TamPagina \in Nat
    BY <1>7, TamPaginaAssumption
  <2> QED BY <1>3, <2>1, <2>2, TamPaginaAssumption DEF Direcciones
<1>10. /\ f * TamPagina + r \in Nat /\ (f * TamPagina + r) \div TamPagina = f
       /\ Desplazamiento(f * TamPagina + r) = r
  BY <1>3, <1>7, Cociente
<1> QED BY <1>2, <1>3, <1>5, <1>6, <1>8, <1>9, <1>10

\* No two bytes are in the same place.
LEMMA SinCompartir ==
  ASSUME NEW p \in Procesos, NEW d \in 0..(Tamanios[p] - 1),
         NEW q \in Procesos, NEW e \in 0..(Tamanios[q] - 1),
         DirFisica(p, d) = DirFisica(q, e)
  PROVE  p = q /\ d = e
<1>1. /\ 1 + (d \div TamPagina) \in DOMAIN Tablas[p] /\ 1 + (e \div TamPagina) \in DOMAIN Tablas[q]
      /\ Tablas[p][1 + (d \div TamPagina)] = Tablas[q][1 + (e \div TamPagina)]
      /\ Desplazamiento(d) = Desplazamiento(e) /\ d \in Nat /\ e \in Nat
  BY Marco
<1>2. p = q /\ 1 + (d \div TamPagina) = 1 + (e \div TamPagina)
  BY <1>1, TablasAssumption
<1>3. d \div TamPagina = e \div TamPagina
  BY <1>1, <1>2, Pagina
<1> QED BY <1>1, <1>2, <1>3, Pagina

\* In a page, one byte is after another.
LEMMA Seguidas ==
  ASSUME NEW p, NEW d, NEW n, Parte(p, d, n), NEW j \in 0..(n - 1)
  PROVE  /\ d \in 0..(Tamanios[p] - 1) /\ d + j \in 0..(Tamanios[p] - 1)
         /\ DirFisica(p, d + j) = DirFisica(p, d) + j
<1>1. /\ p \in Procesos /\ d \in Nat /\ n \in Nat /\ n > 0 /\ j \in Nat /\ j < n
      /\ Desplazamiento(d) + n <= TamPagina /\ d + n <= Tamanios[p]
  BY DEF Parte
<1>2. Tamanios[p] \in Nat /\ Desplazamiento(d) \in Nat /\ TamPagina \in Nat
  BY <1>1, Tablillas, Pagina, TamPaginaAssumption
<1>3. d \in 0..(Tamanios[p] - 1) /\ d + j \in 0..(Tamanios[p] - 1)
  BY <1>1, <1>2
<1>4. /\ (d + j) \div TamPagina = d \div TamPagina
      /\ Desplazamiento(d + j) = Desplazamiento(d) + j
  <2>1. Desplazamiento(d) + j < TamPagina
    BY <1>1, <1>2
  <2> QED BY <1>1, <2>1, MismaPagina
<1>5. PICK f \in Nat : f = Tablas[p][1 + (d \div TamPagina)]
  BY <1>1, <1>3, Marco
<1>6. DirFisica(p, d) = f * TamPagina + Desplazamiento(d)
  BY <1>5 DEF DirFisica
<1>7. DirFisica(p, d + j) = f * TamPagina + (Desplazamiento(d) + j)
  BY <1>4, <1>5 DEF DirFisica
<1>8. f * TamPagina \in Nat
  BY <1>2, <1>5
<1> QED BY <1>1, <1>2, <1>3, <1>6, <1>7, <1>8

\* A piece is in the frames of its process only, byte by byte.
LEMMA Lugar ==
  ASSUME NEW p, NEW d, NEW n, Parte(p, d, n), NEW q \in Procesos, NEW e \in 0..(Tamanios[q] - 1)
  PROVE  /\ DirFisica(q, e) \in DirFisica(p, d)..(DirFisica(p, d) + n - 1)
              <=> (q = p /\ e \in d..(d + n - 1))
         /\ q = p /\ e \in d..(d + n - 1) => DirFisica(q, e) - DirFisica(p, d) = e - d
<1>1. /\ p \in Procesos /\ d \in Nat /\ n \in Nat /\ n > 0 /\ e \in Nat
      /\ d \in 0..(Tamanios[p] - 1) /\ DirFisica(p, d) \in Nat /\ DirFisica(q, e) \in Nat
  <2>1. p \in Procesos /\ d \in Nat /\ n \in Nat /\ n > 0
    BY DEF Parte
  <2>2. 0 \in 0..(n - 1)
    BY <2>1
  <2>3. d \in 0..(Tamanios[p] - 1)
    BY <2>2, Seguidas
  <2> QED BY <2>1, <2>3, Marco
<1>2. ASSUME DirFisica(q, e) \in DirFisica(p, d)..(DirFisica(p, d) + n - 1)
      PROVE  q = p /\ e \in d..(d + n - 1)
  <2>1. PICK j \in 0..(n - 1) : DirFisica(q, e) = DirFisica(p, d) + j
    <3>1. DirFisica(q, e) - DirFisica(p, d) \in 0..(n - 1)
      BY <1>1, <1>2
    <3>2. DirFisica(q, e) = DirFisica(p, d) + (DirFisica(q, e) - DirFisica(p, d))
      BY <1>1
    <3> QED BY <3>1, <3>2
  <2>2. d + j \in 0..(Tamanios[p] - 1) /\ DirFisica(p, d + j) = DirFisica(q, e)
    BY <2>1, Seguidas
  <2>3. q = p /\ e = d + j
    BY <1>1, <2>2, SinCompartir
  <2> QED BY <1>1, <2>1, <2>3
<1>3. ASSUME q = p, e \in d..(d + n - 1)
      PROVE  /\ DirFisica(q, e) \in DirFisica(p, d)..(DirFisica(p, d) + n - 1)
             /\ DirFisica(q, e) - DirFisica(p, d) = e - d
  <2>1. PICK j \in 0..(n - 1) : e = d + j
    <3>1. e - d \in 0..(n - 1) /\ e = d + (e - d)
      BY <1>1, <1>3
    <3> QED BY <3>1
  <2>2. DirFisica(q, e) = DirFisica(p, d) + j
    BY <1>3, <2>1, Seguidas
  <2> QED BY <1>1, <2>1, <2>2
<1> QED BY <1>2, <1>3

(***************************************************************************)
(* Bytes.                                                                  *)
(***************************************************************************)
Memorias == [Direcciones -> Bytes]
Espacios(p) == [0..(Tamanios[p] - 1) -> Bytes]

LEMMA MenorDeDos ==
  ASSUME NEW x \in Int, NEW y \in Int
  PROVE  Menor({x, y}) = IF x <= y THEN x ELSE y
BY DEF Menor, Min

LEMMA MenorDeTres ==
  ASSUME NEW x \in Int, NEW y \in Int, NEW z \in Int
  PROVE  /\ Menor({x, y, z}) \in {x, y, z}
         /\ Menor({x, y, z}) <= x /\ Menor({x, y, z}) <= y /\ Menor({x, y, z}) <= z
<1> DEFINE S == {x, y, z}
<1>1. \E u \in S : \A w \in S : u <= w
  OBVIOUS
<1>2. Menor(S) \in S /\ \A w \in S : Menor(S) <= w
  BY <1>1 DEF Menor, Min
<1> QED BY <1>2

\* The first bytes of a message and the rest of it.
LEMMA Trozos ==
  ASSUME NEW s \in Seq(Bytes), NEW t \in 1..Len(s)
  PROVE  /\ Primeros(s, t) \in Seq(Bytes) /\ Len(Primeros(s, t)) = t
         /\ \A k \in 1..t : Primeros(s, t)[k] = s[k]
         /\ t = Len(s) => Primeros(s, t) = s
         /\ Resto(s, t) \in Seq(Bytes) /\ Len(Resto(s, t)) = Len(s) - t
         /\ \A k \in 1..(Len(s) - t) : Resto(s, t)[k] = s[t + k]
<1>1. Len(s) \in Nat /\ t \in Int /\ t <= Len(s)
  OBVIOUS
<1>2. Menor({t, Len(s)}) = t
  BY <1>1, MenorDeDos
<1>3. Primeros(s, t) = SubSeq(s, 1, t)
  BY <1>2 DEF Primeros
<1>4. /\ SubSeq(s, 1, t) \in Seq(Bytes) /\ Len(SubSeq(s, 1, t)) = t
      /\ \A k \in 1..t : SubSeq(s, 1, t)[k] = s[k]
  OBVIOUS
<1>5. /\ Resto(s, t) \in Seq(Bytes) /\ Len(Resto(s, t)) = Len(s) - t
      /\ \A k \in 1..(Len(s) - t) : Resto(s, t)[k] = s[t + k]
  BY DEF Resto
<1>6. ASSUME t = Len(s) PROVE SubSeq(s, 1, t) = s
  BY <1>4, <1>6, SeqEqual
<1> QED BY <1>3, <1>4, <1>5, <1>6

\* memcpy, byte by byte.
LEMMA CopiadaEn ==
  ASSUME NEW m, NEW d, NEW s
  PROVE  /\ DOMAIN Copiada(m, d, s) = DOMAIN m
         /\ \A a \in DOMAIN m : Copiada(m, d, s)[a] = IF a \in d..(d + Len(s) - 1) THEN s[a - d + 1] ELSE m[a]
BY DEF Copiada

LEMMA CopiadaTipo ==
  ASSUME NEW A, A \subseteq Int, NEW m \in [A -> Bytes], NEW d \in Nat, NEW s \in Seq(Bytes)
  PROVE  Copiada(m, d, s) \in [A -> Bytes]
<1>1. \A a \in A : a \in d..(d + Len(s) - 1) => a - d + 1 \in 1..Len(s)
  OBVIOUS
<1>2. \A k \in 1..Len(s) : s[k] \in Bytes
  BY ElementOfSeq
<1>3. \A a \in A : (IF a \in d..(d + Len(s) - 1) THEN s[a - d + 1] ELSE m[a]) \in Bytes
  BY <1>1, <1>2
<1>4. DOMAIN m = A
  OBVIOUS
<1> QED BY <1>3, <1>4 DEF Copiada

\* One memcpy after the other are one.
LEMMA DosCopias ==
  ASSUME NEW A, A \subseteq Int, NEW m \in [A -> Bytes], NEW d \in Nat,
         NEW s \in Seq(Bytes), NEW t \in 1..(Len(s) - 1)
  PROVE  Copiada(Copiada(m, d, Primeros(s, t)), d + t, Resto(s, t)) = Copiada(m, d, s)
<1> DEFINE f == Primeros(s, t)
           g == Resto(s, t)
<1>1. Len(s) \in Nat /\ t \in 1..Len(s) /\ t \in Nat /\ t < Len(s)
  OBVIOUS
<1>2. /\ Len(f) = t /\ \A k \in 1..t : f[k] = s[k]
      /\ Len(g) = Len(s) - t /\ \A k \in 1..(Len(s) - t) : g[k] = s[t + k]
  BY <1>1, Trozos
<1> HIDE DEF f, g
<1> DEFINE u == Copiada(m, d, f)
           w == Copiada(u, d + t, g)
           z == Copiada(m, d, s)
<1>3. DOMAIN m = A
  OBVIOUS
<1>4. /\ DOMAIN u = A /\ DOMAIN w = A /\ DOMAIN z = A
      /\ \A a \in A : /\ u[a] = IF a \in d..(d + t - 1) THEN f[a - d + 1] ELSE m[a]
                      /\ w[a] = IF a \in (d + t)..(d + t + (Len(s) - t) - 1) THEN g[a - (d + t) + 1] ELSE u[a]
                      /\ z[a] = IF a \in d..(d + Len(s) - 1) THEN s[a - d + 1] ELSE m[a]
  <2>1. DOMAIN u = A /\ \A a \in A : u[a] = IF a \in d..(d + t - 1) THEN f[a - d + 1] ELSE m[a]
    <3>1. /\ DOMAIN u = DOMAIN m
          /\ \A a \in DOMAIN m : u[a] = IF a \in d..(d + Len(f) - 1) THEN f[a - d + 1] ELSE m[a]
      BY CopiadaEn
    <3> QED BY <1>2, <1>3, <3>1
  <2>2. DOMAIN z = A /\ \A a \in A : z[a] = IF a \in d..(d + Len(s) - 1) THEN s[a - d + 1] ELSE m[a]
    BY <1>3, CopiadaEn
  <2>3. /\ DOMAIN w = DOMAIN u
        /\ \A a \in DOMAIN u : w[a] = IF a \in (d + t)..(d + t + Len(g) - 1) THEN g[a - (d + t) + 1] ELSE u[a]
    BY CopiadaEn
  <2> HIDE DEF u, w, z
  <2> QED BY <1>2, <2>1, <2>2, <2>3
<1>5. /\ w = [a \in A |-> w[a]] /\ z = [a \in A |-> z[a]]
  BY <1>4 DEF Copiada
<1> HIDE DEF u, w, z
<1>6. ASSUME NEW a \in A PROVE w[a] = z[a]
  <2>1. a \in Int
    OBVIOUS
  <2>2. CASE a \in d..(d + t - 1)
    <3>1. /\ a - d + 1 \in 1..t /\ a \notin (d + t)..(d + t + (Len(s) - t) - 1)
          /\ a \in d..(d + Len(s) - 1)
      BY <1>1, <2>1, <2>2
    <3> QED BY <1>2, <1>4, <2>2, <3>1
  <2>3. CASE a \in (d + t)..(d + Len(s) - 1)
    <3> DEFINE k == a - (d + t) + 1
    <3>1. /\ k \in 1..(Len(s) - t) /\ a \in (d + t)..(d + t + (Len(s) - t) - 1)
          /\ a \in d..(d + Len(s) - 1) /\ t + k = a - d + 1
      BY <1>1, <2>1, <2>3
    <3>2. w[a] = g[k]
      BY <1>4, <3>1
    <3> HIDE DEF k
    <3>3. g[k] = s[a - d + 1]
      BY <1>2, <3>1
    <3> QED BY <1>4, <3>1, <3>2, <3>3
  <2>4. CASE a \notin d..(d + Len(s) - 1)
    <3>1. a \notin d..(d + t - 1) /\ a \notin (d + t)..(d + t + (Len(s) - t) - 1)
      BY <1>1, <2>1, <2>4
    <3> QED BY <1>4, <2>4, <3>1
  <2> QED BY <1>1, <2>1, <2>2, <2>3, <2>4
<1>7. w = z
  BY <1>5, <1>6
<1> QED BY <1>7 DEF u, w, z, f, g

LEMMA ContenidoTipo ==
  ASSUME NEW p \in Procesos, NEW v \in Espacios(p), NEW d \in Nat, NEW n \in Nat, d + n <= Tamanios[p]
  PROVE  /\ Contenido(v, d, n) \in Seq(Bytes) /\ Len(Contenido(v, d, n)) = n
         /\ \A k \in 1..n : Contenido(v, d, n)[k] = v[d + k - 1]
<1>1. Tamanios[p] \in Nat
  BY Tablillas
<1>2. \A k \in 1..n : d + k - 1 \in 0..(Tamanios[p] - 1)
  BY <1>1
<1>3. \A k \in 1..n : v[d + k - 1] \in Bytes
  BY <1>2 DEF Espacios
<1> QED BY <1>3 DEF Contenido

\* Bytes read in two times.
LEMMA DosLecturas ==
  ASSUME NEW p \in Procesos, NEW v \in Espacios(p), NEW d \in Nat, NEW l \in Nat, NEW t \in Nat,
         d + l + t <= Tamanios[p]
  PROVE  Contenido(v, d, l) \o Contenido(v, d + l, t) = Contenido(v, d, l + t)
<1> DEFINE a == Contenido(v, d, l)
           b == Contenido(v, d + l, t)
           c == Contenido(v, d, l + t)
<1>1. /\ d + l \in Nat /\ l + t \in Nat /\ Tamanios[p] \in Nat
      /\ d + l <= Tamanios[p] /\ (d + l) + t <= Tamanios[p] /\ d + (l + t) <= Tamanios[p]
  BY Tablillas
<1>2. /\ a \in Seq(Bytes) /\ Len(a) = l /\ \A k \in 1..l : a[k] = v[d + k - 1]
      /\ b \in Seq(Bytes) /\ Len(b) = t /\ \A k \in 1..t : b[k] = v[(d + l) + k - 1]
      /\ c \in Seq(Bytes) /\ Len(c) = l + t /\ \A k \in 1..(l + t) : c[k] = v[d + k - 1]
  BY <1>1, ContenidoTipo
<1> HIDE DEF a, b, c
<1>3. /\ a \o b \in Seq(Bytes) /\ Len(a \o b) = Len(a) + Len(b)
      /\ \A j \in 1..(Len(a) + Len(b)) : (a \o b)[j] = IF j <= Len(a) THEN a[j] ELSE b[j - Len(a)]
  BY <1>2, ConcatProperties
<1> DEFINE e == a \o b
<1>4. /\ e \in Seq(Bytes) /\ Len(e) = l + t
      /\ \A j \in 1..(l + t) : e[j] = IF j <= l THEN a[j] ELSE b[j - l]
  BY <1>2, <1>3
<1> HIDE DEF e
<1>5. ASSUME NEW j \in 1..(l + t) PROVE e[j] = c[j]
  <2>1. CASE j <= l
    <3>1. j \in 1..l
      BY <2>1
    <3>2. e[j] = a[j]
      BY <1>4, <2>1
    <3>3. a[j] = v[d + j - 1]
      BY <1>2, <3>1
    <3> QED BY <1>2, <3>2, <3>3
  <2>2. CASE j > l
    <3> DEFINE k == j - l
    <3>1. k \in 1..t /\ (d + l) + k - 1 = d + j - 1 /\ ~(j <= l)
      BY <2>2
    <3>2. e[j] = b[k]
      BY <1>4, <3>1
    <3> HIDE DEF k
    <3>3. b[k] = v[d + j - 1]
      BY <1>2, <3>1
    <3> QED BY <1>2, <3>2, <3>3
  <2> QED BY <2>1, <2>2
<1>6. e = c
  BY <1>2, <1>4, <1>5, SeqEqual
<1> QED BY <1>6 DEF a, b, c, e

LEMMA VistaTipo ==
  ASSUME NEW m \in Memorias, NEW p \in Procesos
  PROVE  /\ Vista(m, p) \in Espacios(p)
         /\ \A d \in 0..(Tamanios[p] - 1) : Vista(m, p)[d] = m[DirFisica(p, d)]
<1>1. \A d \in 0..(Tamanios[p] - 1) : DirFisica(p, d) \in Direcciones
  BY Marco
<1>2. \A d \in 0..(Tamanios[p] - 1) : m[DirFisica(p, d)] \in Bytes
  BY <1>1 DEF Memorias
<1> QED BY <1>2 DEF Vista, Espacios

\* A write in a page of p is the same write in the memory that p sees, and
\* the others do not see it.
LEMMA Pega ==
  ASSUME NEW m \in Memorias, NEW s \in Seq(Bytes), NEW p, NEW d, Parte(p, d, Len(s))
  PROVE  /\ Copiada(m, DirFisica(p, d), s) \in Memorias
         /\ Vista(Copiada(m, DirFisica(p, d), s), p) = Copiada(Vista(m, p), d, s)
         /\ \A q \in Procesos : q # p => Vista(Copiada(m, DirFisica(p, d), s), q) = Vista(m, q)
<1> DEFINE x == DirFisica(p, d)
           w == Copiada(m, x, s)
           n == Len(s)
<1>1. p \in Procesos /\ d \in Nat /\ n \in Nat /\ n > 0 /\ d \in 0..(Tamanios[p] - 1) /\ x \in Nat
  <2>1. p \in Procesos /\ d \in Nat /\ n \in Nat /\ n > 0
    BY DEF Parte
  <2>2. 0 \in 0..(n - 1)
    BY <2>1
  <2>3. d \in 0..(Tamanios[p] - 1)
    BY <2>2, Seguidas
  <2> QED BY <2>1, <2>3, Marco
<1>2. w \in Memorias /\ \A a \in Direcciones : w[a] = IF a \in x..(x + n - 1) THEN s[a - x + 1] ELSE m[a]
  <2>1. Direcciones \subseteq Int /\ m \in [Direcciones -> Bytes] /\ DOMAIN m = Direcciones
    BY DEF Direcciones, Memorias
  <2>2. w \in [Direcciones -> Bytes]
    BY <1>1, <2>1, CopiadaTipo
  <2> QED BY <2>1, <2>2, CopiadaEn DEF Memorias
<1> HIDE DEF w
<1>3. ASSUME NEW q \in Procesos, NEW e \in 0..(Tamanios[q] - 1)
      PROVE  w[DirFisica(q, e)] = IF q = p /\ e \in d..(d + n - 1) THEN s[e - d + 1] ELSE m[DirFisica(q, e)]
  <2> DEFINE y == DirFisica(q, e)
  <2>1. y \in Direcciones /\ y \in Nat /\ e \in Nat
    BY Marco
  <2>2. /\ y \in x..(x + n - 1) <=> q = p /\ e \in d..(d + n - 1)
        /\ q = p /\ e \in d..(d + n - 1) => y - x = e - d
    BY Lugar
  <2>3. w[y] = IF y \in x..(x + n - 1) THEN s[y - x + 1] ELSE m[y]
    BY <1>2, <2>1
  <2> HIDE DEF y, x, n
  <2>4. w[y] = IF q = p /\ e \in d..(d + n - 1) THEN s[e - d + 1] ELSE m[y]
    BY <2>2, <2>3
  <2> QED BY <2>4 DEF y
<1>4. ASSUME NEW q \in Procesos, q # p PROVE Vista(w, q) = Vista(m, q)
  <2>1. \A e \in 0..(Tamanios[q] - 1) : w[DirFisica(q, e)] = m[DirFisica(q, e)]
    BY <1>3, <1>4
  <2> QED BY <2>1 DEF Vista
<1>5. Vista(w, p) = Copiada(Vista(m, p), d, s)
  <2> DEFINE v == Vista(m, p)
             c == Copiada(v, d, s)
  <2>1. /\ v \in Espacios(p) /\ DOMAIN v = 0..(Tamanios[p] - 1)
        /\ \A e \in 0..(Tamanios[p] - 1) : v[e] = m[DirFisica(p, e)]
    BY <1>1, VistaTipo DEF Espacios
  <2>2. c = [e \in 0..(Tamanios[p] - 1) |-> IF e \in d..(d + n - 1) THEN s[e - d + 1] ELSE v[e]]
    BY <2>1 DEF Copiada
  <2> HIDE DEF v, c
  <2>3. \A e \in 0..(Tamanios[p] - 1) :
          w[DirFisica(p, e)] = IF e \in d..(d + n - 1) THEN s[e - d + 1] ELSE v[e]
    BY <1>1, <1>3, <2>1
  <2>4. Vista(w, p) = c
    BY <2>2, <2>3 DEF Vista
  <2> QED BY <2>4 DEF c, v
<1> QED BY <1>2, <1>4, <1>5 DEF w

\* A read of a page.
LEMMA Leida ==
  ASSUME NEW m \in Memorias, NEW p, NEW d, NEW n, Parte(p, d, n)
  PROVE  Contenido(m, DirFisica(p, d), n) = Contenido(Vista(m, p), d, n)
<1>1. p \in Procesos /\ d \in Nat /\ n \in Nat /\ n > 0
  BY DEF Parte
<1>2. DirFisica(p, d) \in Nat
  <2>1. 0 \in 0..(n - 1)
    BY <1>1
  <2>2. d \in 0..(Tamanios[p] - 1)
    BY <2>1, Seguidas
  <2> QED BY <1>1, <2>2, Marco
<1>3. ASSUME NEW k \in 1..n PROVE m[DirFisica(p, d) + k - 1] = Vista(m, p)[d + k - 1]
  <2>1. k - 1 \in 0..(n - 1) /\ d + (k - 1) = d + k - 1
        /\ DirFisica(p, d) + (k - 1) = DirFisica(p, d) + k - 1
    BY <1>1, <1>2
  <2>2. /\ d + (k - 1) \in 0..(Tamanios[p] - 1)
        /\ DirFisica(p, d + (k - 1)) = DirFisica(p, d) + (k - 1)
    BY <2>1, Seguidas
  <2> QED BY <1>1, <2>1, <2>2, VistaTipo
<1> QED BY <1>3 DEF Contenido

(***************************************************************************)
(* The pieces in the socket.                                               *)
(***************************************************************************)

\* The last piece that has the byte d, if there is one, says what it will be.
LEMMA LlegaUltima ==
  ASSUME NEW m, NEW s \in Seq(Piezas), NEW d \in DOMAIN m, NEW k \in 1..Len(s), Toca(s[k], d),
         \A j \in 1..Len(s) : j > k => ~Toca(s[j], d)
  PROVE  Llegan(m, s)[d] = s[k].datos[d - s[k].dir + 1]
<1> DEFINE T == Tocan(s, d)
<1>1. DOMAIN s = 1..Len(s)
  OBVIOUS
<1>2. k \in T /\ \A j \in T : k >= j
  <2>1. \A j : j \in T <=> j \in 1..Len(s) /\ Toca(s[j], d)
    BY <1>1 DEF Tocan
  <2>2. \A j \in 1..Len(s) : ~(j > k) => k >= j
    OBVIOUS
  <2> QED BY <2>1, <2>2
<1>3. \A j \in T : j \in Int
  BY <1>1 DEF Tocan
<1> HIDE DEF T
<1>4. T # {} /\ Max(T) = k
  <2>1. \A x \in T : (\A y \in T : x >= y) => x = k
    BY <1>2, <1>3
  <2> QED BY <1>2, <2>1 DEF Max
<1> QED BY <1>4 DEF Llegan, T

LEMMA NoLlega ==
  ASSUME NEW m, NEW s \in Seq(Piezas), NEW d \in DOMAIN m, \A j \in 1..Len(s) : ~Toca(s[j], d)
  PROVE  Llegan(m, s)[d] = m[d]
<1>1. DOMAIN s = 1..Len(s)
  OBVIOUS
<1>2. Tocan(s, d) = {}
  BY <1>1 DEF Tocan
<1> QED BY <1>2 DEF Llegan

LEMMA HayUltima ==
  ASSUME NEW s \in Seq(Piezas), NEW d, NEW i \in 1..Len(s), Toca(s[i], d)
  PROVE  \E k \in 1..Len(s) : Toca(s[k], d) /\ \A j \in 1..Len(s) : j > k => ~Toca(s[j], d)
<1> DEFINE n == Len(s)
           T == {j \in 0..(n - 1) : Toca(s[n - j], d)}
<1>1. n \in Nat
  OBVIOUS
<1>2. n - i \in 0..(n - 1) /\ n - (n - i) = i
  BY <1>1
<1>3. T \subseteq Nat /\ T # {}
  <2>1. PICK j \in 0..(n - 1) : n - j = i
    BY <1>2
  <2>2. Toca(s[n - j], d)
    BY <2>1
  <2>3. j \in T
    BY <2>2
  <2>4. T \subseteq 0..(n - 1) /\ 0..(n - 1) \subseteq Nat
    BY <1>1
  <2> HIDE DEF T
  <2> QED BY <2>3, <2>4
<1>4. PICK x \in T : \A y \in T : x <= y
  BY <1>3, MinimoNatural
<1>5. x \in 0..(n - 1) /\ Toca(s[n - x], d)
  BY <1>4
<1>6. \A j \in 1..n : j > n - x => ~Toca(s[j], d)
  <2> SUFFICES ASSUME NEW j \in 1..n, j > n - x, Toca(s[j], d) PROVE FALSE
    OBVIOUS
  <2>1. n - j \in 0..(n - 1) /\ n - (n - j) = j /\ n - j < x
    BY <1>1, <1>5
  <2>2. n - j \in T
    BY <2>1
  <2>3. x <= n - j
    BY <1>4, <2>2
  <2> QED BY <1>1, <1>5, <2>1, <2>3
<1>7. n - x \in 1..n
  BY <1>1, <1>5
<1> QED BY <1>5, <1>6, <1>7

\* A byte of the memory when the pieces have arrived.
LEMMA ByteQueLlega ==
  ASSUME NEW m, NEW s \in Seq(Piezas), NEW d \in DOMAIN m
  PROVE  \/ /\ \A j \in 1..Len(s) : ~Toca(s[j], d)
            /\ Llegan(m, s)[d] = m[d]
         \/ \E k \in 1..Len(s) : /\ Toca(s[k], d) /\ \A j \in 1..Len(s) : j > k => ~Toca(s[j], d)
                                 /\ Llegan(m, s)[d] = s[k].datos[d - s[k].dir + 1]
<1>1. CASE \A j \in 1..Len(s) : ~Toca(s[j], d)
  BY <1>1, NoLlega
<1>2. CASE \E i \in 1..Len(s) : Toca(s[i], d)
  <2>1. PICK k \in 1..Len(s) : Toca(s[k], d) /\ \A j \in 1..Len(s) : j > k => ~Toca(s[j], d)
    BY <1>2, HayUltima
  <2> QED BY <2>1, LlegaUltima
<1> QED BY <1>1, <1>2

LEMMA LleganTipo ==
  ASSUME NEW m \in Memorias, NEW s \in Seq(Piezas)
  PROVE  Llegan(m, s) \in Memorias
<1>1. DOMAIN m = Direcciones /\ \A d \in Direcciones : m[d] \in Bytes
  BY DEF Memorias
<1>2. ASSUME NEW d \in Direcciones PROVE Llegan(m, s)[d] \in Bytes
  <2>1. CASE Llegan(m, s)[d] = m[d]
    BY <1>1, <2>1
  <2>2. CASE \E k \in 1..Len(s) : Toca(s[k], d) /\ Llegan(m, s)[d] = s[k].datos[d - s[k].dir + 1]
    <3>1. PICK k \in 1..Len(s) : Toca(s[k], d) /\ Llegan(m, s)[d] = s[k].datos[d - s[k].dir + 1]
      BY <2>2
    <3>2. s[k] \in Piezas
      BY ElementOfSeq
    <3>3. PICK x \in Nat, b \in Seq(Bytes) : s[k].dir = x /\ s[k].datos = b
      BY <3>2 DEF Piezas
    <3>4. d \in Nat /\ d \in x..(x + Len(b) - 1)
      BY <3>1, <3>3 DEF Toca, Direcciones
    <3>5. d - x + 1 \in 1..Len(b)
      BY <3>3, <3>4
    <3>6. b[d - x + 1] \in Bytes
      BY <3>3, <3>5, ElementOfSeq
    <3> QED BY <3>1, <3>3, <3>6
  <2> QED BY <1>1, <2>1, <2>2, ByteQueLlega
<1>3. Llegan(m, s) = [d \in Direcciones |-> Llegan(m, s)[d]]
  BY <1>1 DEF Llegan
<1> QED BY <1>2, <1>3 DEF Memorias

LEMMA SinSocket ==
  ASSUME NEW m \in Memorias
  PROVE  Llegan(m, <<>>) = m
<1>1. DOMAIN m = Direcciones /\ m = [d \in Direcciones |-> m[d]]
  BY DEF Memorias
<1>2. <<>> \in Seq(Piezas) /\ Len(<<>>) = 0
  BY EmptySeq
<1>3. \A d \in Direcciones : Llegan(m, <<>>)[d] = m[d]
  <2>1. 1..0 = {}
    OBVIOUS
  <2>2. \A d : \A j \in 1..Len(<<>>) : ~Toca(<<>>[j], d)
    BY <1>2, <2>1
  <2> QED BY <1>1, <1>2, <2>2, NoLlega
<1>4. Llegan(m, <<>>) = [d \in Direcciones |-> Llegan(m, <<>>)[d]]
  BY <1>1 DEF Llegan
<1> QED BY <1>1, <1>3, <1>4

\* Copiada, as a value at each address of the memory.
LEMMA EscritaEn ==
  ASSUME NEW m \in Memorias, NEW w \in Piezas
  PROVE  /\ Copiada(m, w.dir, w.datos) \in Memorias
         /\ \A d \in Direcciones :
              Copiada(m, w.dir, w.datos)[d] = IF Toca(w, d) THEN w.datos[d - w.dir + 1] ELSE m[d]
<1>1. w.dir \in Nat /\ w.datos \in Seq(Bytes)
  BY DEF Piezas
<1>2. Direcciones \subseteq Int /\ m \in [Direcciones -> Bytes] /\ DOMAIN m = Direcciones
  BY DEF Direcciones, Memorias
<1>3. Copiada(m, w.dir, w.datos) \in [Direcciones -> Bytes]
  BY <1>1, <1>2, CopiadaTipo
<1> QED BY <1>2, <1>3, CopiadaEn DEF Memorias, Toca

\* A piece that is sent.
LEMMA LlegaOtra ==
  ASSUME NEW m \in Memorias, NEW s \in Seq(Piezas), NEW w \in Piezas
  PROVE  Llegan(m, Append(s, w)) = Copiada(Llegan(m, s), w.dir, w.datos)
<1> DEFINE t == Append(s, w)
           n == Len(s)
           u == Llegan(m, s)
           a == Llegan(m, t)
           c == Copiada(u, w.dir, w.datos)
<1>1. /\ t \in Seq(Piezas) /\ Len(t) = n + 1 /\ n \in Nat
      /\ \A j \in 1..n : t[j] = s[j]
      /\ t[n + 1] = w
  BY AppendProperties
<1>2. u \in Memorias /\ a \in Memorias
  BY <1>1, LleganTipo
<1>3. /\ c \in Memorias
      /\ \A d \in Direcciones : c[d] = IF Toca(w, d) THEN w.datos[d - w.dir + 1] ELSE u[d]
  BY <1>2, EscritaEn
<1>4. DOMAIN m = Direcciones
  BY DEF Memorias
<1> HIDE DEF t, c
<1>5. ASSUME NEW d \in Direcciones PROVE a[d] = c[d]
  <2>1. CASE Toca(w, d)
    <3>1. n + 1 \in 1..Len(t) /\ \A j \in 1..Len(t) : ~(j > n + 1)
      BY <1>1
    <3>2. a[d] = t[n + 1].datos[d - t[n + 1].dir + 1]
      BY <1>1, <1>4, <2>1, <3>1, LlegaUltima
    <3> QED BY <1>1, <1>3, <2>1, <3>2
  <2>2. CASE ~Toca(w, d) /\ \A j \in 1..n : ~Toca(s[j], d)
    <3>1. \A j \in 1..Len(t) : j \in 1..n \/ j = n + 1
      BY <1>1
    <3>2. \A j \in 1..Len(t) : ~Toca(t[j], d)
      BY <1>1, <2>2, <3>1
    <3>3. a[d] = m[d] /\ u[d] = m[d]
      BY <1>1, <1>4, <2>2, <3>2, NoLlega
    <3> QED BY <1>3, <2>2, <3>3
  <2>3. ASSUME ~Toca(w, d),
               \E k \in 1..n : /\ Toca(s[k], d) /\ \A j \in 1..n : j > k => ~Toca(s[j], d)
                               /\ u[d] = s[k].datos[d - s[k].dir + 1]
        PROVE  a[d] = c[d]
    <3>1. PICK k \in 1..n : /\ Toca(s[k], d) /\ \A j \in 1..n : j > k => ~Toca(s[j], d)
                            /\ u[d] = s[k].datos[d - s[k].dir + 1]
      BY <2>3
    <3>2. /\ k \in 1..Len(t) /\ t[k] = s[k]
          /\ \A j \in 1..Len(t) : j \in 1..n \/ j = n + 1
      BY <1>1
    <3>3. \A j \in 1..Len(t) : j > k => ~Toca(t[j], d)
      BY <1>1, <2>3, <3>1, <3>2
    <3>4. a[d] = t[k].datos[d - t[k].dir + 1]
      BY <1>1, <1>4, <3>1, <3>2, <3>3, LlegaUltima
    <3> QED BY <1>3, <2>3, <3>1, <3>2, <3>4
  <2> QED BY <1>4, <2>1, <2>2, <2>3, ByteQueLlega
<1>6. a = c
  BY <1>2, <1>3, <1>5 DEF Memorias
<1> QED BY <1>6 DEF a, c, t, u

\* A piece that is read and written.
LEMMA LlegaPrimera ==
  ASSUME NEW m \in Memorias, NEW s \in Seq(Piezas), s # <<>>
  PROVE  /\ Head(s) \in Piezas /\ Tail(s) \in Seq(Piezas)
         /\ Copiada(m, Head(s).dir, Head(s).datos) \in Memorias
         /\ Llegan(Copiada(m, Head(s).dir, Head(s).datos), Tail(s)) = Llegan(m, s)
<1> DEFINE w == Head(s)
           t == Tail(s)
           n == Len(t)
           c == Copiada(m, w.dir, w.datos)
           u == Llegan(m, s)
           a == Llegan(c, t)
<1>1. /\ w \in Piezas /\ t \in Seq(Piezas) /\ n \in Nat /\ Len(s) = n + 1 /\ s[1] = w
      /\ \A j \in 1..n : t[j] = s[j + 1]
  BY HeadTailProperties
<1>2. /\ c \in Memorias
      /\ \A d \in Direcciones : c[d] = IF Toca(w, d) THEN w.datos[d - w.dir + 1] ELSE m[d]
  BY <1>1, EscritaEn
<1>3. u \in Memorias /\ a \in Memorias
  BY <1>1, <1>2, LleganTipo
<1>4. DOMAIN m = Direcciones /\ DOMAIN c = Direcciones
  BY <1>2 DEF Memorias
<1> HIDE DEF w, t, c
<1>5. ASSUME NEW d \in Direcciones PROVE a[d] = u[d]
  <2>1. \A j \in 1..Len(s) : j = 1 \/ (j - 1 \in 1..n /\ t[j - 1] = s[j])
    <3> TAKE j \in 1..Len(s)
    <3>1. j # 1 => j - 1 \in 1..n /\ (j - 1) + 1 = j
      BY <1>1
    <3> QED BY <1>1, <3>1
  <2>2. CASE \E k \in 1..n : /\ Toca(t[k], d) /\ \A j \in 1..n : j > k => ~Toca(t[j], d)
                             /\ a[d] = t[k].datos[d - t[k].dir + 1]
    <3>1. PICK k \in 1..n : /\ Toca(t[k], d) /\ \A j \in 1..n : j > k => ~Toca(t[j], d)
                            /\ a[d] = t[k].datos[d - t[k].dir + 1]
      BY <2>2
    <3>2. k + 1 \in 1..Len(s) /\ s[k + 1] = t[k]
      BY <1>1
    <3>3. ASSUME NEW j \in 1..Len(s), j > k + 1 PROVE ~Toca(s[j], d)
      <4>1. j # 1 /\ j - 1 > k
        BY <3>3
      <4> QED BY <2>1, <3>1, <4>1
    <3>4. u[d] = s[k + 1].datos[d - s[k + 1].dir + 1]
      BY <1>4, <3>1, <3>2, <3>3, LlegaUltima
    <3> QED BY <3>1, <3>2, <3>4
  <2>3. CASE (\A j \in 1..n : ~Toca(t[j], d)) /\ a[d] = c[d]
    <3>1. ASSUME NEW j \in 1..Len(s), j > 1 PROVE ~Toca(s[j], d)
      <4>1. j # 1
        BY <3>1
      <4> QED BY <2>1, <2>3, <4>1
    <3>2. CASE Toca(w, d)
      <4>1. 1 \in 1..Len(s)
        BY <1>1
      <4>2. Toca(s[1], d) /\ \A j \in 1..Len(s) : j > 1 => ~Toca(s[j], d)
        BY <1>1, <3>1, <3>2
      <4>3. u[d] = s[1].datos[d - s[1].dir + 1]
        BY <1>4, <4>1, <4>2, LlegaUltima
      <4> QED BY <1>1, <1>2, <2>3, <3>2, <4>3
    <3>3. CASE ~Toca(w, d)
      <4>1. \A j \in 1..Len(s) : j = 1 \/ j > 1
        OBVIOUS
      <4>2. \A j \in 1..Len(s) : ~Toca(s[j], d)
        BY <1>1, <3>1, <3>3, <4>1
      <4>3. u[d] = m[d]
        BY <1>4, <4>2, NoLlega
      <4> QED BY <1>2, <2>3, <3>3, <4>3
    <3> QED BY <3>2, <3>3
  <2> QED BY <1>1, <1>4, <2>2, <2>3, ByteQueLlega
<1>6. a = u
  BY <1>3, <1>5 DEF Memorias
<1> QED BY <1>1, <1>2, <1>6 DEF a, c, t, u, w

\* A write that does not touch the pieces in the socket may be done before or
\* after they arrive.
LEMMA LlegaAparte ==
  ASSUME NEW m \in Memorias, NEW s \in Seq(Piezas), NEW w \in Piezas,
         \A d \in Direcciones : Toca(w, d) => \A j \in 1..Len(s) : ~Toca(s[j], d)
  PROVE  Llegan(Copiada(m, w.dir, w.datos), s) = Copiada(Llegan(m, s), w.dir, w.datos)
<1> DEFINE c == Copiada(m, w.dir, w.datos)
           u == Llegan(m, s)
           a == Llegan(c, s)
           b == Copiada(u, w.dir, w.datos)
<1>1. /\ c \in Memorias
      /\ \A d \in Direcciones : c[d] = IF Toca(w, d) THEN w.datos[d - w.dir + 1] ELSE m[d]
  BY EscritaEn
<1>2. u \in Memorias /\ a \in Memorias
  BY <1>1, LleganTipo
<1>3. /\ b \in Memorias
      /\ \A d \in Direcciones : b[d] = IF Toca(w, d) THEN w.datos[d - w.dir + 1] ELSE u[d]
  BY <1>2, EscritaEn
<1>4. DOMAIN m = Direcciones /\ DOMAIN c = Direcciones
  BY <1>1 DEF Memorias
<1> HIDE DEF c, b
<1>5. ASSUME NEW d \in Direcciones PROVE a[d] = b[d]
  <2>1. CASE \A j \in 1..Len(s) : ~Toca(s[j], d)
    <3>1. a[d] = c[d] /\ u[d] = m[d]
      BY <1>4, <2>1, NoLlega
    <3> QED BY <1>1, <1>3, <3>1
  <2>2. CASE \E i \in 1..Len(s) : Toca(s[i], d)
    <3>1. PICK k \in 1..Len(s) : Toca(s[k], d) /\ \A j \in 1..Len(s) : j > k => ~Toca(s[j], d)
      BY <2>2, HayUltima
    <3>2. a[d] = s[k].datos[d - s[k].dir + 1] /\ u[d] = s[k].datos[d - s[k].dir + 1]
      BY <1>4, <3>1, LlegaUltima
    <3>3. ~Toca(w, d)
      BY <3>1
    <3> QED BY <1>3, <3>2, <3>3
  <2> QED BY <2>1, <2>2
<1>6. a = b
  BY <1>2, <1>3, <1>5 DEF Memorias
<1> QED BY <1>6 DEF a, b, c, u

\* The bytes of a process and the pieces of the others.
LEMMA PiezaAjena ==
  ASSUME NEW w, NEW q, DeProceso(w, q), NEW p \in Procesos, p # q, NEW d \in 0..(Tamanios[p] - 1)
  PROVE  ~Toca(w, DirFisica(p, d))
<1>1. PICK x \in 0..(Tamanios[q] - 1) : Parte(q, x, Len(w.datos)) /\ w.dir = DirFisica(q, x)
  BY DEF DeProceso
<1>2. DirFisica(p, d) \notin DirFisica(q, x)..(DirFisica(q, x) + Len(w.datos) - 1)
  BY <1>1, Lugar
<1> QED BY <1>1, <1>2 DEF Toca

\* What p sees does not change when the pieces of the others arrive.
LEMMA LlegaLejos ==
  ASSUME NEW m \in Memorias, NEW s \in Seq(Piezas), NEW p \in Procesos,
         \A k \in 1..Len(s) : \E q \in Procesos \ {p} : DeProceso(s[k], q)
  PROVE  Vista(Llegan(m, s), p) = Vista(m, p)
<1>1. ASSUME NEW d \in 0..(Tamanios[p] - 1) PROVE Llegan(m, s)[DirFisica(p, d)] = m[DirFisica(p, d)]
  <2>1. \A k \in 1..Len(s) : ~Toca(s[k], DirFisica(p, d))
    BY PiezaAjena
  <2>2. DirFisica(p, d) \in DOMAIN m
    BY Marco DEF Memorias
  <2> QED BY <2>1, <2>2, NoLlega
<1> QED BY <1>1 DEF Vista

(***************************************************************************)
(* Accesses.                                                               *)
(***************************************************************************)

LEMMA AccesoBien ==
  ASSUME NEW a \in Accesos
  PROVE  /\ a # Nulo /\ a.pid \in Procesos /\ a.dir \in Nat /\ a.n \in Nat /\ a.n > 0 /\ a.destino \in Nat
         /\ a.datos \in Seq(Bytes)
         /\ a.tipo \in {"MOV_IN", "MOV_OUT", "COPY_STRING", "ENTRADA", "SALIDA"}
         /\ a.tipo \in {"MOV_OUT", "ENTRADA"} => Len(a.datos) = a.n
         /\ a.tipo \notin {"MOV_OUT", "ENTRADA"} => a.datos = <<>>
         /\ a.dir + a.n <= Tamanios[a.pid] /\ a.destino + a.n <= Tamanios[a.pid]
         /\ Tamanios[a.pid] \in Nat
<1>1. a \in [pid : Procesos, dir : Nat, n : Nat \ {0}, destino : Nat, datos : Seq(Bytes),
             tipo : {"MOV_IN", "MOV_OUT", "COPY_STRING", "ENTRADA", "SALIDA"}]
  BY AccesosAssumption
<1>2. /\ a.pid \in Procesos /\ a.dir \in Nat /\ a.n \in Nat /\ a.n > 0 /\ a.destino \in Nat
      /\ a.datos \in Seq(Bytes)
      /\ a.tipo \in {"MOV_IN", "MOV_OUT", "COPY_STRING", "ENTRADA", "SALIDA"}
  BY <1>1
<1>3. /\ Len(a.datos) = IF a.tipo \in {"MOV_OUT", "ENTRADA"} THEN a.n ELSE 0
      /\ {a.dir + a.n, a.destino + a.n} \subseteq 1..Tamanios[a.pid]
      /\ a # Nulo
  BY AccesosAssumption
<1>4. Tamanios[a.pid] \in Nat
  BY <1>2, Tablillas
<1>5. ASSUME Len(a.datos) = 0 PROVE a.datos = <<>>
  BY <1>2, <1>5, EmptySeq
<1> QED BY <1>2, <1>3, <1>4, <1>5

LEMMA UsoBien ==
  ASSUME NEW c \in Usos
  PROVE  /\ c.fase \in {"libre", "lee", "escribe", "empieza", "sigue"} /\ c.dir \in Nat
         /\ c.datos \in Seq(Bytes) /\ Len(c.datos) \in Nat
<1>1. c.datos \in Seq(Bytes)
  BY DEF Usos
<1> QED BY <1>1, LenProperties DEF Usos

LEMMA UsoNuevo ==
  ASSUME NEW a \in Accesos, NEW f \in {"libre", "lee", "escribe", "empieza", "sigue"}, NEW d \in Nat,
         NEW s \in Seq(Bytes)
  PROVE  [acceso |-> a, fase |-> f, dir |-> d, datos |-> s] \in Usos
BY DEF Usos

LEMMA OciosaBien == Ociosa \in Usos /\ Ociosa.fase = "libre"
<1>1. <<>> \in Seq(Bytes)
  BY EmptySeq
<1> QED BY <1>1 DEF Ociosa, Usos

(***************************************************************************)
(* One process, before and after a step.                                   *)
(***************************************************************************)
Suyo(c, p) == c.fase # "libre" /\ c.acceso.pid = p

\* What EspacioLogico lets happen to a process: to its memory v, to what it
\* has asked for and to what it read last.
Cambio(v, pide, lee, v2, pide2, lee2, p) ==
  \/ v2 = v /\ pide2 = pide /\ lee2 = lee
  \/ pide = Nulo /\ pide2 \in Accesos /\ pide2.pid = p /\ v2 = v /\ lee2 = lee
  \/ /\ pide \in Accesos /\ pide2 = Nulo /\ lee2 = lee
     /\ pide.tipo \in {"MOV_OUT", "ENTRADA", "COPY_STRING"}
     /\ v2 = Copiada(v, Inicio(pide), Escrito(pide, v))
  \/ /\ pide \in Accesos /\ pide2 = Nulo /\ v2 = v
     /\ pide.tipo \in {"MOV_IN", "SALIDA"}
     /\ lee2 = IF pide.tipo = "SALIDA" THEN HastaCero(Contenido(v, pide.dir, pide.n))
               ELSE Contenido(v, pide.dir, pide.n)

\* p goes on as it should.
Sigue(m, c, i, l, m2, c2, i2, l2, p) ==
  /\ Fiel(m2, c2, i2, p)
  /\ Cambio(Ver(m, c, i, p), Pide(c, i, p), l, Ver(m2, c2, i2, p), Pide(c2, i2, p), l2, p)

LEMMA Ajeno ==
  ASSUME NEW m, NEW m2, NEW c, NEW c2, NEW i, NEW q, Vista(m2, q) = Vista(m, q),
         c2 = c \/ (~Suyo(c, q) /\ ~Suyo(c2, q)), Fiel(m, c, i, q)
  PROVE  /\ Ver(m2, c2, i, q) = Ver(m, c, i, q) /\ Pide(c2, i, q) = Pide(c, i, q)
         /\ Fiel(m2, c2, i, q)
<1>1. Ver(m2, c2, i, q) = Ver(m, c, i, q)
  BY DEF Ver, Suyo
<1>2. Pide(c2, i, q) = Pide(c, i, q)
  BY DEF Pide, Suyo
<1>3. Fiel(m2, c2, i, q)
  BY <1>1 DEF Fiel, Suyo
<1> QED BY <1>1, <1>2, <1>3

\* Without anything half done, the memory is what there is.
LEMMA VerQuieto ==
  ASSUME NEW m, NEW c, NEW i, NEW p,
         ~(Suyo(c, p) /\ c.fase = "escribe" /\ Len(c.datos) < c.acceso.n),
         ~(i.fase = "sigue" /\ i.acceso.tipo = "ENTRADA")
  PROVE  Ver(m, c, i, p) = Vista(m, p)
BY DEF Ver, Suyo

\* What the CPU, or a device, has under way after each part of an access.
CpuNueva(a) ==
  [acceso |-> a, fase |-> IF a.tipo = "MOV_OUT" THEN "escribe" ELSE "lee",
   dir |-> a.dir, datos |-> IF a.tipo = "MOV_OUT" THEN a.datos ELSE <<>>]
Leyendo(c, t, s) == [c EXCEPT !.dir = @ + t, !.datos = s]
AEscribir(c, s) == [c EXCEPT !.fase = "escribe", !.dir = c.acceso.destino, !.datos = s]
Escribiendo(c, t) ==
  IF t < Len(c.datos) THEN [c EXCEPT !.dir = @ + t, !.datos = Resto(@, t)] ELSE Ociosa
IoNueva(a) ==
  [acceso |-> a, fase |-> "empieza", dir |-> DirFisica(a.pid, a.dir), datos |-> a.datos]
PrimeraHecha(i, s) == [i EXCEPT !.fase = "sigue", !.datos = s]
OtraHecha(i, d, s) == [i EXCEPT !.dir = d, !.datos = s]
BytesPrimera(i) ==
  IF Desplazamiento(i.dir) # 0 THEN TamPagina - Desplazamiento(i.dir) ELSE Menor({i.acceso.n, TamPagina})
BytesSiguiente(i) == Menor({TamPagina, i.acceso.n - Len(i.datos)})
OtraEscrita(i, d) ==
  IF Len(i.datos) <= TamPagina THEN Ociosa ELSE OtraHecha(i, d, Resto(i.datos, TamPagina))
EnPagina(p, d, n) == \E x \in Nat : d = DirFisica(p, x) /\ Parte(p, x, n)
\* The device has read the first n bytes, s.
TrasLeer(m, c, i, lee, n, s, i2, p) ==
  /\ s \in Seq(Bytes) /\ ~(n > i.acceso.n)
  /\ n = i.acceso.n => Sigue(m, c, i, lee, m, c, Ociosa, HastaCero(s), p)
  /\ n # i.acceso.n => i2 \in Usos /\ Sigue(m, c, i, lee, m, c, i2, lee, p)
NoOtro(c, a) == c.fase # "libre" => c.acceso = a

\* CpuEmpieza.
LEMMA EmpiezaCpu ==
  ASSUME NEW m \in Memorias, NEW c, NEW i, NEW l, NEW a \in Accesos, c.fase = "libre", i.fase = "libre",
         a.tipo \in {"MOV_IN", "MOV_OUT", "COPY_STRING"}, NEW c2,
         c2 = CpuNueva(a)
  PROVE  c2 \in Usos /\ c2.acceso = a /\ Sigue(m, c, i, l, m, c2, i, l, a.pid)
<1> USE DEF CpuNueva
<1> DEFINE p == a.pid
           v == Vista(m, p)
<1>1. /\ a # Nulo /\ p \in Procesos /\ a.dir \in Nat /\ a.n \in Nat /\ a.n > 0
      /\ a.datos \in Seq(Bytes) /\ (a.tipo = "MOV_OUT" => Len(a.datos) = a.n)
      /\ Tamanios[p] \in Nat /\ a.dir + a.n <= Tamanios[p]
  BY AccesoBien
<1>2. <<>> \in Seq(Bytes) /\ Len(<<>>) = 0
  BY EmptySeq
<1>3. c2 \in Usos
  <2>1. c2.fase \in {"lee", "escribe"} /\ c2.datos \in Seq(Bytes)
    BY <1>1, <1>2
  <2>2. c2 = [acceso |-> a, fase |-> c2.fase, dir |-> a.dir, datos |-> c2.datos]
    OBVIOUS
  <2> QED BY <1>1, <2>1, <2>2, UsoNuevo
<1>4. Ver(m, c, i, p) = v /\ Pide(c, i, p) = Nulo
  BY DEF Ver, Pide
<1>5. Contenido(v, a.dir, 0) = <<>>
  <2>1. a.dir + 0 <= Tamanios[p] /\ v \in Espacios(p)
    BY <1>1, VistaTipo
  <2>2. Contenido(v, a.dir, 0) \in Seq(Bytes) /\ Len(Contenido(v, a.dir, 0)) = 0
    BY <1>1, <2>1, ContenidoTipo
  <2> QED BY <2>2, EmptySeq
<1>6. CASE a.tipo = "MOV_OUT"
  <2>1. c2.fase = "escribe" /\ c2.acceso = a /\ c2.dir = a.dir /\ c2.datos = a.datos
    BY <1>6
  <2>2. Len(c2.datos) = a.n /\ ~(Len(c2.datos) < a.n) /\ Len(c2.datos) \in 1..a.n
    BY <1>1, <1>6, <2>1
  <2>3. Ver(m, c2, i, p) = v /\ Pide(c2, i, p) = a
    BY <2>1, <2>2 DEF Ver, Pide
  <2>4. Inicio(a) = a.dir /\ Escrito(a, v) = a.datos
    BY <1>6 DEF Inicio, Escrito
  <2>5. c2.dir = Inicio(a) + a.n - Len(c2.datos)
    BY <1>1, <2>1, <2>2, <2>4
  <2>6. CpuFiel(c2, v)
    BY <1>6, <2>1, <2>2, <2>4, <2>5 DEF CpuFiel
  <2>7. Fiel(m, c2, i, p)
    BY <2>3, <2>6 DEF Fiel
  <2> QED BY <1>3, <1>4, <2>1, <2>3, <2>7 DEF Sigue, Cambio
<1>7. CASE a.tipo # "MOV_OUT"
  <2>1. c2.fase = "lee" /\ c2.acceso = a /\ c2.dir = a.dir /\ c2.datos = <<>>
    BY <1>7
  <2>2. Len(c2.datos) = 0 /\ a.dir = a.dir + 0 /\ 0 < a.n
    BY <1>1, <1>2, <2>1
  <2>3. Ver(m, c2, i, p) = v /\ Pide(c2, i, p) = a
    BY <2>1 DEF Ver, Pide
  <2>4. CpuFiel(c2, v)
    BY <1>5, <1>7, <2>1, <2>2 DEF CpuFiel
  <2>5. Fiel(m, c2, i, p)
    BY <2>3, <2>4 DEF Fiel
  <2> QED BY <1>3, <1>4, <2>1, <2>3, <2>5 DEF Sigue, Cambio
<1> QED BY <1>6, <1>7

\* The size of a piece: it does not leave its page.
LEMMA TrozoBien ==
  ASSUME NEW a, NEW d \in Nat, NEW n \in Nat, n > 0
  PROVE  Trozo(a, d, n) \in 1..n /\ Desplazamiento(d) + Trozo(a, d, n) <= TamPagina
<1>1. TamPagina \in Nat /\ Desplazamiento(d) \in Nat /\ Desplazamiento(d) < TamPagina
  BY Pagina, TamPaginaAssumption
<1>2. CASE a.tipo = "COPY_STRING" /\ n <= 4
  <2>1. Trozo(a, d, n) = 1
    BY <1>2 DEF Trozo
  <2> QED BY <1>1, <2>1
<1>3. CASE ~(a.tipo = "COPY_STRING" /\ n <= 4)
  <2> DEFINE z == TamPagina - Desplazamiento(d)
             t == Menor({4, n, z})
  <2>1. z \in Int /\ z > 0
    BY <1>1
  <2>2. t \in {4, n, z} /\ t <= 4 /\ t <= n /\ t <= z
    <3>1. 4 \in Int /\ n \in Int
      OBVIOUS
    <3> HIDE DEF z
    <3> QED BY <2>1, <3>1, MenorDeTres
  <2>3. Trozo(a, d, n) = t
    BY <1>3 DEF Trozo
  <2> HIDE DEF t
  <2> QED BY <1>1, <2>1, <2>2, <2>3
<1> QED BY <1>2, <1>3

LEMMA LecturaSigue ==
  ASSUME NEW m \in Memorias, NEW p, NEW d \in Nat, NEW l \in Nat, NEW t, Parte(p, d + l, t)
  PROVE  /\ Lectura(Contenido(Vista(m, p), d, l), m, DirFisica(p, d + l), t) = Contenido(Vista(m, p), d, l + t)
         /\ Contenido(Vista(m, p), d, l + t) \in Seq(Bytes) /\ Len(Contenido(Vista(m, p), d, l + t)) = l + t
<1>1. p \in Procesos /\ t \in Nat /\ d + l + t <= Tamanios[p]
  BY DEF Parte
<1>2. Vista(m, p) \in Espacios(p) /\ l + t \in Nat /\ d + (l + t) <= Tamanios[p]
  BY <1>1, VistaTipo, Tablillas
<1>3. Contenido(m, DirFisica(p, d + l), t) = Contenido(Vista(m, p), d + l, t)
  BY Leida
<1>4. Contenido(Vista(m, p), d, l) \o Contenido(Vista(m, p), d + l, t) = Contenido(Vista(m, p), d, l + t)
  BY <1>1, <1>2, DosLecturas
<1> QED BY <1>1, <1>2, <1>3, <1>4, ContenidoTipo DEF Lectura

\* CpuLee: the request goes to the next bytes of the access, all in a page.
LEMMA PideLectura ==
  ASSUME NEW m \in Memorias, NEW c \in Usos, NEW i, NEW p, c.fase = "lee", Suyo(c, p), Fiel(m, c, i, p)
  PROVE  LET a == c.acceso
             l == Len(c.datos)
             t == Trozo(a, c.dir, a.n - l)
             s == Lectura(c.datos, m, DirFisica(p, c.dir), t) IN
         /\ a \in Accesos /\ p = a.pid /\ a.tipo \in {"MOV_IN", "COPY_STRING"} /\ i.fase = "libre"
         /\ l \in Nat /\ t \in Nat /\ t > 0 /\ l + t <= a.n /\ c.dir = a.dir + l
         /\ s \in Seq(Bytes) /\ Len(s) = l + t /\ s = Contenido(Vista(m, p), a.dir, l + t)
         /\ Ver(m, c, i, p) = Vista(m, p) /\ Pide(c, i, p) = a
<1> DEFINE a == c.acceso
           l == Len(c.datos)
           v == Vista(m, p)
           t == Trozo(a, c.dir, a.n - l)
           s == Lectura(c.datos, m, DirFisica(p, c.dir), t)
<1>1. Ver(m, c, i, p) = v
  <2>1. c.fase # "escribe"
    OBVIOUS
  <2>2. i.fase = "libre"
    BY DEF Fiel, Suyo
  <2> QED BY <2>1, <2>2, VerQuieto
<1>2. i.fase = "libre" /\ CpuFiel(c, v)
  BY <1>1 DEF Fiel, Suyo
<1>3. /\ a \in Accesos /\ a.tipo \in {"MOV_IN", "COPY_STRING"} /\ l < a.n
      /\ c.dir = a.dir + l /\ c.datos = Contenido(v, a.dir, l) /\ p = a.pid
  BY <1>2 DEF CpuFiel, Suyo
<1>4. l \in Nat /\ a.n \in Nat /\ a.dir \in Nat /\ p \in Procesos /\ a.dir + a.n <= Tamanios[p] /\ Tamanios[p] \in Nat
  BY <1>3, AccesoBien, UsoBien
<1>5. c.dir \in Nat /\ a.n - l \in Nat /\ a.n - l > 0
  BY <1>3, <1>4
<1>6. t \in 1..(a.n - l) /\ Desplazamiento(c.dir) + t <= TamPagina
  BY <1>5, TrozoBien
<1>7. Pide(c, i, p) = a
  <2>1. c.fase = "lee" /\ c.acceso.pid = p /\ i.fase = "libre"
    BY <1>2, <1>3
  <2> QED BY <2>1 DEF Pide
<1> HIDE DEF a, l, t
<1>8. t \in Nat /\ t > 0 /\ l + t <= a.n /\ a.dir + l + t <= Tamanios[p] /\ a.dir + l \in Nat
  BY <1>3, <1>4, <1>5, <1>6
<1>9. Parte(p, a.dir + l, t)
  <2>1. Desplazamiento(a.dir + l) + t <= TamPagina
    BY <1>3, <1>6
  <2> QED BY <1>4, <1>8, <2>1 DEF Parte
<1>10. s = Contenido(v, a.dir, l + t) /\ s \in Seq(Bytes) /\ Len(s) = l + t
  <2>1. s = Lectura(Contenido(v, a.dir, l), m, DirFisica(p, a.dir + l), t)
    BY <1>3
  <2> HIDE DEF s
  <2> QED BY <1>4, <1>9, <2>1, LecturaSigue
<1> QED BY <1>1, <1>2, <1>3, <1>4, <1>7, <1>8, <1>10 DEF a, l, t

\* CpuLee, when it does not read the last byte.
LEMMA SigueLeyendo ==
  ASSUME NEW m \in Memorias, NEW c \in Usos, NEW i, NEW p, NEW lee, c.fase = "lee", Suyo(c, p), Fiel(m, c, i, p),
         NEW t, t = Trozo(c.acceso, c.dir, c.acceso.n - Len(c.datos)),
         NEW s, s = Lectura(c.datos, m, DirFisica(p, c.dir), t), Len(s) < c.acceso.n,
         NEW c2, c2 = Leyendo(c, t, s)
  PROVE  c2 \in Usos /\ c2.acceso = c.acceso /\ Sigue(m, c, i, lee, m, c2, i, lee, p)
<1> USE DEF Leyendo
<1> DEFINE a == c.acceso
           v == Vista(m, p)
<1>1. PICK l \in Nat :
      /\ a \in Accesos /\ p = a.pid /\ a.tipo \in {"MOV_IN", "COPY_STRING"} /\ i.fase = "libre"
      /\ t \in Nat /\ t > 0 /\ l + t <= a.n /\ c.dir = a.dir + l
      /\ s \in Seq(Bytes) /\ Len(s) = l + t /\ s = Contenido(v, a.dir, l + t)
      /\ Ver(m, c, i, p) = v /\ Pide(c, i, p) = a
  BY PideLectura
<1>2. c2.acceso = a /\ c2.fase = "lee" /\ c2.dir = c.dir + t /\ c2.datos = s
  BY DEF Usos
<1>3. a.dir \in Nat /\ c.dir \in Nat /\ c2.dir = a.dir + Len(s) /\ c2.dir \in Nat
  BY <1>1, <1>2, AccesoBien
<1>4. c2 \in Usos
  <2>1. c2 = [acceso |-> a, fase |-> "lee", dir |-> c2.dir, datos |-> s]
    BY DEF Usos
  <2> QED BY <1>1, <1>3, <2>1, UsoNuevo
<1>5. Ver(m, c2, i, p) = v /\ Pide(c2, i, p) = a
  BY <1>1, <1>2 DEF Ver, Pide
<1>6. CpuFiel(c2, v)
  BY <1>1, <1>2, <1>3 DEF CpuFiel
<1>7. Fiel(m, c2, i, p)
  BY <1>1, <1>5, <1>6 DEF Fiel
<1> QED BY <1>1, <1>2, <1>4, <1>5, <1>7 DEF Sigue, Cambio

\* CpuLee, when COPY_STRING has its bytes.
LEMMA TerminaDeLeer ==
  ASSUME NEW m \in Memorias, NEW c \in Usos, NEW i, NEW p, NEW lee, c.fase = "lee", Suyo(c, p), Fiel(m, c, i, p),
         NEW s, s = Lectura(c.datos, m, DirFisica(p, c.dir), Trozo(c.acceso, c.dir, c.acceso.n - Len(c.datos))),
         Len(s) >= c.acceso.n, c.acceso.tipo = "COPY_STRING",
         NEW c2, c2 = AEscribir(c, s)
  PROVE  c2 \in Usos /\ c2.acceso = c.acceso /\ Sigue(m, c, i, lee, m, c2, i, lee, p)
<1> USE DEF AEscribir
<1> DEFINE a == c.acceso
           v == Vista(m, p)
<1>1. PICK l \in Nat, t \in Nat :
      /\ a \in Accesos /\ p = a.pid /\ i.fase = "libre" /\ l + t <= a.n
      /\ s \in Seq(Bytes) /\ Len(s) = l + t /\ s = Contenido(v, a.dir, l + t)
      /\ Ver(m, c, i, p) = v /\ Pide(c, i, p) = a
  BY PideLectura
<1>2. c2.acceso = a /\ c2.fase = "escribe" /\ c2.dir = a.destino /\ c2.datos = s
  BY DEF Usos
<1>3. a.n \in Nat /\ a.n > 0 /\ a.destino \in Nat
  BY <1>1, AccesoBien
<1>4. l + t = a.n
  BY <1>1, <1>3
<1>5. Len(s) = a.n /\ Len(s) \in 1..a.n /\ ~(Len(s) < a.n) /\ s = Contenido(v, a.dir, a.n)
  BY <1>1, <1>3, <1>4
<1>6. c2 \in Usos
  <2>1. c2 = [acceso |-> a, fase |-> "escribe", dir |-> a.destino, datos |-> s]
    BY DEF Usos
  <2>2. a \in Accesos /\ s \in Seq(Bytes) /\ a.destino \in Nat
    BY <1>1, <1>3
  <2> HIDE DEF a
  <2>3. [acceso |-> a, fase |-> "escribe", dir |-> a.destino, datos |-> s] \in Usos
    BY <2>2, UsoNuevo
  <2> QED BY <2>1, <2>3
<1>7. Ver(m, c2, i, p) = v /\ Pide(c2, i, p) = a
  BY <1>1, <1>2, <1>5 DEF Ver, Pide
<1>8. CpuFiel(c2, v)
  <2>1. Inicio(a) = a.destino /\ Escrito(a, v) = s
    BY <1>5 DEF Inicio, Escrito
  <2>2. c2.dir = Inicio(a) + a.n - Len(s)
    BY <1>2, <1>3, <1>5, <2>1
  <2> QED BY <1>1, <1>2, <1>5, <2>1, <2>2 DEF CpuFiel
<1>9. Fiel(m, c2, i, p)
  BY <1>1, <1>7, <1>8 DEF Fiel
<1> QED BY <1>1, <1>2, <1>6, <1>7, <1>9 DEF Sigue, Cambio

\* CpuLee, when MOV_IN has its register.
LEMMA LeeElUltimo ==
  ASSUME NEW m \in Memorias, NEW c \in Usos, NEW i, NEW p, NEW lee, c.fase = "lee", Suyo(c, p), Fiel(m, c, i, p),
         NEW s, s = Lectura(c.datos, m, DirFisica(p, c.dir), Trozo(c.acceso, c.dir, c.acceso.n - Len(c.datos))),
         Len(s) >= c.acceso.n, c.acceso.tipo # "COPY_STRING"
  PROVE  s \in Seq(Bytes) /\ c.acceso.tipo = "MOV_IN" /\ Sigue(m, c, i, lee, m, Ociosa, i, s, p)
<1> DEFINE a == c.acceso
           v == Vista(m, p)
<1>1. PICK l \in Nat, t \in Nat :
      /\ a \in Accesos /\ p = a.pid /\ i.fase = "libre" /\ l + t <= a.n /\ a.tipo \in {"MOV_IN", "COPY_STRING"}
      /\ s \in Seq(Bytes) /\ Len(s) = l + t /\ s = Contenido(v, a.dir, l + t)
      /\ Ver(m, c, i, p) = v /\ Pide(c, i, p) = a
  BY PideLectura
<1>2. a.tipo = "MOV_IN" /\ a.n \in Nat
  BY <1>1, AccesoBien
<1>3. l + t = a.n
  BY <1>1, <1>2
<1>4. s = Contenido(v, a.dir, a.n)
  BY <1>1, <1>3
<1>5. Ver(m, Ociosa, i, p) = v /\ Pide(Ociosa, i, p) = Nulo /\ Fiel(m, Ociosa, i, p)
  BY <1>1, OciosaBien DEF Ver, Pide, Fiel
<1> QED BY <1>1, <1>2, <1>4, <1>5 DEF Sigue, Cambio

\* A piece in a page of p, and then the rest of it, are the whole.
LEMMA PegaTrozo ==
  ASSUME NEW m \in Memorias, NEW s \in Seq(Bytes), NEW t \in 1..Len(s), NEW p, NEW d, Parte(p, d, t)
  PROVE  /\ Primeros(s, t) \in Seq(Bytes) /\ Len(Primeros(s, t)) = t
         /\ t < Len(s) => Copiada(Vista(Copiada(m, DirFisica(p, d), Primeros(s, t)), p), d + t, Resto(s, t))
                            = Copiada(Vista(m, p), d, s)
         /\ t = Len(s) => Vista(Copiada(m, DirFisica(p, d), Primeros(s, t)), p) = Copiada(Vista(m, p), d, s)
<1> DEFINE b == Primeros(s, t)
           v == Vista(m, p)
           w == Vista(Copiada(m, DirFisica(p, d), b), p)
<1>1. b \in Seq(Bytes) /\ Len(b) = t /\ (t = Len(s) => b = s)
  BY Trozos
<1>2. w = Copiada(v, d, b)
  <2>1. Parte(p, d, Len(b))
    BY <1>1
  <2> HIDE DEF b
  <2> QED BY <1>1, <2>1, Pega
<1>3. p \in Procesos /\ d \in Nat
  BY DEF Parte
<1>4. v \in [0..(Tamanios[p] - 1) -> Bytes] /\ 0..(Tamanios[p] - 1) \subseteq Int
  BY <1>3, VistaTipo DEF Espacios
<1> HIDE DEF v
<1>5. ASSUME t < Len(s) PROVE Copiada(Copiada(v, d, b), d + t, Resto(s, t)) = Copiada(v, d, s)
  <2>1. t \in 1..(Len(s) - 1)
    BY <1>5
  <2> QED BY <1>3, <1>4, <2>1, DosCopias
<1> HIDE DEF b, w
<1>6. t < Len(s) => Copiada(w, d + t, Resto(s, t)) = Copiada(v, d, s)
  BY <1>2, <1>5
<1>7. t = Len(s) => w = Copiada(v, d, s)
  BY <1>1, <1>2
<1> QED BY <1>1, <1>6, <1>7 DEF b, v, w

\* CpuEscribe: what is left of the access, as p sees it, was already there;
\* its first piece puts all of it.
LEMMA EscribeCpuUno ==
  ASSUME NEW m \in Memorias, NEW c \in Usos, NEW i, NEW p, NEW lee, c.fase = "escribe", Suyo(c, p),
         Fiel(m, c, i, p),
         NEW t, t = Trozo(c.acceso, c.dir, Len(c.datos)),
         NEW b, b = Primeros(c.datos, t),
         NEW c2, c2 = Escribiendo(c, t),
         NEW m2, m2 = Copiada(m, DirFisica(p, c.dir), b)
  PROVE  /\ c2 \in Usos /\ NoOtro(c2, c.acceso)
         /\ b \in Seq(Bytes) /\ Parte(p, c.dir, Len(b)) /\ i.fase = "libre" /\ p \in Procesos
         /\ Sigue(m, c, i, lee, m2, c2, i, lee, p)
<1> USE DEF Escribiendo, NoOtro
<1> DEFINE a == c.acceso
           s == c.datos
           d == c.dir
           l == Len(s)
           v == Ver(m, c, i, p)
           nuevo == Copiada(Vista(m, p), d, s)
<1>1. /\ i.fase = "libre" /\ p = a.pid /\ a \in Accesos /\ a.tipo \in {"MOV_OUT", "COPY_STRING"}
      /\ l \in 1..a.n /\ d = Inicio(a) + a.n - l
      /\ l = a.n => s = Escrito(a, v)
  BY DEF Fiel, CpuFiel, Suyo
<1>2. /\ s \in Seq(Bytes) /\ l \in Nat /\ d \in Nat /\ a.n \in Nat /\ a.n > 0 /\ p \in Procesos
      /\ Inicio(a) \in Nat /\ Inicio(a) + a.n <= Tamanios[p] /\ Tamanios[p] \in Nat /\ a # Nulo
  BY <1>1, AccesoBien, UsoBien DEF Inicio
<1>3. t \in 1..l /\ Desplazamiento(d) + t <= TamPagina
  <2>1. l > 0
    BY <1>1, <1>2
  <2> HIDE DEF l, d, a
  <2>2. t = Trozo(a, d, l)
    BY DEF l, d, a
  <2> QED BY <1>2, <2>1, <2>2, TrozoBien
<1>4. Parte(p, d, t)
  <2>1. d + t <= Tamanios[p] /\ t \in Nat /\ t > 0
    <3>1. PICK n \in Nat, x \in Nat, y \in Nat, z \in Nat :
            /\ n = a.n /\ x = Inicio(a) /\ y = l /\ z = Tamanios[p] /\ d = x + n - y /\ x + n <= z
      BY <1>1, <1>2
    <3>2. t \in 1..y
      BY <1>3, <3>1
    <3>3. PICK j \in Nat : j = t
      BY <3>2
    <3> HIDE DEF a, l, d
    <3>4. (x + n - y) + j <= z /\ j > 0
      <4>1. x + n <= z /\ j <= y /\ j > 0
        BY <3>1, <3>2, <3>3
      <4> QED BY <4>1
    <3> QED BY <3>1, <3>3, <3>4
  <2> QED BY <1>2, <1>3, <2>1 DEF Parte
<1>5. /\ b \in Seq(Bytes) /\ Len(b) = t
      /\ t < l => Copiada(Vista(m2, p), d + t, Resto(s, t)) = nuevo
      /\ t = l => Vista(m2, p) = nuevo
  BY <1>2, <1>3, <1>4, PegaTrozo
<1>6. v = IF l < a.n THEN nuevo ELSE Vista(m, p)
  BY <1>1 DEF Ver, Suyo
<1>7. Pide(c, i, p) = IF l < a.n THEN Nulo ELSE a
  BY <1>1 DEF Pide, Suyo
<1>8. /\ c2 \in Usos /\ (c2.fase # "libre" => c2.acceso = a)
      /\ Ver(m2, c2, i, p) = nuevo /\ Pide(c2, i, p) = Nulo /\ Fiel(m2, c2, i, p)
  <2>1. CASE t < l
    <3>1. c2 = [c EXCEPT !.dir = @ + t, !.datos = Resto(@, t)]
      BY <2>1
    <3>2. /\ c2.acceso = a /\ c2.fase = "escribe" /\ c2.dir = d + t /\ c2.datos = Resto(s, t)
          /\ c2 = [acceso |-> a, fase |-> "escribe", dir |-> d + t, datos |-> Resto(s, t)]
      BY <3>1 DEF Usos
    <3>3. Resto(s, t) \in Seq(Bytes) /\ Len(Resto(s, t)) = l - t
      BY <1>2, <1>3, Trozos
    <3>4. l - t \in 1..a.n /\ l - t < a.n /\ d + t \in Nat /\ d + t = Inicio(a) + a.n - (l - t)
      <4>1. PICK n \in Nat, x \in Nat, y \in Nat, z \in Nat :
              n = a.n /\ x = Inicio(a) /\ y = l /\ z = d /\ z = x + n - y /\ y <= n
        BY <1>1, <1>2
      <4>2. t \in 1..y /\ t < y
        BY <1>3, <2>1, <4>1
      <4> HIDE DEF a, l, d
      <4>3. PICK j \in Nat, r \in Nat : j = t /\ j > 0 /\ j < y /\ r = y - j
        BY <4>2
      <4>4. r \in 1..n /\ r < n
        BY <4>1, <4>3, SMTT(30)
      <4>5. z + j \in Nat /\ z + j = x + n - r
        BY <4>1, <4>3, SMTT(30)
      <4> QED BY <4>1, <4>3, <4>4, <4>5
    <3>5. c2 \in Usos
      BY <1>1, <3>2, <3>3, <3>4, UsoNuevo
    <3>6. Ver(m2, c2, i, p) = nuevo
      BY <1>1, <1>5, <2>1, <3>2, <3>3, <3>4 DEF Ver
    <3>7. Pide(c2, i, p) = Nulo
      BY <1>1, <3>2, <3>3, <3>4 DEF Pide
    <3>8. CpuFiel(c2, nuevo)
      <4>1. Len(c2.datos) = l - t /\ c2.dir = Inicio(a) + a.n - Len(c2.datos) /\ Len(c2.datos) # a.n
        BY <1>2, <3>2, <3>3, <3>4
      <4> QED BY <1>1, <3>2, <3>4, <4>1 DEF CpuFiel
    <3>9. Fiel(m2, c2, i, p)
      BY <1>1, <3>6, <3>8 DEF Fiel
    <3> QED BY <3>2, <3>5, <3>6, <3>7, <3>9
  <2>2. CASE t = l
    <3>1. c2 = Ociosa
      BY <1>2, <2>2
    <3>2. Ver(m2, c2, i, p) = nuevo
      BY <1>1, <1>5, <2>2, <3>1, OciosaBien DEF Ver
    <3>3. Pide(c2, i, p) = Nulo /\ Fiel(m2, c2, i, p)
      BY <1>1, <3>1, OciosaBien DEF Pide, Fiel
    <3> QED BY <3>1, <3>2, <3>3, OciosaBien
  <2> QED BY <1>2, <1>3, <2>1, <2>2
<1>9. Cambio(v, Pide(c, i, p), lee, Ver(m2, c2, i, p), Pide(c2, i, p), lee, p)
  <2>1. CASE l < a.n
    BY <1>6, <1>7, <1>8, <2>1 DEF Cambio
  <2>2. CASE l = a.n
    <3>1. Pide(c, i, p) = a /\ v = Vista(m, p) /\ s = Escrito(a, v)
      BY <1>1, <1>2, <1>6, <1>7, <2>2
    <3>2. d = Inicio(a)
      BY <1>1, <1>2, <2>2
    <3>3. Ver(m2, c2, i, p) = Copiada(v, Inicio(a), Escrito(a, v))
      BY <1>8, <3>1, <3>2
    <3> HIDE DEF v, a
    <3> QED BY <1>1, <1>8, <3>1, <3>3 DEF Cambio
  <2> QED BY <1>1, <1>2, <2>1, <2>2
<1> QED BY <1>1, <1>2, <1>4, <1>5, <1>8, <1>9 DEF Sigue

(***************************************************************************)
(* Devices.                                                                *)
(***************************************************************************)

\* A device asks for its access.
LEMMA EmpiezaIo ==
  ASSUME NEW m \in Memorias, NEW c, NEW i, NEW l, NEW a \in Accesos, c.fase = "libre", i.fase = "libre",
         a.tipo \in {"ENTRADA", "SALIDA"}, Admitido(a), NEW i2,
         i2 = IoNueva(a)
  PROVE  i2 \in Usos /\ Sigue(m, c, i, l, m, c, i2, l, a.pid)
<1> USE DEF IoNueva
<1> DEFINE p == a.pid
           v == Vista(m, p)
<1>1. /\ a # Nulo /\ p \in Procesos /\ a.dir \in Nat /\ a.n \in Nat /\ a.n > 0
      /\ a.datos \in Seq(Bytes) /\ Tamanios[p] \in Nat /\ a.dir + a.n <= Tamanios[p]
  BY AccesoBien
<1>2. a.dir \in 0..(Tamanios[p] - 1)
  BY <1>1
<1>3. i2 \in Usos
  BY <1>1, <1>2, Marco, UsoNuevo
<1>4. Ver(m, c, i, p) = v /\ Pide(c, i, p) = Nulo
  BY DEF Ver, Pide
<1>5. Ver(m, c, i2, p) = v /\ Pide(c, i2, p) = a
  BY DEF Ver, Pide
<1>6. IoFiel(i2, p, v)
  BY DEF IoFiel
<1>7. Fiel(m, c, i2, p)
  BY <1>5, <1>6 DEF Fiel
<1> QED BY <1>3, <1>4, <1>5, <1>7 DEF Sigue, Cambio

LEMMA SinBytes ==
  ASSUME NEW p \in Procesos, NEW v \in Espacios(p), NEW d \in Nat, d <= Tamanios[p]
  PROVE  Contenido(v, d, 0) = <<>>
<1>1. d + 0 <= Tamanios[p]
  BY Tablillas
<1>2. Contenido(v, d, 0) \in Seq(Bytes) /\ Len(Contenido(v, d, 0)) = 0
  BY <1>1, ContenidoTipo
<1> QED BY <1>2, EmptySeq

\* The pieces in the socket are of others than a process with a device.
LEMMA DeOtros ==
  ASSUME NEW s, NEW dispositivos, Apartadas(s, dispositivos), NEW p, dispositivos[p].fase # "libre"
  PROVE  \A k \in 1..Len(s) : \E q \in Procesos \ {p} : DeProceso(s[k], q)
BY DEF Apartadas

\* What a device writes for p, before or after the pieces of others arrive.
LEMMA PegaIo ==
  ASSUME NEW m \in Memorias, NEW s \in Seq(Piezas), NEW p, NEW d, NEW b \in Seq(Bytes), Parte(p, d, Len(b)),
         \A k \in 1..Len(s) : \E q \in Procesos \ {p} : DeProceso(s[k], q)
  PROVE  /\ Copiada(m, DirFisica(p, d), b) \in Memorias
         /\ Llegan(Copiada(m, DirFisica(p, d), b), s) = Copiada(Llegan(m, s), DirFisica(p, d), b)
         /\ \A q \in Procesos : q # p => Vista(Llegan(Copiada(m, DirFisica(p, d), b), s), q) = Vista(Llegan(m, s), q)
<1> DEFINE w == [dir |-> DirFisica(p, d), datos |-> b]
           n == Len(b)
<1>1. p \in Procesos /\ n \in Nat /\ n > 0 /\ d \in 0..(Tamanios[p] - 1) /\ DirFisica(p, d) \in Nat
  <2>1. p \in Procesos /\ n \in Nat /\ n > 0
    BY DEF Parte
  <2>2. 0 \in 0..(n - 1)
    BY <2>1
  <2>3. d \in 0..(Tamanios[p] - 1)
    BY <2>2, Seguidas
  <2> QED BY <2>1, <2>3, Marco
<1>2. w \in Piezas /\ w.dir = DirFisica(p, d) /\ w.datos = b
  BY <1>1 DEF Piezas
<1>3. ASSUME NEW e \in Direcciones, Toca(w, e), NEW k \in 1..Len(s) PROVE ~Toca(s[k], e)
  <2>1. PICK j \in 0..(n - 1) : e = DirFisica(p, d) + j
    <3>1. e \in Nat /\ e \in DirFisica(p, d)..(DirFisica(p, d) + n - 1)
      BY <1>2, <1>3 DEF Toca, Direcciones
    <3>2. e - DirFisica(p, d) \in 0..(n - 1) /\ e = DirFisica(p, d) + (e - DirFisica(p, d))
      BY <1>1, <3>1
    <3> QED BY <3>2
  <2>2. d + j \in 0..(Tamanios[p] - 1) /\ DirFisica(p, d + j) = e
    BY <2>1, Seguidas
  <2>3. PICK q \in Procesos \ {p} : DeProceso(s[k], q)
    OBVIOUS
  <2> QED BY <1>1, <2>2, <2>3, PiezaAjena
<1> HIDE DEF w
<1>4. Llegan(Copiada(m, DirFisica(p, d), b), s) = Copiada(Llegan(m, s), DirFisica(p, d), b)
  BY <1>2, <1>3, LlegaAparte
<1>5. Llegan(m, s) \in Memorias
  BY LleganTipo
<1> QED BY <1>4, <1>5, Pega

\* The page a device goes on with is the one that the program has next.
LEMMA SiguientePagina ==
  ASSUME NEW p \in Procesos, NEW x \in 0..(Tamanios[p] - 1), Desplazamiento(x) = 0, x >= TamPagina,
         NEW d \in Nat, d \div TamPagina = Tablas[p][x \div TamPagina]
  PROVE  /\ PaginasSiguientes(p, d) # {}
         /\ PaginaSiguiente(p, d) = DirFisica(p, x)
<1> DEFINE q == x \div TamPagina
           k == 1 + q
<1>1. x \in Nat /\ k \in DOMAIN Tablas[p] /\ Tablas[p][k] \in 0..(CantMarcos - 1)
  BY Marco
<1>2. q \in Nat /\ x = q * TamPagina + 0
  BY <1>1, Pagina
<1>3. q >= 1
  <2>1. ASSUME q = 0 PROVE FALSE
    BY <1>2, <2>1, TamPaginaAssumption
  <2> QED BY <1>2, <2>1
<1>4. DOMAIN Tablas[p] = 1..Len(Tablas[p]) /\ Len(Tablas[p]) \in Nat
  BY Tablillas
<1> HIDE DEF q
<1>5. q \in DOMAIN Tablas[p] /\ k > 1 /\ k - 1 = q
  BY <1>1, <1>2, <1>3, <1>4
<1>6. k \in PaginasSiguientes(p, d)
  BY <1>1, <1>5 DEF PaginasSiguientes, q
<1>7. ASSUME NEW j \in PaginasSiguientes(p, d) PROVE j = k
  <2>1. j \in DOMAIN Tablas[p] /\ j > 1 /\ Tablas[p][j - 1] = Tablas[p][q]
    BY DEF PaginasSiguientes, q
  <2>2. j - 1 \in DOMAIN Tablas[p] /\ j \in Nat
    BY <1>4, <2>1
  <2>3. j - 1 = q
    BY <1>5, <2>1, <2>2, TablasAssumption
  <2> QED BY <1>2, <2>2, <2>3
<1>8. PaginaSiguiente(p, d) = Tablas[p][k] * TamPagina
  BY <1>6, <1>7 DEF PaginaSiguiente
<1>9. Tablas[p][k] * TamPagina \in Nat
  <2>1. Tablas[p][k] \in Nat /\ TamPagina \in Nat
    BY <1>1, TamPaginaAssumption
  <2> QED BY <2>1
<1>10. DirFisica(p, x) = Tablas[p][k] * TamPagina
  BY <1>9 DEF DirFisica, q
<1> QED BY <1>6, <1>8, <1>10

\* EscribirPrimera, when all fits in the page.
LEMMA EscribeTodo ==
  ASSUME NEW m \in Memorias, NEW c, NEW i \in Usos, NEW p, NEW lee, i.fase = "empieza",
         i.acceso.tipo = "ENTRADA", Fiel(m, c, i, p),
         TamPagina - Desplazamiento(i.dir) >= i.acceso.n
  PROVE  /\ i.datos \in Seq(Bytes) /\ i.dir = DirFisica(p, i.acceso.dir)
         /\ Parte(p, i.acceso.dir, Len(i.datos))
         /\ Sigue(m, c, i, lee, Copiada(m, i.dir, i.datos), c, Ociosa, lee, p)
<1> DEFINE a == i.acceso
           v == Vista(m, p)
           m2 == Copiada(m, i.dir, i.datos)
<1>1. ~Suyo(c, p) /\ IoFiel(i, p, Ver(m, c, i, p))
  BY DEF Fiel, Suyo
<1>2. a \in Accesos /\ a.pid = p /\ i.dir = DirFisica(p, a.dir) /\ i.datos = a.datos
  BY <1>1 DEF IoFiel
<1>3. /\ a # Nulo /\ p \in Procesos /\ a.dir \in Nat /\ a.n \in Nat /\ a.n > 0
      /\ a.datos \in Seq(Bytes) /\ Len(a.datos) = a.n /\ Tamanios[p] \in Nat /\ a.dir + a.n <= Tamanios[p]
  BY <1>2, AccesoBien
<1>4. a.dir \in 0..(Tamanios[p] - 1)
  BY <1>3
<1>5. Desplazamiento(i.dir) = Desplazamiento(a.dir)
  BY <1>2, <1>3, <1>4, Marco
<1>6. Parte(p, a.dir, a.n)
  <2>1. Desplazamiento(a.dir) \in Nat /\ TamPagina \in Nat
    <3>1. Desplazamiento(a.dir) \in 0..(TamPagina - 1)
      BY <1>3, Pagina
    <3> QED BY <3>1, TamPaginaAssumption
  <2>2. Desplazamiento(a.dir) + a.n <= TamPagina
    BY <1>3, <1>5, <2>1
  <2> QED BY <1>3, <2>2 DEF Parte
<1>7. Ver(m, c, i, p) = v /\ Ver(m2, c, Ociosa, p) = Vista(m2, p)
  BY <1>1, OciosaBien, VerQuieto
<1>8. Pide(c, i, p) = a /\ Pide(c, Ociosa, p) = Nulo
  BY <1>1, OciosaBien DEF Pide, Suyo
<1>9. Vista(m2, p) = Copiada(v, a.dir, a.datos)
  BY <1>2, <1>3, <1>6, Pega
<1>10. Inicio(a) = a.dir /\ Escrito(a, v) = a.datos
  BY DEF Inicio, Escrito
<1>11. Fiel(m2, c, Ociosa, p)
  BY <1>1, OciosaBien DEF Fiel, Suyo
<1> QED BY <1>2, <1>3, <1>6, <1>7, <1>8, <1>9, <1>10, <1>11 DEF Sigue, Cambio

\* EscribirPrimera, when there are more pages.
LEMMA EscribePrimera ==
  ASSUME NEW m \in Memorias, NEW c, NEW i \in Usos, NEW p, NEW lee, i.fase = "empieza",
         i.acceso.tipo = "ENTRADA", Fiel(m, c, i, p),
         ~(TamPagina - Desplazamiento(i.dir) >= i.acceso.n),
         NEW b, b = Primeros(i.datos, TamPagina),
         NEW i2, i2 = PrimeraHecha(i, Resto(i.datos, TamPagina))
  PROVE  /\ ~(i.acceso.n < TamPagina) /\ i2 \in Usos
         /\ b \in Seq(Bytes) /\ i.dir = DirFisica(p, i.acceso.dir) /\ Parte(p, i.acceso.dir, Len(b))
         /\ Sigue(m, c, i, lee, Copiada(m, i.dir, b), c, i2, lee, p)
<1> USE DEF PrimeraHecha
<1> DEFINE a == i.acceso
           v == Vista(m, p)
           m2 == Copiada(m, i.dir, b)
           nuevo == Copiada(v, a.dir, a.datos)
<1>1. ~Suyo(c, p) /\ IoFiel(i, p, Ver(m, c, i, p))
  BY DEF Fiel, Suyo
<1>2. a \in Accesos /\ a.pid = p /\ i.dir = DirFisica(p, a.dir) /\ i.datos = a.datos /\ Admitido(a)
  BY <1>1 DEF IoFiel
<1>3. /\ a # Nulo /\ p \in Procesos /\ a.dir \in Nat /\ a.n \in Nat /\ a.n > 0
      /\ a.datos \in Seq(Bytes) /\ Len(a.datos) = a.n /\ Tamanios[p] \in Nat /\ a.dir + a.n <= Tamanios[p]
  BY <1>2, AccesoBien
<1>4. a.dir \in 0..(Tamanios[p] - 1)
  BY <1>3
<1>5. /\ Desplazamiento(i.dir) = Desplazamiento(a.dir)
      /\ i.dir \div TamPagina = Tablas[p][1 + (a.dir \div TamPagina)]
  BY <1>2, <1>3, <1>4, Marco
<1>6. TamPagina \in Nat /\ TamPagina > 0 /\ Desplazamiento(a.dir) \in Nat /\ a.dir \div TamPagina \in Nat
  BY <1>3, Pagina, TamPaginaAssumption
<1>7. Desplazamiento(a.dir) = 0 /\ TamPagina < a.n
  <2>1. ~(Desplazamiento(a.dir) + a.n <= TamPagina)
    BY <1>3, <1>5, <1>6
  <2>2. Desplazamiento(a.dir) = 0
    BY <1>2, <2>1 DEF Admitido, Cabe
  <2> QED BY <1>3, <1>6, <2>1, <2>2
<1> HIDE DEF a
<1>8. /\ TamPagina \in 1..Len(a.datos) /\ TamPagina < Len(a.datos)
      /\ a.n - TamPagina \in 1..(a.n - 1) /\ a.dir + a.n - (a.n - TamPagina) = a.dir + TamPagina
      /\ a.dir + TamPagina <= Tamanios[p] /\ TamPagina = TamPagina - Desplazamiento(a.dir)
      /\ Desplazamiento(a.dir) + TamPagina <= TamPagina
  <2>1. /\ TamPagina \in 1..a.n /\ a.n - TamPagina \in 1..(a.n - 1)
        /\ a.dir + a.n - (a.n - TamPagina) = a.dir + TamPagina /\ a.dir + TamPagina <= Tamanios[p]
    <3>1. PICK n \in Nat, x \in Nat, z \in Nat, b0 \in Nat :
             n = a.n /\ x = a.dir /\ z = Tamanios[p] /\ b0 = TamPagina /\ b0 > 0 /\ b0 < n /\ x + n <= z
      BY <1>3, <1>6, <1>7
    <3>2. b0 \in 1..n /\ n - b0 \in 1..(n - 1) /\ x + n - (n - b0) = x + b0 /\ x + b0 <= z
      BY <3>1
    <3> QED BY <3>1, <3>2
  <2>2. TamPagina = TamPagina - Desplazamiento(a.dir) /\ Desplazamiento(a.dir) + TamPagina <= TamPagina
    BY <1>6, <1>7
  <2> QED BY <1>3, <1>7, <2>1, <2>2
<1>9. Parte(p, a.dir, TamPagina)
  BY <1>3, <1>6, <1>8 DEF Parte
<1>10. /\ b \in Seq(Bytes) /\ Len(b) = TamPagina
       /\ Copiada(Vista(m2, p), a.dir + TamPagina, Resto(a.datos, TamPagina)) = nuevo
  BY <1>2, <1>3, <1>8, <1>9, PegaTrozo
<1>11. /\ Resto(a.datos, TamPagina) \in Seq(Bytes) /\ Len(Resto(a.datos, TamPagina)) = a.n - TamPagina
  BY <1>3, <1>8, Trozos
<1>12. /\ i2.acceso = a /\ i2.fase = "sigue" /\ i2.dir = i.dir /\ i2.datos = Resto(a.datos, TamPagina)
       /\ i2 = [acceso |-> a, fase |-> "sigue", dir |-> i.dir, datos |-> Resto(a.datos, TamPagina)]
  BY <1>2 DEF Usos, a
<1>13. i2 \in Usos
  <2>1. i.dir \in Nat
    BY UsoBien
  <2>2. [acceso |-> a, fase |-> "sigue", dir |-> i.dir, datos |-> Resto(a.datos, TamPagina)] \in Usos
    BY <1>2, <1>11, <2>1, UsoNuevo
  <2> QED BY <1>12, <2>2
<1>14. Ver(m, c, i, p) = v /\ Pide(c, i, p) = a
  BY <1>1, VerQuieto DEF Pide, Suyo, a
<1>15. a.tipo = "ENTRADA"
  BY DEF a
<1>16. Ver(m2, c, i2, p) = nuevo /\ Pide(c, i2, p) = Nulo
  <2>1. i2.acceso.dir + i2.acceso.n - Len(i2.datos) = a.dir + TamPagina
    BY <1>8, <1>11, <1>12
  <2> QED BY <1>1, <1>10, <1>12, <1>15, <2>1 DEF Ver, Pide, Suyo
<1>17. /\ Desplazamiento(a.dir + TamPagina) = 0 /\ a.dir + TamPagina >= TamPagina
       /\ (a.dir + TamPagina) \div TamPagina = (a.dir \div TamPagina) + 1
  BY <1>3, <1>8, FinDePagina
<1>18. IoFiel(i2, p, nuevo)
  <2>1. i.dir \div TamPagina = Tablas[p][(a.dir + TamPagina) \div TamPagina]
    <3>1. (a.dir \div TamPagina) + 1 = 1 + (a.dir \div TamPagina)
      BY <1>6
    <3> QED BY <1>5, <1>17, <3>1
  <2>2. a.dir + a.n - Len(i2.datos) = a.dir + TamPagina /\ Len(i2.datos) \in 1..(a.n - 1)
    BY <1>8, <1>11, <1>12
  <2> QED BY <1>2, <1>12, <1>15, <1>17, <2>1, <2>2 DEF IoFiel
<1>19. Fiel(m2, c, i2, p)
  BY <1>1, <1>16, <1>18 DEF Fiel, Suyo
<1>20. Inicio(a) = a.dir /\ Escrito(a, v) = a.datos
  BY <1>15 DEF Inicio, Escrito
<1>21. Cambio(Ver(m, c, i, p), Pide(c, i, p), lee, Ver(m2, c, i2, p), Pide(c, i2, p), lee, p)
  BY <1>2, <1>14, <1>15, <1>16, <1>20 DEF Cambio
<1>22. ~(a.n < TamPagina)
  BY <1>3, <1>6, <1>7
<1> QED BY <1>2, <1>9, <1>10, <1>13, <1>19, <1>21, <1>22 DEF Sigue, a

LEMMA Ultimos ==
  ASSUME NEW n \in Nat, NEW z \in Nat, NEW y \in 1..(n - 1), NEW w \in Nat, z + n <= w
  PROVE  z + n - y \in Nat /\ (z + n - y) + y <= w /\ y > 0 /\ z + n - y \in 0..(w - 1)
OBVIOUS

LEMMA UnaPagina ==
  ASSUME NEW l \in Nat, l > 0, NEW x \in Nat, NEW w \in Nat, x + l <= w
  PROVE  LET t == IF l <= TamPagina THEN l ELSE TamPagina IN
         /\ t \in 1..l /\ t <= TamPagina /\ t \in Nat /\ t > 0 /\ (t < l => t = TamPagina) /\ x + t <= w
         /\ Menor({TamPagina, l}) = t
<1>1. TamPagina \in Nat /\ TamPagina > 0
  BY TamPaginaAssumption
<1>2. Menor({TamPagina, l}) = IF TamPagina <= l THEN TamPagina ELSE l
  BY <1>1, MenorDeDos
<1> QED BY <1>1, <1>2

LEMMA MenosAun ==
  ASSUME NEW n \in Nat, NEW z \in Nat, NEW y \in 1..(n - 1), NEW t \in 1..y, t < y
  PROVE  z + n - (y - t) = (z + n - y) + t /\ y - t \in 1..(n - 1)
OBVIOUS

\* EscribirSiguiente: a page, or what is left.
LEMMA EscribeSiguiente ==
  ASSUME NEW m \in Memorias, NEW c, NEW i \in Usos, NEW p, NEW lee, i.fase = "sigue",
         i.acceso.tipo = "ENTRADA", Fiel(m, c, i, p),
         NEW d, d = PaginaSiguiente(p, i.dir), NEW b, b = Primeros(i.datos, TamPagina),
         NEW i2, i2 = OtraEscrita(i, d)
  PROVE  /\ PaginasSiguientes(p, i.dir) # {} /\ i2 \in Usos
         /\ b \in Seq(Bytes)
         /\ EnPagina(p, d, Len(b))
         /\ Sigue(m, c, i, lee, Copiada(m, d, b), c, i2, lee, p)
<1> USE DEF OtraHecha, OtraEscrita, EnPagina
<1> DEFINE a == i.acceso
           s == i.datos
           l == Len(s)
           x == a.dir + a.n - l
           v == Ver(m, c, i, p)
           m2 == Copiada(m, d, b)
           t == IF l <= TamPagina THEN l ELSE TamPagina
<1>1. ~Suyo(c, p) /\ IoFiel(i, p, v)
  BY DEF Fiel, Suyo
<1>2. /\ a \in Accesos /\ a.pid = p /\ a.tipo = "ENTRADA" /\ Admitido(a) /\ l \in 1..(a.n - 1)
      /\ Desplazamiento(x) = 0 /\ x >= TamPagina
      /\ i.dir \div TamPagina = Tablas[p][x \div TamPagina]
  BY <1>1 DEF IoFiel
<1>3. /\ p \in Procesos /\ a.dir \in Nat /\ a.n \in Nat /\ s \in Seq(Bytes) /\ l \in Nat /\ i.dir \in Nat
      /\ Tamanios[p] \in Nat /\ a.dir + a.n <= Tamanios[p] /\ TamPagina \in Nat /\ TamPagina > 0
  BY <1>2, AccesoBien, UsoBien, TamPaginaAssumption
<1> HIDE DEF a, s, t
<1>4. x \in Nat /\ x + l <= Tamanios[p] /\ l > 0 /\ x \in 0..(Tamanios[p] - 1)
  <2> HIDE DEF l
  <2> QED BY <1>2, <1>3, Ultimos
<1>5. /\ t \in 1..l /\ t <= TamPagina /\ t \in Nat /\ t > 0 /\ (t < l => t = TamPagina) /\ x + t <= Tamanios[p]
      /\ Menor({TamPagina, l}) = t
  <2> HIDE DEF l, x
  <2> QED BY <1>3, <1>4, UnaPagina DEF t
<1>6. PaginasSiguientes(p, i.dir) # {} /\ d = DirFisica(p, x)
  <2> HIDE DEF x
  <2> QED BY <1>2, <1>3, <1>4, SiguientePagina
<1>7. Parte(p, x, t)
  <2> HIDE DEF x
  <2>1. Desplazamiento(x) + t <= TamPagina
    BY <1>2, <1>5
  <2> QED BY <1>3, <1>4, <1>5, <2>1 DEF Parte
<1>8. b = Primeros(s, t)
  <2> HIDE DEF l, x
  <2>1. l \in Int /\ t \in Int
    BY <1>3, <1>5
  <2>2. Menor({t, l}) = IF t <= l THEN t ELSE l
    BY <2>1, MenorDeDos
  <2>3. t <= l
    BY <1>3, <1>5
  <2> USE DEF l
  <2> QED BY <1>5, <2>2, <2>3 DEF Primeros, s
<1>9. /\ b \in Seq(Bytes) /\ Len(b) = t
      /\ t < l => Copiada(Vista(m2, p), x + t, Resto(s, t)) = Copiada(Vista(m, p), x, s)
      /\ t = l => Vista(m2, p) = Copiada(Vista(m, p), x, s)
  <2> HIDE DEF x
  <2> QED BY <1>3, <1>5, <1>6, <1>7, <1>8, PegaTrozo
<1>10. v = Copiada(Vista(m, p), x, s) /\ Pide(c, i, p) = Nulo
  BY <1>1 DEF Ver, Pide, Suyo, a, s
<1>11. i2 \in Usos /\ Ver(m2, c, i2, p) = v /\ Pide(c, i2, p) = Nulo /\ Fiel(m2, c, i2, p)
  <2>1. CASE t = l
    <3>1. l <= TamPagina
      BY <1>5, <2>1
    <3>2. i2 = Ociosa
      BY <3>1 DEF s
    <3>3. Ver(m2, c, i2, p) = v
      BY <1>1, <1>9, <1>10, <2>1, <3>2, OciosaBien, VerQuieto
    <3> QED BY <1>1, <3>2, <3>3, OciosaBien DEF Pide, Fiel, Suyo
  <2>2. CASE t < l
    <3>1. ~(l <= TamPagina) /\ t = TamPagina
      BY <1>3, <1>5, <2>2
    <3>2. i2 = OtraHecha(i, d, Resto(i.datos, TamPagina))
      BY <3>1 DEF s
    <3>3. /\ i2.acceso = a /\ i2.fase = "sigue" /\ i2.dir = d /\ i2.datos = Resto(s, t)
          /\ i2 = [acceso |-> a, fase |-> "sigue", dir |-> d, datos |-> Resto(s, t)]
      BY <3>1, <3>2 DEF Usos, a, s
    <3>4. /\ Resto(s, t) \in Seq(Bytes) /\ Len(Resto(s, t)) = l - t
      BY <1>3, <1>5, Trozos
    <3>5. /\ d \in Nat /\ d \div TamPagina = Tablas[p][1 + (x \div TamPagina)]
      BY <1>3, <1>4, <1>6, Marco
    <3>6. i2 \in Usos
      BY <1>2, <3>3, <3>4, <3>5, UsoNuevo
    <3>7. a.dir + a.n - Len(i2.datos) = x + t /\ Len(i2.datos) \in 1..(a.n - 1)
      <4>1. PICK n \in Nat, y \in Nat, z \in Nat : n = a.n /\ y = l /\ z = a.dir /\ x = z + n - y /\ y \in 1..(n - 1)
        BY <1>2, <1>3
      <4>2. t \in 1..y /\ t < y /\ Len(i2.datos) = y - t
        BY <1>5, <2>2, <3>3, <3>4, <4>1
      <4> HIDE DEF x, l
      <4>3. y \in 1..(n - 1) /\ t \in 1..y /\ t < y
        BY <4>1, <4>2
      <4>4. z + n - (y - t) = (z + n - y) + t /\ y - t \in 1..(n - 1)
        BY <4>3, MenosAun
      <4> QED BY <4>1, <4>2, <4>4
    <3>8. Ver(m2, c, i2, p) = v
      <4>1. i2.fase = "sigue" /\ i2.acceso.tipo = "ENTRADA"
        BY <1>2, <3>3
      <4>2. Ver(m2, c, i2, p) = Copiada(Vista(m2, p), x + t, Resto(s, t))
        BY <1>1, <3>3, <3>7, <4>1 DEF Ver, Suyo
      <4> QED BY <1>9, <1>10, <2>2, <4>2
    <3>9. Pide(c, i2, p) = Nulo
      BY <1>1, <1>2, <3>3 DEF Pide, Suyo
    <3>10. /\ Desplazamiento(x + t) = 0 /\ x + t >= TamPagina
           /\ (x + t) \div TamPagina = (x \div TamPagina) + 1 /\ x \div TamPagina \in Nat
      <4>1. t = TamPagina - Desplazamiento(x)
        BY <1>2, <1>3, <3>1
      <4> HIDE DEF x
      <4> QED BY <1>4, <4>1, FinDePagina, Pagina
    <3>11. d \div TamPagina = Tablas[p][(x + t) \div TamPagina]
      <4>1. (x \div TamPagina) + 1 = 1 + (x \div TamPagina)
        BY <3>10
      <4> QED BY <3>5, <3>10, <4>1
    <3>12. IoFiel(i2, p, v)
      BY <1>2, <3>3, <3>7, <3>10, <3>11 DEF IoFiel
    <3>13. Fiel(m2, c, i2, p)
      BY <1>1, <3>8, <3>12 DEF Fiel, Suyo
    <3> QED BY <3>6, <3>8, <3>9, <3>13
  <2> QED BY <1>3, <1>5, <2>1, <2>2
<1>12. Sigue(m, c, i, lee, m2, c, i2, lee, p)
  BY <1>10, <1>11 DEF Sigue, Cambio
<1>13. \E y \in Nat : d = DirFisica(p, y) /\ Parte(p, y, Len(b))
  BY <1>4, <1>6, <1>7, <1>9
<1> QED BY <1>6, <1>9, <1>11, <1>12, <1>13

(***************************************************************************)
(* Devices that read.                                                      *)
(***************************************************************************)

\* buffer_write_string.
LEMMA MismoCero ==
  ASSUME NEW S, NEW s \in Seq(S)
  PROVE  Espacio!HastaCero(s) = HastaCero(s)
<1> DEFINE ceros == {k \in DOMAIN s : s[k] = 0}
<1>1. DOMAIN s = 1..Len(s)
  OBVIOUS
<1>2. Contains(s, 0) <=> ceros # {}
  BY <1>1 DEF Contains
<1>3. HastaCero(s) = IF ceros = {} THEN s ELSE SubSeq(s, 1, Min(ceros) - 1)
  BY <1>2 DEF HastaCero, Menor
<1> QED BY <1>3 DEF Espacio!HastaCero, Espacio!Min, Min

LEMMA HastaCeroTipo ==
  ASSUME NEW s \in Seq(Bytes)
  PROVE  HastaCero(s) \in Seq(Bytes)
<1> DEFINE ceros == {k \in DOMAIN s : s[k] = 0}
<1>1. DOMAIN s = 1..Len(s) /\ Len(s) \in Nat
  OBVIOUS
<1>2. Contains(s, 0) <=> ceros # {}
  BY <1>1 DEF Contains
<1>3. HastaCero(s) = IF ceros = {} THEN s ELSE SubSeq(s, 1, Min(ceros) - 1)
  BY <1>2 DEF HastaCero, Menor
<1>4. ASSUME ceros # {} PROVE SubSeq(s, 1, Min(ceros) - 1) \in Seq(Bytes)
  <2>1. ceros \subseteq Nat
    BY <1>1
  <2>2. \E x \in ceros : \A y \in ceros : x <= y
    BY <1>4, <2>1, MinimoNatural
  <2>3. Min(ceros) \in ceros
    BY <2>2 DEF Min
  <2>4. PICK k \in 1..Len(s) : k = Min(ceros)
    BY <1>1, <2>3
  <2>5. SubSeq(s, 1, k - 1) \in Seq(Bytes)
    <3>1. k - 1 \in 0..Len(s) /\ 1 \in 1..(Len(s) + 1)
      BY <1>1
    <3> QED BY <3>1, SubSeqProperties
  <2> QED BY <2>4, <2>5
<1> QED BY <1>3, <1>4

\* What there is for an access of a device that reads.
LEMMA Salida ==
  ASSUME NEW m \in Memorias, NEW c, NEW i \in Usos, NEW p, i.fase # "libre",
         i.acceso.tipo = "SALIDA", Fiel(m, c, i, p)
  PROVE  /\ ~Suyo(c, p) /\ IoFiel(i, p, Vista(m, p)) /\ i.acceso \in Accesos /\ p \in Procesos
         /\ Ver(m, c, i, p) = Vista(m, p) /\ Pide(c, i, p) = i.acceso
<1> DEFINE a == i.acceso
<1>1. ~Suyo(c, p) /\ IoFiel(i, p, Ver(m, c, i, p))
  BY DEF Fiel, Suyo
<1>2. a \in Accesos /\ a.pid = p
  BY <1>1 DEF IoFiel
<1>3. p \in Procesos
  BY <1>2, AccesoBien
<1>4. Ver(m, c, i, p) = Vista(m, p)
  BY <1>1, VerQuieto
<1>5. Pide(c, i, p) = a
  BY <1>1 DEF Pide, Suyo
<1> QED BY <1>1, <1>2, <1>3, <1>4, <1>5

LEMMA SalidaLeida ==
  ASSUME NEW m \in Memorias, NEW a \in Accesos, NEW p, p = a.pid, NEW y \in Nat, y <= a.n,
         NEW s, s = Contenido(Vista(m, p), a.dir, y)
  PROVE  s \in Seq(Bytes) /\ Len(s) = y
<1>1. p \in Procesos /\ a.dir \in Nat /\ a.n \in Nat /\ Tamanios[p] \in Nat /\ a.dir + a.n <= Tamanios[p]
  BY AccesoBien
<1>2. a.dir + y <= Tamanios[p] /\ Vista(m, p) \in Espacios(p)
  BY <1>1, VistaTipo
<1> QED BY <1>1, <1>2, ContenidoTipo

\* The answer, when all has been read.
LEMMA LeeTodo ==
  ASSUME NEW m \in Memorias, NEW c, NEW i \in Usos, NEW p, NEW lee, i.fase # "libre",
         i.acceso.tipo = "SALIDA", Fiel(m, c, i, p),
         NEW s, s = Contenido(Vista(m, p), i.acceso.dir, i.acceso.n)
  PROVE  s \in Seq(Bytes) /\ Sigue(m, c, i, lee, m, c, Ociosa, HastaCero(s), p)
<1> DEFINE a == i.acceso
           v == Vista(m, p)
<1>1. a \in Accesos /\ p = a.pid
  BY DEF Fiel, IoFiel
<1>2. a.n \in Nat /\ a.n <= a.n
  BY <1>1, AccesoBien
<1>3. /\ ~Suyo(c, p) /\ Ver(m, c, i, p) = v /\ Pide(c, i, p) = a /\ s \in Seq(Bytes)
  <2>1. s \in Seq(Bytes)
    BY <1>1, <1>2, SalidaLeida
  <2> QED BY <2>1, Salida
<1>4. Ver(m, c, Ociosa, p) = v
  BY <1>3, OciosaBien, VerQuieto
<1>5. Pide(c, Ociosa, p) = Nulo
  BY <1>3, OciosaBien DEF Pide, Suyo
<1>6. Fiel(m, c, Ociosa, p)
  BY <1>3, OciosaBien DEF Fiel, Suyo
<1>7. Cambio(v, a, lee, v, Nulo, HastaCero(s), p)
  BY <1>1 DEF Cambio
<1> QED BY <1>3, <1>4, <1>5, <1>6, <1>7 DEF Sigue

\* The page after it, when there is more to read.
Seguida(p, x, d) ==
  /\ d \in Nat /\ Desplazamiento(x) = 0 /\ x >= TamPagina
  /\ d \div TamPagina = Tablas[p][x \div TamPagina]

LEMMA LeeMas ==
  ASSUME NEW m \in Memorias, NEW c, NEW i \in Usos, NEW p, NEW lee, i.fase # "libre",
         i.acceso.tipo = "SALIDA", Fiel(m, c, i, p), NEW y \in 1..i.acceso.n, y # i.acceso.n,
         NEW s, s = Contenido(Vista(m, p), i.acceso.dir, y),
         NEW x, x = i.acceso.dir + y, NEW d, Seguida(p, x, d),
         NEW i2, i2 = [acceso |-> i.acceso, fase |-> "sigue", dir |-> d, datos |-> s]
  PROVE  i2 \in Usos /\ Sigue(m, c, i, lee, m, c, i2, lee, p)
<1> DEFINE a == i.acceso
           v == Vista(m, p)
<1>1. /\ ~Suyo(c, p) /\ IoFiel(i, p, v) /\ a \in Accesos /\ Ver(m, c, i, p) = v /\ Pide(c, i, p) = a
      /\ s \in Seq(Bytes) /\ Len(s) = y
  <2>1. /\ ~Suyo(c, p) /\ IoFiel(i, p, v) /\ a \in Accesos /\ Ver(m, c, i, p) = v /\ Pide(c, i, p) = a
    BY Salida
  <2>2. p = a.pid /\ a.n \in Nat
    BY <2>1, AccesoBien DEF IoFiel
  <2>3. y \in Nat /\ y <= a.n
    BY <2>2
  <2> QED BY <2>1, <2>2, <2>3, SalidaLeida
<1>2. i2.acceso = a /\ i2.fase = "sigue" /\ i2.dir = d /\ i2.datos = s /\ i2.acceso.tipo = "SALIDA"
  OBVIOUS
<1>3. i2 \in Usos
  BY <1>1, UsoNuevo DEF Seguida
<1>4. Ver(m, c, i2, p) = v
  BY <1>1, <1>2, VerQuieto
<1>5. Pide(c, i2, p) = a
  BY <1>1, <1>2 DEF Pide, Suyo
<1>6. y \in 1..(a.n - 1)
  <2>1. a.n \in Nat
    BY <1>1, AccesoBien
  <2> HIDE DEF a
  <2> QED BY <2>1 DEF a
<1>7. IoFiel(i2, p, v)
  <2>1. a.pid = p /\ Admitido(a)
    BY <1>1 DEF IoFiel
  <2> QED BY <1>1, <1>2, <1>6, <2>1 DEF IoFiel, Seguida
<1>8. Fiel(m, c, i2, p)
  BY <1>1, <1>2, <1>4, <1>7 DEF Fiel, Suyo
<1>9. Cambio(v, a, lee, v, a, lee, p)
  BY DEF Cambio
<1> QED BY <1>1, <1>3, <1>4, <1>5, <1>8, <1>9 DEF Sigue

LEMMA PrimerTrozo ==
  ASSUME NEW r \in 0..(TamPagina - 1), NEW n \in Nat, n > 0,
         NEW t, t = IF r # 0 THEN TamPagina - r ELSE Menor({n, TamPagina}), ~(t > n)
  PROVE  /\ t \in 1..n /\ t \in Nat /\ t > 0 /\ r + t <= TamPagina
         /\ t # n => t < n /\ t = TamPagina - r
<1>1. TamPagina \in Nat /\ TamPagina > 0
  BY TamPaginaAssumption
<1>2. Menor({n, TamPagina}) = IF n <= TamPagina THEN n ELSE TamPagina
  BY <1>1, MenorDeDos
<1>3. t = IF r # 0 THEN TamPagina - r ELSE IF n <= TamPagina THEN n ELSE TamPagina
  BY <1>2
<1> QED BY <1>1, <1>3

\* LeerPrimera: to the end of the page, or all of it.  f is the memory, where
\* p sees the same as when the pieces have arrived.
LEMMA LeePrimera ==
  ASSUME NEW m \in Memorias, NEW f \in Memorias, NEW c, NEW i \in Usos, NEW p, NEW lee,
         Vista(f, p) = Vista(m, p), i.fase = "empieza", i.acceso.tipo = "SALIDA", Fiel(m, c, i, p),
         NEW t, t = BytesPrimera(i), ~(t > i.acceso.n),
         NEW s, s = Lectura(<<>>, f, i.dir, t),
         NEW i2, i2 = PrimeraHecha(i, s)
  PROVE  TrasLeer(m, c, i, lee, t, s, i2, p)
<1> USE DEF PrimeraHecha, BytesPrimera
<1> DEFINE a == i.acceso
           v == Vista(m, p)
           r == Desplazamiento(a.dir)
<1>1. ~Suyo(c, p) /\ IoFiel(i, p, Ver(m, c, i, p))
  BY DEF Fiel, Suyo
<1>2. a \in Accesos /\ a.pid = p /\ i.dir = DirFisica(p, a.dir) /\ a.tipo = "SALIDA"
  BY <1>1 DEF IoFiel
<1>3. /\ p \in Procesos /\ a.dir \in Nat /\ a.n \in Nat /\ a.n > 0
      /\ Tamanios[p] \in Nat /\ a.dir + a.n <= Tamanios[p]
  BY <1>2, AccesoBien
<1>4. a.dir \in 0..(Tamanios[p] - 1)
  BY <1>3
<1>5. /\ Desplazamiento(i.dir) = r /\ i.dir \in Nat
      /\ i.dir \div TamPagina = Tablas[p][1 + (a.dir \div TamPagina)]
  BY <1>2, <1>3, <1>4, Marco
<1>6. r \in 0..(TamPagina - 1) /\ a.dir \div TamPagina \in Nat
  BY <1>2, <1>3, Pagina
<1>7. /\ t \in 1..a.n /\ t \in Nat /\ t > 0 /\ r + t <= TamPagina
      /\ t # a.n => t < a.n /\ t = TamPagina - r
  <2>1. t = IF r # 0 THEN TamPagina - r ELSE Menor({a.n, TamPagina})
    BY <1>5
  <2>2. PICK n \in Nat, r0 \in 0..(TamPagina - 1) : n = a.n /\ r0 = r
    BY <1>3, <1>6
  <2>3. /\ n > 0 /\ ~(t > n)
        /\ t = IF r0 # 0 THEN TamPagina - r0 ELSE Menor({n, TamPagina})
    BY <1>3, <1>6, <2>1, <2>2
  <2>4. /\ t \in 1..n /\ t \in Nat /\ t > 0 /\ r0 + t <= TamPagina
        /\ t # n => t < n /\ t = TamPagina - r0
    BY <2>3, PrimerTrozo
  <2> HIDE DEF a, r
  <2> QED BY <2>2, <2>4
<1>8. s = Contenido(v, a.dir, t) /\ s \in Seq(Bytes)
  <2>1. a.dir + t <= Tamanios[p] /\ a.dir + 0 = a.dir /\ 0 + t = t /\ a.dir <= Tamanios[p]
    BY <1>3, <1>7
  <2>2. Parte(p, a.dir + 0, t)
    BY <1>3, <1>7, <2>1 DEF Parte
  <2>3. Contenido(Vista(f, p), a.dir, 0) = <<>>
    BY <1>3, <2>1, SinBytes, VistaTipo
  <2>4. /\ Lectura(Contenido(Vista(f, p), a.dir, 0), f, DirFisica(p, a.dir + 0), t)
             = Contenido(Vista(f, p), a.dir, 0 + t)
        /\ Contenido(Vista(f, p), a.dir, 0 + t) \in Seq(Bytes)
    <3>1. 0 \in Nat /\ a.dir \in Nat /\ t \in Nat
      BY <1>3, <1>7
    <3> HIDE DEF a
    <3> QED BY <2>2, <3>1, LecturaSigue, SMTT(30)
  <2> QED BY <1>2, <2>1, <2>3, <2>4
<1>9. ASSUME t = a.n PROVE Sigue(m, c, i, lee, m, c, Ociosa, HastaCero(s), p)
  BY <1>8, <1>9, LeeTodo
<1>10. ASSUME t # a.n PROVE i2 \in Usos /\ Sigue(m, c, i, lee, m, c, i2, lee, p)
  <2>1. i2 = [acceso |-> a, fase |-> "sigue", dir |-> i.dir, datos |-> s]
    BY DEF Usos
  <2>2. /\ Desplazamiento(a.dir + t) = 0 /\ a.dir + t >= TamPagina
        /\ (a.dir + t) \div TamPagina = (a.dir \div TamPagina) + 1
    BY <1>3, <1>7, <1>10, FinDePagina
  <2>3. (a.dir \div TamPagina) + 1 = 1 + (a.dir \div TamPagina)
    BY <1>6
  <2>4. i.dir \div TamPagina = Tablas[p][(a.dir + t) \div TamPagina]
    BY <1>5, <2>2, <2>3
  <2>5. PICK x : x = i.acceso.dir + t /\ Seguida(p, x, i.dir)
    BY <1>5, <2>2, <2>4 DEF Seguida
  <2> QED BY <1>7, <1>8, <1>10, <2>1, <2>5, LeeMas
<1> QED BY <1>7, <1>8, <1>9, <1>10 DEF TrasLeer

LEMMA Quedan ==
  ASSUME NEW n \in Nat, NEW z \in Nat, NEW y \in 1..(n - 1), NEW w \in Nat, z + n <= w
  PROVE  /\ y \in Nat /\ n - y \in Nat /\ n - y > 0 /\ z + y \in Nat /\ (z + y) + (n - y) <= w
         /\ z + y \in 0..(w - 1)
OBVIOUS

LEMMA HastaElFinal ==
  ASSUME NEW n \in Nat, NEW z \in Nat, NEW y \in 1..(n - 1), NEW t \in 1..(n - y)
  PROVE  /\ y + t \in 1..n /\ (z + y) + t = z + (y + t) /\ (y + t # n => t < n - y)
OBVIOUS

\* LeerSiguiente: a page, or what is left.
LEMMA LeeSiguiente ==
  ASSUME NEW m \in Memorias, NEW f \in Memorias, NEW c, NEW i \in Usos, NEW p, NEW lee,
         Vista(f, p) = Vista(m, p), i.fase = "sigue", i.acceso.tipo = "SALIDA", Fiel(m, c, i, p),
         NEW d, d = PaginaSiguiente(p, i.dir),
         NEW s, s = Lectura(i.datos, f, d, BytesSiguiente(i)),
         NEW i2, i2 = OtraHecha(i, d, s)
  PROVE  PaginasSiguientes(p, i.dir) # {} /\ TrasLeer(m, c, i, lee, Len(s), s, i2, p)
<1> USE DEF OtraHecha, BytesSiguiente
<1> DEFINE a == i.acceso
           v == Vista(m, p)
           y == Len(i.datos)
           x == a.dir + y
           l == a.n - y
           t == Menor({TamPagina, l})
<1>1. ~Suyo(c, p) /\ IoFiel(i, p, Ver(m, c, i, p))
  BY DEF Fiel, Suyo
<1>2. Ver(m, c, i, p) = v
  BY <1>1, VerQuieto
<1>3. /\ a \in Accesos /\ a.pid = p /\ a.tipo = "SALIDA" /\ y \in 1..(a.n - 1)
      /\ Desplazamiento(x) = 0 /\ x >= TamPagina
      /\ i.dir \div TamPagina = Tablas[p][x \div TamPagina] /\ i.datos = Contenido(v, a.dir, y)
  BY <1>1, <1>2 DEF IoFiel
<1>4. /\ p \in Procesos /\ a.dir \in Nat /\ a.n \in Nat /\ Tamanios[p] \in Nat
      /\ a.dir + a.n <= Tamanios[p] /\ i.dir \in Nat /\ TamPagina \in Nat /\ TamPagina > 0
  BY <1>3, AccesoBien, UsoBien, TamPaginaAssumption
<1> HIDE DEF a, y
<1>5. y \in Nat /\ l \in Nat /\ l > 0 /\ x \in Nat /\ x + l <= Tamanios[p] /\ x \in 0..(Tamanios[p] - 1)
  BY <1>3, <1>4, Quedan
<1>6. t \in 1..l /\ t <= TamPagina /\ t \in Nat /\ t > 0 /\ (t < l => t = TamPagina) /\ x + t <= Tamanios[p]
  <2>1. t = IF l <= TamPagina THEN l ELSE TamPagina
    <3> HIDE DEF l
    <3>1. l \in Int /\ TamPagina \in Int
      BY <1>4, <1>5
    <3>2. Menor({TamPagina, l}) = IF TamPagina <= l THEN TamPagina ELSE l
      BY <3>1, MenorDeDos
    <3> QED BY <3>1, <3>2
  <2> HIDE DEF l, x, t
  <2>2. PICK l0 \in Nat, x0 \in Nat, w \in Nat, b \in Nat, t0 \in Nat :
           /\ l0 = l /\ x0 = x /\ w = Tamanios[p] /\ b = TamPagina /\ t0 = t /\ l0 > 0 /\ b > 0
           /\ x0 + l0 <= w /\ t0 = IF l0 <= b THEN l0 ELSE b
    BY <1>4, <1>5, <2>1
  <2>3. t0 \in 1..l0 /\ t0 <= b /\ t0 \in Nat /\ t0 > 0 /\ (t0 < l0 => t0 = b) /\ x0 + t0 <= w
    BY <2>2
  <2> QED BY <2>2, <2>3
<1> HIDE DEF t
<1>7. PaginasSiguientes(p, i.dir) # {} /\ d = DirFisica(p, x)
  <2> HIDE DEF x
  <2> QED BY <1>3, <1>4, <1>5, SiguientePagina
<1>8. y + t \in 1..a.n /\ x + t = a.dir + (y + t) /\ (y + t # a.n => t < l)
  <2>1. PICK n \in Nat, z \in Nat : n = a.n /\ z = a.dir
    BY <1>4
  <2>2. y \in 1..(n - 1) /\ t \in 1..(n - y)
    BY <1>3, <1>6, <2>1
  <2>3. y + t \in 1..n /\ (z + y) + t = z + (y + t) /\ (y + t # n => t < n - y)
    BY <2>2, HastaElFinal
  <2> QED BY <2>1, <2>3
<1>9. Parte(p, x, t)
  <2> HIDE DEF x
  <2>1. Desplazamiento(x) + t <= TamPagina
    BY <1>3, <1>6
  <2> QED BY <1>4, <1>5, <1>6, <2>1 DEF Parte
<1>10. s = Contenido(v, a.dir, y + t) /\ s \in Seq(Bytes) /\ Len(s) = y + t
  <2>1. s = Lectura(i.datos, f, d, t)
    BY DEF t, l, a, y
  <2>2. /\ Lectura(Contenido(Vista(f, p), a.dir, y), f, DirFisica(p, a.dir + y), t) = Contenido(Vista(f, p), a.dir, y + t)
        /\ Contenido(Vista(f, p), a.dir, y + t) \in Seq(Bytes) /\ Len(Contenido(Vista(f, p), a.dir, y + t)) = y + t
    <3>1. Parte(p, a.dir + y, t)
      BY <1>9
    <3> QED BY <1>4, <1>5, <3>1, LecturaSigue
  <2> QED BY <1>3, <1>7, <2>1, <2>2
<1>11. ASSUME Len(s) = a.n PROVE Sigue(m, c, i, lee, m, c, Ociosa, HastaCero(s), p)
  BY <1>10, <1>11, LeeTodo DEF a
<1>12. ASSUME Len(s) # a.n PROVE i2 \in Usos /\ Sigue(m, c, i, lee, m, c, i2, lee, p)
  <2>1. i2 = [acceso |-> a, fase |-> "sigue", dir |-> d, datos |-> s]
    BY DEF Usos, a
  <2>2. t = TamPagina - Desplazamiento(x)
    <3> HIDE DEF x, l
    <3> QED BY <1>3, <1>4, <1>6, <1>8, <1>10, <1>12
  <2>3. /\ Desplazamiento(x + t) = 0 /\ x + t >= TamPagina
        /\ (x + t) \div TamPagina = (x \div TamPagina) + 1
    BY <1>5, <2>2, FinDePagina
  <2>4. d \in Nat /\ d \div TamPagina = Tablas[p][1 + (x \div TamPagina)] /\ x \div TamPagina \in Nat
    <3> HIDE DEF x
    <3> QED BY <1>4, <1>5, <1>7, Marco, Pagina
  <2>5. d \div TamPagina = Tablas[p][(x + t) \div TamPagina]
    <3>1. (x \div TamPagina) + 1 = 1 + (x \div TamPagina)
      BY <2>4
    <3> QED BY <2>3, <2>4, <3>1
  <2>6. y + t # a.n
    BY <1>10, <1>12
  <2>7. PICK z : z = y + t
    OBVIOUS
  <2>8. z \in 1..i.acceso.n /\ z # i.acceso.n /\ i.acceso.dir + z = x + t /\ s = Contenido(Vista(m, p), i.acceso.dir, z)
    BY <1>8, <1>10, <2>6, <2>7 DEF a
  <2>9. i2 = [acceso |-> i.acceso, fase |-> "sigue", dir |-> d, datos |-> s]
    BY <2>1 DEF a
  <2>10. PICK x0 : x0 = i.acceso.dir + z /\ Seguida(p, x0, d)
    <3> HIDE DEF x
    <3> QED BY <2>3, <2>4, <2>5, <2>8 DEF Seguida
  <2> HIDE DEF x
  <2> QED BY <2>8, <2>9, <2>10, LeeMas
<1>13. ~(Len(s) > a.n)
  BY <1>4, <1>8, <1>10
<1> QED BY <1>7, <1>10, <1>11, <1>12, <1>13 DEF a, TrasLeer

(***************************************************************************)
(* A step of the system.                                                   *)
(***************************************************************************)
\* The memory when the pieces have arrived, and each process in it.
Por == Llegan(memoria_fisica, socket_cpu)
Mira(p) == Ver(Por, cpu, interfaz[p], p)
Quiere(p) == Pide(cpu, interfaz[p], p)

LEMMA LoMismo == \A p \in Procesos : Visto(p) = Mira(p) /\ Pendiente(p) = Quiere(p)
<1> SUFFICES ASSUME NEW p \in Procesos PROVE Visto(p) = Mira(p) /\ Pendiente(p) = Quiere(p)
  OBVIOUS
<1>1. Visto(p) = Mira(p)
  BY DEF Visto, Mira, Ver, Por, EscribeCpu, EscribeIo, Trabaja
<1>2. Pendiente(p) = Quiere(p)
  BY DEF Pendiente, Quiere, Pide, EscribeCpu, EscribeIo, Trabaja
<1> QED BY <1>1, <1>2

LEMMA LoMismoLuego == (\A p \in Procesos : Visto(p) = Mira(p) /\ Pendiente(p) = Quiere(p))'
BY LoMismo, PTL

LEMMA ContenidoSeq ==
  ASSUME NEW v, NEW d, NEW n \in Nat, NEW S, \A k \in 1..n : v[d + k - 1] \in S
  PROVE  Contenido(v, d, n) \in Seq(S)
BY DEF Contenido

\* What happens to p, and to nobody else, is a step of EspacioLogico.
LEMMA Abstracto ==
  ASSUME NEW p \in Procesos,
         Cambio(Mira(p), Quiere(p), leido[p], Mira(p)', Quiere(p)', leido'[p], p),
         \A q \in Procesos \ {p} : Mira(q)' = Mira(q) /\ Quiere(q)' = Quiere(q),
         leido \in [Procesos -> Seq(Bytes)], leido' = [leido EXCEPT ![p] = leido'[p]]
  PROVE  [Espacio!Next]_(Espacio!vars)
<1> DEFINE E == [q \in Procesos |-> Visto(q)]
           D == [q \in Procesos |-> Pendiente(q)]
<1>1. \A q \in Procesos : Visto(q) = Mira(q) /\ Pendiente(q) = Quiere(q)
  BY LoMismo
<1>2. E = [q \in Procesos |-> Mira(q)] /\ D = [q \in Procesos |-> Quiere(q)]
  BY <1>1
<1>3. /\ E' = [q \in Procesos |-> IF q = p THEN Mira(p)' ELSE Mira(q)]
      /\ D' = [q \in Procesos |-> IF q = p THEN Quiere(p)' ELSE Quiere(q)]
  <2>1. \A q \in Procesos : Visto(q)' = Mira(q)' /\ Pendiente(q)' = Quiere(q)'
    BY LoMismoLuego
  <2>2. \A q \in Procesos : Visto(q)' = IF q = p THEN Mira(p)' ELSE Mira(q)
    BY <2>1
  <2>3. \A q \in Procesos : Pendiente(q)' = IF q = p THEN Quiere(p)' ELSE Quiere(q)
    BY <2>1
  <2> QED BY <2>2, <2>3
<1>4. Espacio!Procesos = Procesos
  BY DEF Espacio!Procesos, Tamanios
<1>5. /\ \A m, d, s : Espacio!Pegar(m, d, s) = Copiada(m, d, s)
      /\ \A m, d, n : Espacio!Contenido(m, d, n) = Contenido(m, d, n)
  BY DEF Espacio!Pegar, Copiada, Espacio!Contenido, Contenido
<1> DEFINE a == Quiere(p)
           v == Mira(p)
<1>10. /\ E[p] = v /\ D[p] = a /\ E' = [E EXCEPT ![p] = Mira(p)'] /\ D' = [D EXCEPT ![p] = Quiere(p)']
       /\ (Mira(p)' = v => E' = E) /\ (Quiere(p)' = a => D' = D)
  <2>1. /\ E = [q \in Procesos |-> E[q]] /\ D = [q \in Procesos |-> D[q]]
        /\ E' = [q \in Procesos |-> IF q = p THEN Mira(p)' ELSE E[q]]
        /\ D' = [q \in Procesos |-> IF q = p THEN Quiere(p)' ELSE D[q]]
        /\ E[p] = v /\ D[p] = a
    BY <1>2, <1>3
  <2> HIDE DEF E, D
  <2>2. E' = [E EXCEPT ![p] = Mira(p)'] /\ (Mira(p)' = E[p] => E' = E)
    BY <2>1
  <2>3. D' = [D EXCEPT ![p] = Quiere(p)'] /\ (Quiere(p)' = D[p] => D' = D)
    BY <2>1
  <2> QED BY <2>1, <2>2, <2>3
<1> HIDE DEF E, D, a, v
<1>6. CASE Mira(p)' = v /\ Quiere(p)' = a /\ leido'[p] = leido[p]
  <2>1. E' = E /\ D' = D /\ leido' = leido
    BY <1>10, <1>6
  <2> QED BY <2>1 DEF Espacio!vars, E, D
<1>7. CASE a = Nulo /\ Quiere(p)' \in Accesos /\ Quiere(p)'.pid = p /\ Mira(p)' = v /\ leido'[p] = leido[p]
  <2>1. E' = E /\ leido' = leido
    BY <1>10, <1>7
  <2>2. Espacio!Pedir(Quiere(p)')
    BY <1>10, <1>7, <2>1 DEF Espacio!Pedir, E, D
  <2> QED BY <1>7, <2>2 DEF Espacio!Next
<1>8. CASE /\ a \in Accesos /\ Quiere(p)' = Nulo /\ leido'[p] = leido[p]
           /\ a.tipo \in {"MOV_OUT", "ENTRADA", "COPY_STRING"}
           /\ Mira(p)' = Copiada(v, Inicio(a), Escrito(a, v))
  <2>1. leido' = leido /\ a # Nulo
    BY <1>8, AccesoBien
  <2>2. CASE a.tipo = "COPY_STRING"
    <3>1. Inicio(a) = a.destino /\ Escrito(a, v) = Contenido(v, a.dir, a.n)
      BY <2>2 DEF Inicio, Escrito
    <3>2. Espacio!Copiar(p)
      BY <1>10, <1>5, <1>8, <2>1, <2>2, <3>1 DEF Espacio!Copiar, Espacio!Hacer, E, D
    <3> QED BY <1>4, <3>2 DEF Espacio!Next, Espacio!Atender
  <2>3. CASE a.tipo # "COPY_STRING"
    <3>1. Inicio(a) = a.dir /\ Escrito(a, v) = a.datos
      BY <2>3 DEF Inicio, Escrito
    <3>2. Espacio!Escribir(p)
      BY <1>10, <1>5, <1>8, <2>1, <2>3, <3>1 DEF Espacio!Escribir, Espacio!Hacer, E, D
    <3> QED BY <1>4, <3>2 DEF Espacio!Next, Espacio!Atender
  <2> QED BY <2>2, <2>3
<1>9. CASE /\ a \in Accesos /\ Quiere(p)' = Nulo /\ Mira(p)' = v
           /\ a.tipo \in {"MOV_IN", "SALIDA"}
           /\ leido'[p] = IF a.tipo = "SALIDA" THEN HastaCero(Contenido(v, a.dir, a.n))
                          ELSE Contenido(v, a.dir, a.n)
  <2>1. E' = E /\ a # Nulo /\ a.n \in Nat
    BY <1>10, <1>9, AccesoBien
  <2> DEFINE S == {v[a.dir + k - 1] : k \in 1..a.n}
  <2>2. Contenido(v, a.dir, a.n) \in Seq(S)
    <3>1. \A k \in 1..a.n : v[a.dir + k - 1] \in S
      OBVIOUS
    <3> HIDE DEF S
    <3> QED BY <2>1, <3>1, ContenidoSeq
  <2>3. Espacio!HastaCero(Contenido(v, a.dir, a.n)) = HastaCero(Contenido(v, a.dir, a.n))
    BY <2>2, MismoCero
  <2>4. Espacio!Leer(p)
    BY <1>10, <1>5, <1>9, <2>1, <2>3 DEF Espacio!Leer, Espacio!Hacer, E, D
  <2> QED BY <1>4, <2>4 DEF Espacio!Next, Espacio!Atender
<1> QED BY <1>6, <1>7, <1>8, <1>9 DEF Cambio, a, v

\* When a step goes on with p, the others are as they were.
LEMMA UnoSolo ==
  ASSUME NEW p \in Procesos, \A q \in Procesos : Fiel(Por, cpu, interfaz[q], q),
         Sigue(Por, cpu, interfaz[p], leido[p], Por', cpu', interfaz'[p], leido'[p], p),
         \A q \in Procesos \ {p} : Vista(Por', q) = Vista(Por, q) /\ interfaz'[q] = interfaz[q],
         \A q \in Procesos \ {p} : cpu' = cpu \/ (~Suyo(cpu, q) /\ ~Suyo(cpu', q)),
         leido \in [Procesos -> Seq(Bytes)], leido' = [leido EXCEPT ![p] = leido'[p]]
  PROVE  /\ \A q \in Procesos : Fiel(Por', cpu', interfaz'[q], q)
         /\ [Espacio!Next]_(Espacio!vars)
<1>1. ASSUME NEW q \in Procesos \ {p}
      PROVE  /\ Ver(Por', cpu', interfaz'[q], q) = Ver(Por, cpu, interfaz[q], q)
             /\ Pide(cpu', interfaz'[q], q) = Pide(cpu, interfaz[q], q)
             /\ Fiel(Por', cpu', interfaz'[q], q)
  <2>1. Fiel(Por, cpu, interfaz[q], q) /\ Vista(Por', q) = Vista(Por, q) /\ interfaz'[q] = interfaz[q]
        /\ (cpu' = cpu \/ (~Suyo(cpu, q) /\ ~Suyo(cpu', q)))
    OBVIOUS
  <2>2. PICK m, m2, x, x2, i, i2 :
               /\ m = Por /\ m2 = Por' /\ x = cpu /\ x2 = cpu' /\ i = interfaz[q] /\ i2 = interfaz'[q]
    OBVIOUS
  <2>3. Fiel(m, x, i, q) /\ Vista(m2, q) = Vista(m, q) /\ i2 = i
        /\ (x2 = x \/ (~Suyo(x, q) /\ ~Suyo(x2, q)))
    BY <2>1, <2>2
  <2>4. /\ Ver(m2, x2, i, q) = Ver(m, x, i, q) /\ Pide(x2, i, q) = Pide(x, i, q)
        /\ Fiel(m2, x2, i, q)
    BY <2>3, Ajeno
  <2> QED BY <2>2, <2>3, <2>4
<1>2. /\ Fiel(Por', cpu', interfaz'[p], p)
      /\ Cambio(Mira(p), Quiere(p), leido[p], Mira(p)', Quiere(p)', leido'[p], p)
  BY DEF Sigue, Mira, Quiere
<1>3. \A q \in Procesos \ {p} : Mira(q)' = Mira(q) /\ Quiere(q)' = Quiere(q)
  BY <1>1 DEF Mira, Quiere
<1>4. [Espacio!Next]_(Espacio!vars)
  BY <1>2, <1>3, Abstracto
<1> QED BY <1>1, <1>2, <1>4

\* What the invariant says of the memory when the pieces have arrived.
LEMMA SigueViva ==
  ASSUME AInv, ~falla, falla' = falla
  PROVE  Muerte' /\ falla' = FALSE
BY DEF AInv, Tipos, Muerte

LEMMA PorBien ==
  ASSUME AInv
  PROVE  /\ memoria_fisica \in Memorias /\ Por \in Memorias /\ socket_cpu \in Seq(Piezas) /\ cpu \in Usos
         /\ \A q \in Procesos : interfaz[q] \in Usos /\ Fiel(Por, cpu, interfaz[q], q)
         /\ leido \in [Procesos -> Seq(Bytes)]
         /\ (socket_cpu = <<>> => Por = memoria_fisica)
<1>1. memoria_fisica \in Memorias /\ socket_cpu \in Seq(Piezas)
  BY DEF AInv, Tipos, Memorias
<1>2. Por \in Memorias
  BY <1>1, LleganTipo DEF Por
<1>3. socket_cpu = <<>> => Por = memoria_fisica
  BY <1>1, SinSocket DEF Por
<1> QED BY <1>1, <1>2, <1>3 DEF AInv, Tipos, Por

LEMMA MismoPor ==
  ASSUME UNCHANGED <<memoria_fisica, socket_cpu>>
  PROVE  Por' = Por
BY DEF Por

LEMMA Intacto == ASSUME UNCHANGED <<memoria_fisica, cpu, socket_cpu, interfaz, leido>>
                 PROVE  UNCHANGED Espacio!vars
BY DEF Espacio!vars, Visto, Pendiente, EscribeCpu, EscribeIo, Trabaja

LEMMA NadieEnSocket ==
  ASSUME NEW s, s = <<>>, NEW dispositivos
  PROVE  Apartadas(s, dispositivos)
BY DEF Apartadas

\* A device starts, goes on or ends: the pieces are of others.
LEMMA SiguenApartadas ==
  ASSUME NEW s, NEW d, Apartadas(s, d), NEW p, d[p].fase # "libre",
         NEW d2, \A q \in Procesos \ {p} : d2[q] = d[q]
  PROVE  Apartadas(s, d2)
<1> SUFFICES ASSUME NEW k \in 1..Len(s)
             PROVE  \E q \in Procesos : DeProceso(s[k], q) /\ d2[q].fase = "libre"
  BY DEF Apartadas
<1>1. PICK q \in Procesos : DeProceso(s[k], q) /\ d[q].fase = "libre"
  BY DEF Apartadas
<1>2. q # p
  BY <1>1
<1> QED BY <1>1, <1>2

\* CPU.
LEMMA PasoCpuEmpieza ==
  ASSUME ~falla, AInv, CpuEmpieza
  PROVE  AInv' /\ [Espacio!Next]_(Espacio!vars)
<1>1. PICK a \in Accesos :
        /\ Empezar({"MOV_IN", "MOV_OUT", "COPY_STRING"}, a)
        /\ cpu' = [acceso |-> a, fase |-> IF a.tipo = "MOV_OUT" THEN "escribe" ELSE "lee",
                   dir |-> a.dir, datos |-> IF a.tipo = "MOV_OUT" THEN a.datos ELSE <<>>]
        /\ UNCHANGED <<memoria_fisica, socket_cpu, interfaz, leido, falla>>
  BY DEF CpuEmpieza
<1> DEFINE p == a.pid
<1>2. /\ hechos < MaxAccesos /\ hechos' = hechos + 1 /\ cpu.fase = "libre" /\ socket_cpu = <<>>
      /\ a.tipo \in {"MOV_IN", "MOV_OUT", "COPY_STRING"} /\ interfaz[p].fase = "libre"
  BY <1>1 DEF Empezar, EscriturasHechas
<1>3. Por' = Por
  BY <1>1, MismoPor
<1>4. p \in Procesos
  BY AccesoBien
<1>5. cpu' \in Usos /\ cpu'.acceso = a /\ Sigue(Por, cpu, interfaz[p], leido[p], Por, cpu', interfaz[p], leido[p], p)
  <2>1. PICK m, c, i, l, c2 : m = Por /\ c = cpu /\ i = interfaz[p] /\ l = leido[p] /\ c2 = cpu'
    BY PorBien
  <2>2. c2 \in Usos /\ c2.acceso = a /\ Sigue(m, c, i, l, m, c2, i, l, a.pid)
    <3>1. /\ m \in Memorias
          /\ c.fase = "libre" /\ i.fase = "libre" /\ a.tipo \in {"MOV_IN", "MOV_OUT", "COPY_STRING"}
          /\ c2 = CpuNueva(a)
      BY <1>1, <1>2, <2>1, PorBien DEF CpuNueva
    <3> QED BY <3>1, EmpiezaCpu
  <2> QED BY <2>1, <2>2
<1>6. \A q \in Procesos \ {p} : ~Suyo(cpu, q) /\ ~Suyo(cpu', q)
  BY <1>2, <1>5 DEF Suyo
<1>7. /\ \A q \in Procesos : Fiel(Por', cpu', interfaz'[q], q)
      /\ [Espacio!Next]_(Espacio!vars)
  BY <1>1, <1>3, <1>4, <1>5, <1>6, PorBien, UnoSolo
<1>8. Tipos'
  BY <1>1, <1>2, <1>5, AccesosAssumption DEF AInv, Tipos
<1>9. Apartadas(socket_cpu', interfaz')
  BY <1>1, <1>2, NadieEnSocket
<1> QED BY <1>1, <1>7, <1>8, <1>9, SigueViva DEF AInv, Por

LEMMA PasoCpuLee ==
  ASSUME ~falla, AInv, CpuLee
  PROVE  AInv' /\ [Espacio!Next]_(Espacio!vars)
<1> DEFINE a == cpu.acceso
           p == a.pid
           t == Trozo(a, cpu.dir, a.n - Len(cpu.datos))
           s == Lectura(cpu.datos, memoria_fisica, DirFisica(p, cpu.dir), t)
<1>1. /\ cpu.fase = "lee" /\ socket_cpu = <<>>
      /\ UNCHANGED <<memoria_fisica, socket_cpu, interfaz, hechos, falla>>
      /\ leido' = IF Len(s) >= a.n /\ a.tipo = "MOV_IN" THEN [leido EXCEPT ![p] = s] ELSE leido
  BY DEF CpuLee
<1>2. cpu' = CASE Len(s) < a.n -> [cpu EXCEPT !.dir = @ + t, !.datos = s]
               [] Len(s) >= a.n /\ a.tipo = "COPY_STRING" ->
                    [cpu EXCEPT !.fase = "escribe", !.dir = a.destino, !.datos = s]
               [] OTHER -> Ociosa
  BY DEF CpuLee
<1>3. a \in Accesos /\ p \in Procesos /\ Suyo(cpu, p)
  <2>1. a \in Accesos
    BY <1>1 DEF AInv, Tipos
  <2> QED BY <1>1, <2>1, AccesoBien DEF Suyo
<1>4. Por' = Por /\ Por = memoria_fisica
  BY <1>1, MismoPor, PorBien
<1>5. Por \in Memorias /\ cpu \in Usos /\ Fiel(Por, cpu, interfaz[p], p) /\ leido \in [Procesos -> Seq(Bytes)]
  BY <1>3, PorBien
<1>6. s = Lectura(cpu.datos, Por, DirFisica(p, cpu.dir), t) /\ Len(s) \in Nat /\ a.n \in Nat
  <2>1. s = Lectura(cpu.datos, Por, DirFisica(p, cpu.dir), t)
    BY <1>4
  <2>2. s \in Seq(Bytes)
    BY <1>1, <1>3, <1>5, <2>1, PideLectura
  <2> HIDE DEF s
  <2> QED BY <1>3, <2>1, <2>2, AccesoBien, LenProperties
<1> HIDE DEF s, t
<1>7. /\ cpu' \in Usos /\ (cpu'.fase # "libre" => cpu'.acceso = a)
      /\ leido' \in [Procesos -> Seq(Bytes)] /\ leido' = [leido EXCEPT ![p] = leido'[p]]
      /\ Sigue(Por, cpu, interfaz[p], leido[p], Por, cpu', interfaz[p], leido'[p], p)
  <2>1. CASE Len(s) < a.n
    <3>1. ~(Len(s) >= a.n)
      BY <1>6, <2>1
    <3>2. cpu' = [cpu EXCEPT !.dir = @ + t, !.datos = s] /\ leido' = leido
      BY <1>1, <1>2, <2>1, <3>1
    <3>3. cpu' \in Usos /\ cpu'.acceso = a /\ Sigue(Por, cpu, interfaz[p], leido[p], Por, cpu', interfaz[p], leido[p], p)
      <4>1. t = Trozo(cpu.acceso, cpu.dir, cpu.acceso.n - Len(cpu.datos))
        BY DEF t
      <4>2. cpu' = Leyendo(cpu, t, s)
        BY <3>2 DEF Leyendo
      <4>3. PICK m, c, i, l, t0, s0, c2 :
               /\ m = Por /\ c = cpu /\ i = interfaz[p] /\ l = leido[p] /\ t0 = t /\ s0 = s /\ c2 = cpu'
        BY <1>5
      <4>4. /\ m \in Memorias /\ c \in Usos
            /\ c.fase = "lee" /\ Suyo(c, p) /\ Fiel(m, c, i, p) /\ t0 = Trozo(c.acceso, c.dir, c.acceso.n - Len(c.datos))
            /\ s0 = Lectura(c.datos, m, DirFisica(p, c.dir), t0) /\ Len(s0) < c.acceso.n /\ c2 = Leyendo(c, t0, s0)
        BY <1>1, <1>3, <1>5, <1>6, <2>1, <4>1, <4>2, <4>3
      <4>5. c2 \in Usos /\ c2.acceso = c.acceso /\ Sigue(m, c, i, l, m, c2, i, l, p)
        BY <4>4, SigueLeyendo
      <4> QED BY <4>3, <4>5
    <3> QED BY <1>3, <1>5, <3>2, <3>3
  <2>2. CASE ~(Len(s) < a.n) /\ a.tipo = "COPY_STRING"
    <3>1. Len(s) >= a.n
      BY <1>6, <2>2
    <3>2. cpu' = [cpu EXCEPT !.fase = "escribe", !.dir = a.destino, !.datos = s] /\ leido' = leido
      BY <1>1, <1>2, <2>2, <3>1
    <3>3. cpu' \in Usos /\ cpu'.acceso = a /\ Sigue(Por, cpu, interfaz[p], leido[p], Por, cpu', interfaz[p], leido[p], p)
      <4>1. s = Lectura(cpu.datos, Por, DirFisica(p, cpu.dir), Trozo(cpu.acceso, cpu.dir, cpu.acceso.n - Len(cpu.datos)))
        BY <1>6 DEF t
      <4>2. cpu' = AEscribir(cpu, s)
        BY <3>2 DEF AEscribir
      <4> QED BY <1>1, <1>3, <1>5, <2>2, <3>1, <4>1, <4>2, TerminaDeLeer, SMTT(40)
    <3> QED BY <1>3, <1>5, <3>2, <3>3
  <2>3. CASE ~(Len(s) < a.n) /\ a.tipo # "COPY_STRING"
    <3>1. Len(s) >= a.n
      BY <1>6, <2>3
    <3>2. s \in Seq(Bytes) /\ a.tipo = "MOV_IN" /\ Sigue(Por, cpu, interfaz[p], leido[p], Por, Ociosa, interfaz[p], s, p)
      BY <1>1, <1>3, <1>5, <1>6, <2>3, <3>1, LeeElUltimo DEF t
    <3>3. cpu' = Ociosa /\ leido' = [leido EXCEPT ![p] = s]
      BY <1>1, <1>2, <2>3, <3>1, <3>2
    <3>4. leido' \in [Procesos -> Seq(Bytes)] /\ leido'[p] = s
      BY <1>3, <1>5, <3>2, <3>3
    <3> QED BY <3>2, <3>3, <3>4, OciosaBien
  <2> QED BY <2>1, <2>2, <2>3
<1>8. \A q \in Procesos \ {p} : ~Suyo(cpu, q) /\ ~Suyo(cpu', q)
  BY <1>7 DEF Suyo
<1>9. /\ \A q \in Procesos : Fiel(Por', cpu', interfaz'[q], q)
      /\ [Espacio!Next]_(Espacio!vars)
  BY <1>1, <1>3, <1>4, <1>7, <1>8, PorBien, UnoSolo
<1>10. Tipos'
  BY <1>1, <1>3, <1>7 DEF AInv, Tipos
<1>11. Apartadas(socket_cpu', interfaz')
  BY <1>1, NadieEnSocket
<1> QED BY <1>1, <1>9, <1>10, <1>11, SigueViva DEF AInv, Por

LEMMA PasoCpuEscribe ==
  ASSUME ~falla, AInv, CpuEscribe
  PROVE  AInv' /\ [Espacio!Next]_(Espacio!vars)
<1> DEFINE a == cpu.acceso
           p == a.pid
           t == Trozo(a, cpu.dir, Len(cpu.datos))
           b == Primeros(cpu.datos, t)
           d == DirFisica(p, cpu.dir)
           w == [dir |-> d, datos |-> b]
<1>1. /\ cpu.fase = "escribe" /\ socket_cpu' = Append(socket_cpu, w)
      /\ cpu' = IF t < Len(cpu.datos) THEN [cpu EXCEPT !.dir = @ + t, !.datos = Resto(@, t)] ELSE Ociosa
      /\ UNCHANGED <<memoria_fisica, interfaz, leido, hechos, falla>>
  BY DEF CpuEscribe
<1>2. a \in Accesos /\ p \in Procesos /\ Suyo(cpu, p)
  <2>1. a \in Accesos
    BY <1>1 DEF AInv, Tipos
  <2> QED BY <1>1, <2>1, AccesoBien DEF Suyo
<1>3. /\ Por \in Memorias /\ cpu \in Usos /\ Fiel(Por, cpu, interfaz[p], p) /\ leido \in [Procesos -> Seq(Bytes)]
      /\ memoria_fisica \in Memorias /\ socket_cpu \in Seq(Piezas)
  BY <1>2, PorBien
<1>4. /\ cpu' \in Usos /\ (cpu'.fase # "libre" => cpu'.acceso = a)
      /\ b \in Seq(Bytes) /\ Parte(p, cpu.dir, Len(b)) /\ interfaz[p].fase = "libre"
      /\ Sigue(Por, cpu, interfaz[p], leido[p], Copiada(Por, d, b), cpu', interfaz[p], leido[p], p)
  <2>1. PICK m, c, i, l, t0, b0, c2, m2, p0 :
           /\ m = Por /\ c = cpu /\ i = interfaz[p] /\ l = leido[p] /\ t0 = t /\ b0 = b /\ c2 = cpu'
           /\ m2 = Copiada(Por, d, b) /\ p0 = p
    BY <1>3
  <2>2. /\ m \in Memorias /\ c \in Usos
        /\ c.fase = "escribe" /\ Suyo(c, p0) /\ Fiel(m, c, i, p0)
        /\ t0 = Trozo(c.acceso, c.dir, Len(c.datos)) /\ b0 = Primeros(c.datos, t0)
        /\ c2 = Escribiendo(c, t0) /\ m2 = Copiada(m, DirFisica(p0, c.dir), b0)
    BY <1>1, <1>2, <1>3, <2>1 DEF Escribiendo
  <2>3. /\ Sigue(m, c, i, l, m2, c2, i, l, p0) /\ c2 \in Usos /\ NoOtro(c2, c.acceso)
        /\ b0 \in Seq(Bytes) /\ Parte(p0, c.dir, Len(b0)) /\ i.fase = "libre"
    BY <2>2, EscribeCpuUno
  <2> QED BY <2>1, <2>3 DEF NoOtro
<1> HIDE DEF b, t
<1>5. /\ cpu.dir \in 0..(Tamanios[p] - 1) /\ d \in Nat
  <2>1. 0 \in 0..(Len(b) - 1)
    <3>1. Len(b) \in Nat \ {0}
      BY <1>4 DEF Parte
    <3> QED BY <3>1
  <2>2. cpu.dir \in 0..(Tamanios[p] - 1)
    BY <1>4, <2>1, Seguidas
  <2> QED BY <1>2, <2>2, Marco
<1>6. w \in Piezas /\ DeProceso(w, p) /\ w.dir = d /\ w.datos = b
  <2> HIDE DEF d
  <2> QED BY <1>4, <1>5 DEF Piezas, DeProceso, d
<1> HIDE DEF w, d
<1>7. Por' = Copiada(Por, d, b)
  BY <1>1, <1>3, <1>6, LlegaOtra DEF Por
<1>8. \A q \in Procesos \ {p} : Vista(Por', q) = Vista(Por, q)
  BY <1>3, <1>4, <1>7, Pega DEF d
<1>9. \A q \in Procesos \ {p} : ~Suyo(cpu, q) /\ ~Suyo(cpu', q)
  BY <1>4 DEF Suyo
<1>10. /\ \A q \in Procesos : Fiel(Por', cpu', interfaz'[q], q)
       /\ [Espacio!Next]_(Espacio!vars)
  BY <1>1, <1>2, <1>4, <1>7, <1>8, <1>9, PorBien, UnoSolo
<1>11. socket_cpu' \in Seq(Piezas) /\ Apartadas(socket_cpu', interfaz')
  <2>1. /\ socket_cpu' \in Seq(Piezas) /\ Len(socket_cpu') = Len(socket_cpu) + 1 /\ Len(socket_cpu) \in Nat
        /\ socket_cpu'[Len(socket_cpu) + 1] = w
        /\ \A k \in 1..Len(socket_cpu) : socket_cpu'[k] = socket_cpu[k]
    BY <1>1, <1>3, <1>6, AppendProperties
  <2>2. ASSUME NEW k \in 1..Len(socket_cpu')
        PROVE  \E q \in Procesos : DeProceso(socket_cpu'[k], q) /\ interfaz'[q].fase = "libre"
    <3>1. CASE k = Len(socket_cpu) + 1
      BY <1>1, <1>2, <1>4, <1>6, <2>1, <3>1
    <3>2. CASE k # Len(socket_cpu) + 1
      <4>1. k \in 1..Len(socket_cpu)
        BY <2>1, <3>2
      <4> QED BY <1>1, <2>1, <4>1 DEF AInv, Apartadas
    <3> QED BY <3>1, <3>2
  <2> QED BY <2>1, <2>2 DEF Apartadas
<1>12. Tipos'
  BY <1>1, <1>2, <1>4, <1>11 DEF AInv, Tipos
<1> QED BY <1>1, <1>10, <1>11, <1>12, SigueViva DEF AInv, Por

\* Memoria writes a piece of the CPU: nobody sees it.
LEMMA PasoEscribirFisica ==
  ASSUME ~falla, AInv, EscribirFisica
  PROVE  AInv' /\ [Espacio!Next]_(Espacio!vars)
<1>1. /\ socket_cpu # <<>> /\ socket_cpu' = Tail(socket_cpu)
      /\ memoria_fisica' = Copiada(memoria_fisica, Head(socket_cpu).dir, Head(socket_cpu).datos)
      /\ UNCHANGED <<cpu, interfaz, leido, hechos, falla>>
  BY DEF EscribirFisica
<1>2. memoria_fisica \in Memorias /\ socket_cpu \in Seq(Piezas)
  BY PorBien
<1>3. memoria_fisica' \in Memorias /\ socket_cpu' \in Seq(Piezas) /\ Por' = Por
  BY <1>1, <1>2, LlegaPrimera DEF Por
<1>4. /\ Len(socket_cpu) \in Nat /\ Len(socket_cpu) > 0 /\ Len(socket_cpu') = Len(socket_cpu) - 1
      /\ \A k \in 1..(Len(socket_cpu) - 1) : socket_cpu'[k] = socket_cpu[k + 1]
  BY <1>1, <1>2, HeadTailProperties, LenProperties, EmptySeq
<1>5. Apartadas(socket_cpu', interfaz')
  <2>1. ASSUME NEW k \in 1..Len(socket_cpu')
        PROVE  \E q \in Procesos : DeProceso(socket_cpu'[k], q) /\ interfaz'[q].fase = "libre"
    <3>1. k + 1 \in 1..Len(socket_cpu) /\ socket_cpu'[k] = socket_cpu[k + 1]
      BY <1>4
    <3> QED BY <1>1, <3>1 DEF AInv, Apartadas
  <2> QED BY <2>1 DEF Apartadas
<1>6. UNCHANGED Espacio!vars
  <2>1. \A q \in Procesos : Mira(q)' = Mira(q) /\ Quiere(q)' = Quiere(q)
    BY <1>1, <1>3 DEF Mira, Quiere
  <2>2. \A q \in Procesos : Visto(q)' = Visto(q) /\ Pendiente(q)' = Pendiente(q)
    BY <2>1, LoMismo, LoMismoLuego
  <2> QED BY <1>1, <2>2 DEF Espacio!vars
<1>7. Tipos'
  BY <1>1, <1>3 DEF AInv, Tipos, Memorias
<1>8. \A q \in Procesos : Fiel(Por', cpu', interfaz'[q], q)
  BY <1>1, <1>3, PorBien
<1> QED BY <1>1, <1>5, <1>6, <1>7, <1>8, SigueViva DEF AInv, Por

\* A device asks for something.
LEMMA PasoIoEmpieza ==
  ASSUME ~Cruces, ~falla, AInv, NEW tipo \in {"ENTRADA", "SALIDA"}, IoEmpieza(tipo)
  PROVE  AInv' /\ [Espacio!Next]_(Espacio!vars)
<1>1. PICK a \in Accesos :
        /\ Empezar({tipo}, a)
        /\ Cruces \/ Admitido(a)
        /\ interfaz' = [interfaz EXCEPT ![a.pid] =
                          [acceso |-> a, fase |-> "empieza", dir |-> DirFisica(a.pid, a.dir),
                           datos |-> a.datos]]
        /\ UNCHANGED <<memoria_fisica, cpu, socket_cpu, leido, falla>>
  BY DEF IoEmpieza
<1> DEFINE p == a.pid
<1>2. /\ hechos < MaxAccesos /\ hechos' = hechos + 1 /\ cpu.fase = "libre" /\ socket_cpu = <<>>
      /\ a.tipo \in {"ENTRADA", "SALIDA"} /\ interfaz[p].fase = "libre" /\ Admitido(a)
  BY <1>1 DEF Empezar, EscriturasHechas
<1>3. Por' = Por
  BY <1>1, MismoPor
<1>4. p \in Procesos /\ interfaz \in [Procesos -> Usos] /\ leido \in [Procesos -> Seq(Bytes)]
  BY AccesoBien DEF AInv, Tipos
<1>5. interfaz' = [interfaz EXCEPT ![p] = IoNueva(a)] /\ interfaz'[p] = IoNueva(a)
  BY <1>1, <1>4 DEF IoNueva
<1>6. interfaz'[p] \in Usos /\ Sigue(Por, cpu, interfaz[p], leido[p], Por, cpu, interfaz'[p], leido[p], p)
  <2>1. PICK m, c, i, l, i2 :
           m = Por /\ c = cpu /\ i = interfaz[p] /\ l = leido[p] /\ i2 = interfaz'[p]
    BY PorBien
  <2>2. /\ m \in Memorias
        /\ c.fase = "libre" /\ i.fase = "libre" /\ a.tipo \in {"ENTRADA", "SALIDA"} /\ Admitido(a)
        /\ i2 = IoNueva(a)
    BY <1>2, <1>5, <2>1, PorBien
  <2>3. i2 \in Usos /\ Sigue(m, c, i, l, m, c, i2, l, a.pid)
    BY <2>2, EmpiezaIo
  <2> QED BY <2>1, <2>3
<1> HIDE DEF p
<1>7. \A q \in Procesos \ {p} : interfaz'[q] = interfaz[q]
  BY <1>4, <1>5
<1>8. leido' = [leido EXCEPT ![p] = leido'[p]]
  BY <1>1, <1>4
<1>9. /\ \A q \in Procesos : Fiel(Por', cpu', interfaz'[q], q)
      /\ [Espacio!Next]_(Espacio!vars)
  BY <1>1, <1>3, <1>4, <1>6, <1>7, <1>8, PorBien, UnoSolo
<1>10. Tipos'
  <2>1. interfaz' \in [Procesos -> Usos]
    BY <1>4, <1>5, <1>6
  <2> QED BY <1>1, <1>2, <2>1, AccesosAssumption DEF AInv, Tipos
<1>11. Apartadas(socket_cpu', interfaz')
  BY <1>1, <1>2, NadieEnSocket
<1> QED BY <1>1, <1>9, <1>10, <1>11, SigueViva DEF AInv, Por

\* What the steps of the device of p have in common.  It has written, or not.
LEMMA PasoIo ==
  ASSUME ~falla, AInv, NEW p \in Procesos, interfaz[p].fase # "libre",
         NEW i2 \in Usos, interfaz' = [interfaz EXCEPT ![p] = i2],
         NEW l2 \in Seq(Bytes), leido' = [leido EXCEPT ![p] = l2],
         UNCHANGED <<cpu, socket_cpu, hechos, falla>>, memoria_fisica' \in Memorias,
         \A q \in Procesos \ {p} : Vista(Por', q) = Vista(Por, q),
         Sigue(Por, cpu, interfaz[p], leido[p], Por', cpu, i2, l2, p)
  PROVE  AInv' /\ [Espacio!Next]_(Espacio!vars)
<1>1. interfaz \in [Procesos -> Usos] /\ leido \in [Procesos -> Seq(Bytes)]
  BY DEF AInv, Tipos
<1>2. interfaz'[p] = i2 /\ leido'[p] = l2 /\ leido' = [leido EXCEPT ![p] = leido'[p]]
  BY <1>1
<1>3. \A q \in Procesos \ {p} : interfaz'[q] = interfaz[q]
  BY <1>1
<1>4. /\ \A q \in Procesos : Fiel(Por', cpu', interfaz'[q], q)
      /\ [Espacio!Next]_(Espacio!vars)
  BY <1>1, <1>2, <1>3, PorBien, UnoSolo
<1>5. Tipos'
  BY <1>1 DEF AInv, Tipos, Memorias
<1>6. Apartadas(socket_cpu', interfaz')
  <2>1. Apartadas(socket_cpu, interfaz)
    BY DEF AInv
  <2>2. PICK s, d, d2 : s = socket_cpu /\ d = interfaz /\ d2 = interfaz'
    OBVIOUS
  <2>3. Apartadas(s, d) /\ d[p].fase # "libre" /\ \A q \in Procesos \ {p} : d2[q] = d[q]
    BY <1>3, <2>1, <2>2
  <2>4. Apartadas(s, d2)
    BY <2>3, SiguenApartadas
  <2> QED BY <2>2, <2>4
<1> QED BY <1>4, <1>5, <1>6, SigueViva DEF AInv, Por

\* A device writes b.
LEMMA PasoEscribeIo ==
  ASSUME ~falla, AInv, NEW p \in Procesos, interfaz[p].fase # "libre",
         NEW i2 \in Usos, interfaz' = [interfaz EXCEPT ![p] = i2],
         UNCHANGED <<leido, cpu, socket_cpu, hechos, falla>>,
         NEW x, NEW b \in Seq(Bytes), Parte(p, x, Len(b)),
         memoria_fisica' = Copiada(memoria_fisica, DirFisica(p, x), b),
         Sigue(Por, cpu, interfaz[p], leido[p], Copiada(Por, DirFisica(p, x), b), cpu, i2, leido[p], p)
  PROVE  AInv' /\ [Espacio!Next]_(Espacio!vars)
<1>1. /\ memoria_fisica \in Memorias /\ socket_cpu \in Seq(Piezas) /\ Por \in Memorias
      /\ leido \in [Procesos -> Seq(Bytes)]
  BY PorBien
<1>2. \A k \in 1..Len(socket_cpu) : \E q \in Procesos \ {p} : DeProceso(socket_cpu[k], q)
  BY DeOtros DEF AInv
<1>3. /\ memoria_fisica' \in Memorias /\ Por' = Copiada(Por, DirFisica(p, x), b)
      /\ \A q \in Procesos \ {p} : Vista(Por', q) = Vista(Por, q)
  <2>1. PICK m, s : m = memoria_fisica /\ s = socket_cpu
    OBVIOUS
  <2>2. /\ Copiada(m, DirFisica(p, x), b) \in Memorias
        /\ Llegan(Copiada(m, DirFisica(p, x), b), s) = Copiada(Llegan(m, s), DirFisica(p, x), b)
        /\ \A q \in Procesos : q # p => Vista(Llegan(Copiada(m, DirFisica(p, x), b), s), q) = Vista(Llegan(m, s), q)
    BY <1>1, <1>2, <2>1, PegaIo
  <2> QED BY <2>1, <2>2 DEF Por
<1>4. leido' = [leido EXCEPT ![p] = leido[p]] /\ leido[p] \in Seq(Bytes)
  BY <1>1
<1> QED BY <1>3, <1>4, PasoIo

\* A device reads.
LEMMA PasoLeeIo ==
  ASSUME ~falla, AInv, NEW p \in Procesos, interfaz[p].fase # "libre",
         NEW i2 \in Usos, interfaz' = [interfaz EXCEPT ![p] = i2],
         NEW l2 \in Seq(Bytes), leido' = [leido EXCEPT ![p] = l2],
         UNCHANGED <<memoria_fisica, cpu, socket_cpu, hechos, falla>>,
         Sigue(Por, cpu, interfaz[p], leido[p], Por, cpu, i2, l2, p)
  PROVE  AInv' /\ [Espacio!Next]_(Espacio!vars)
<1>1. Por' = Por /\ memoria_fisica' \in Memorias
  BY MismoPor, PorBien
<1> QED BY <1>1, PasoIo

LEMMA VeLoMismo ==
  ASSUME AInv, NEW p \in Procesos, interfaz[p].fase # "libre"
  PROVE  Vista(memoria_fisica, p) = Vista(Por, p)
<1>1. memoria_fisica \in Memorias /\ socket_cpu \in Seq(Piezas)
  BY PorBien
<1>2. \A k \in 1..Len(socket_cpu) : \E q \in Procesos \ {p} : DeProceso(socket_cpu[k], q)
  BY DeOtros DEF AInv
<1> QED BY <1>1, <1>2, LlegaLejos DEF Por

LEMMA PasoEscribirPrimera ==
  ASSUME ~falla, AInv, NEW p \in Procesos, EscribirPrimera(p)
  PROVE  AInv' /\ [Espacio!Next]_(Espacio!vars)
<1> DEFINE i == interfaz[p]
           n == i.acceso.n
           b == Primeros(i.datos, TamPagina)
           i2 == PrimeraHecha(i, Resto(i.datos, TamPagina))
<1>1. /\ i.fase = "empieza" /\ i.acceso.tipo = "ENTRADA" /\ falla = FALSE
      /\ interfaz \in [Procesos -> Usos] /\ i \in Usos /\ Fiel(Por, cpu, i, p) /\ Por \in Memorias
      /\ UNCHANGED <<cpu, socket_cpu, leido, hechos>>
  BY PorBien DEF EscribirPrimera, Trabaja, AInv, Tipos
<1>2. CASE TamPagina - Desplazamiento(i.dir) >= n
  <2>1. /\ memoria_fisica' = Copiada(memoria_fisica, i.dir, i.datos)
        /\ interfaz' = [interfaz EXCEPT ![p] = Ociosa] /\ falla' = falla
    BY <1>2 DEF EscribirPrimera
  <2>2. /\ i.datos \in Seq(Bytes) /\ i.dir = DirFisica(p, i.acceso.dir)
        /\ Parte(p, i.acceso.dir, Len(i.datos))
        /\ Sigue(Por, cpu, i, leido[p], Copiada(Por, i.dir, i.datos), cpu, Ociosa, leido[p], p)
    BY <1>1, <1>2, EscribeTodo
  <2>3. PICK x, s : x = i.acceso.dir /\ s = i.datos
    OBVIOUS
  <2> QED BY <1>1, <2>1, <2>2, <2>3, OciosaBien, PasoEscribeIo
<1>3. CASE ~(TamPagina - Desplazamiento(i.dir) >= n)
  <2>1. /\ memoria_fisica' = Copiada(memoria_fisica, i.dir, b)
        /\ interfaz' = [interfaz EXCEPT ![p].fase = "sigue", ![p].datos = Resto(@, TamPagina)]
        /\ falla' = (n < TamPagina)
    BY <1>3 DEF EscribirPrimera
  <2>2. interfaz' = [interfaz EXCEPT ![p] = i2]
    BY <1>1, <2>1 DEF PrimeraHecha
  <2> HIDE DEF b, i2
  <2>3. /\ ~(n < TamPagina) /\ i2 \in Usos
        /\ b \in Seq(Bytes) /\ i.dir = DirFisica(p, i.acceso.dir) /\ Parte(p, i.acceso.dir, Len(b))
        /\ Sigue(Por, cpu, i, leido[p], Copiada(Por, i.dir, b), cpu, i2, leido[p], p)
    BY <1>1, <1>3, EscribePrimera DEF b, i2
  <2>4. falla' = falla
    <3>1. (n < TamPagina) = FALSE
      BY <2>3
    <3> HIDE DEF n, i
    <3> QED BY <1>1, <2>1, <3>1, Zenon
  <2> QED BY <1>1, <2>1, <2>2, <2>3, <2>4, PasoEscribeIo
<1> QED BY <1>2, <1>3

LEMMA PasoEscribirSiguiente ==
  ASSUME ~falla, AInv, NEW p \in Procesos, EscribirSiguiente(p)
  PROVE  AInv' /\ [Espacio!Next]_(Espacio!vars)
<1> DEFINE i == interfaz[p]
           d == PaginaSiguiente(p, i.dir)
           b == Primeros(i.datos, TamPagina)
           i2 == IF Len(i.datos) <= TamPagina THEN Ociosa ELSE OtraHecha(i, d, Resto(i.datos, TamPagina))
<1>1. /\ i.fase = "sigue" /\ i.acceso.tipo = "ENTRADA" /\ falla = FALSE
      /\ interfaz \in [Procesos -> Usos] /\ i \in Usos /\ Fiel(Por, cpu, i, p) /\ Por \in Memorias
      /\ UNCHANGED <<cpu, socket_cpu, leido, hechos>>
      /\ falla' = (PaginasSiguientes(p, i.dir) = {})
  BY PorBien DEF EscribirSiguiente, Trabaja, AInv, Tipos
<1>2. /\ PaginasSiguientes(p, i.dir) # {} /\ i2 \in Usos /\ b \in Seq(Bytes)
      /\ \E x \in Nat : d = DirFisica(p, x) /\ Parte(p, x, Len(b))
      /\ Sigue(Por, cpu, i, leido[p], Copiada(Por, d, b), cpu, i2, leido[p], p)
  <2>1. PICK m, i0, c, l, d0, b0, j :
           m = Por /\ c = cpu /\ i0 = i /\ l = leido[p] /\ d0 = d /\ b0 = b /\ j = i2
    BY <1>1
  <2>2. /\ m \in Memorias /\ i0 \in Usos
        /\ i0.fase = "sigue" /\ i0.acceso.tipo = "ENTRADA" /\ Fiel(m, c, i0, p)
        /\ d0 = PaginaSiguiente(p, i0.dir) /\ b0 = Primeros(i0.datos, TamPagina)
        /\ j = OtraEscrita(i0, d0)
    BY <1>1, <2>1 DEF OtraEscrita
  <2>3. /\ PaginasSiguientes(p, i0.dir) # {} /\ j \in Usos /\ b0 \in Seq(Bytes)
        /\ EnPagina(p, d0, Len(b0))
        /\ Sigue(m, c, i0, l, Copiada(m, d0, b0), c, j, l, p)
    BY <2>2, EscribeSiguiente
  <2> HIDE DEF d, b, i2
  <2> QED BY <2>1, <2>3 DEF EnPagina
<1>3. /\ falla' = falla /\ memoria_fisica' = Copiada(memoria_fisica, d, b)
      /\ interfaz' = [interfaz EXCEPT ![p] = i2]
  BY <1>1, <1>2 DEF EscribirSiguiente, OtraHecha
<1> HIDE DEF d, b, i2
<1>4. PICK x \in Nat : d = DirFisica(p, x) /\ Parte(p, x, Len(b))
  BY <1>2
<1> QED BY <1>1, <1>2, <1>3, <1>4, PasoEscribeIo

LEMMA PasoLeerPrimera ==
  ASSUME ~falla, AInv, NEW p \in Procesos, LeerPrimera(p), ~falla'
  PROVE  AInv' /\ [Espacio!Next]_(Espacio!vars)
<1> DEFINE i == interfaz[p]
           t == IF Desplazamiento(i.dir) # 0 THEN TamPagina - Desplazamiento(i.dir)
                ELSE Menor({i.acceso.n, TamPagina})
           s == Lectura(<<>>, memoria_fisica, i.dir, t)
           i2 == PrimeraHecha(i, s)
<1>1. /\ i.fase = "empieza" /\ i.acceso.tipo = "SALIDA" /\ falla = FALSE
      /\ interfaz \in [Procesos -> Usos] /\ i \in Usos /\ Fiel(Por, cpu, i, p)
      /\ leido \in [Procesos -> Seq(Bytes)]
      /\ UNCHANGED <<memoria_fisica, cpu, socket_cpu, hechos>>
  BY PorBien DEF LeerPrimera, Trabaja, AInv, Tipos
<1>2. /\ falla' = (t > i.acceso.n) /\ ~(t > i.acceso.n)
      /\ t = i.acceso.n => Responde(p, s)
      /\ t # i.acceso.n => /\ interfaz' = [interfaz EXCEPT ![p].fase = "sigue", ![p].datos = s]
                           /\ leido' = leido
  BY DEF LeerPrimera
<1>3. /\ Vista(memoria_fisica, p) = Vista(Por, p) /\ memoria_fisica \in Memorias /\ Por \in Memorias
  BY <1>1, VeLoMismo, PorBien
<1>4. /\ s \in Seq(Bytes)
      /\ t = i.acceso.n => Sigue(Por, cpu, i, leido[p], Por, cpu, Ociosa, HastaCero(s), p)
      /\ t # i.acceso.n => i2 \in Usos /\ Sigue(Por, cpu, i, leido[p], Por, cpu, i2, leido[p], p)
  <2>1. PICK m, f, i0, c, l, t0, s0, j :
           /\ m = Por /\ f = memoria_fisica /\ c = cpu /\ i0 = i /\ l = leido[p]
           /\ t0 = t /\ s0 = s /\ j = i2
    BY <1>1, <1>3
  <2>2. /\ m \in Memorias /\ f \in Memorias /\ i0 \in Usos
        /\ Vista(f, p) = Vista(m, p) /\ i0.fase = "empieza" /\ i0.acceso.tipo = "SALIDA" /\ Fiel(m, c, i0, p)
        /\ t0 = BytesPrimera(i0) /\ ~(t0 > i0.acceso.n) /\ s0 = Lectura(<<>>, f, i0.dir, t0) /\ j = PrimeraHecha(i0, s0)
    BY <1>1, <1>2, <1>3, <2>1 DEF BytesPrimera
  <2>3. TrasLeer(m, c, i0, l, t0, s0, j, p)
    BY <2>2, LeePrimera
  <2> HIDE DEF t, s, i2
  <2> QED BY <2>1, <2>3 DEF TrasLeer
<1>5. interfaz' = [interfaz EXCEPT ![p] = i2] \/ t = i.acceso.n
  <2> HIDE DEF t, s
  <2> QED BY <1>1, <1>2 DEF PrimeraHecha
<1> HIDE DEF t, s, i2
<1>6. falla' = falla
  <2>1. (t > i.acceso.n) = FALSE
    BY <1>2
  <2> QED BY <1>1, <1>2, <2>1, Zenon
<1>7. CASE t = i.acceso.n
  <2>1. leido' = [leido EXCEPT ![p] = HastaCero(s)] /\ interfaz' = [interfaz EXCEPT ![p] = Ociosa]
    BY <1>2, <1>7 DEF Responde
  <2>2. HastaCero(s) \in Seq(Bytes)
    BY <1>4, HastaCeroTipo
  <2> QED BY <1>1, <1>4, <1>6, <1>7, <2>1, <2>2, OciosaBien, PasoLeeIo
<1>8. CASE t # i.acceso.n
  <2>1. leido' = [leido EXCEPT ![p] = leido[p]] /\ leido[p] \in Seq(Bytes)
    BY <1>1, <1>2, <1>8
  <2> QED BY <1>1, <1>4, <1>5, <1>6, <1>8, <2>1, PasoLeeIo
<1> QED BY <1>7, <1>8

\* A device reads inside a page: it asked for less than there is to the end.
LEMMA LeeDentro ==
  ASSUME NEW r \in 0..(TamPagina - 1), NEW n \in Nat \ {0},
         (IF r # 0 THEN TamPagina - r ELSE Menor({n, TamPagina})) > n
  PROVE  r \in 1..(TamPagina - n - 1)
<1>1. TamPagina \in Nat /\ TamPagina > 0
  BY TamPaginaAssumption
<1>2. Menor({n, TamPagina}) = IF n <= TamPagina THEN n ELSE TamPagina
  BY <1>1, MenorDeDos
<1>3. r # 0 /\ TamPagina - r > n
  BY <1>1, <1>2
<1> QED BY <1>1, <1>3

LEMMA PasoMuere ==
  ASSUME ~falla, AInv, NEW p \in Procesos, LeerPrimera(p), falla'
  PROVE  AInv' /\ [Espacio!Next]_(Espacio!vars)
<1> DEFINE i == interfaz[p]
           a == i.acceso
           t == IF Desplazamiento(i.dir) # 0 THEN TamPagina - Desplazamiento(i.dir)
                ELSE Menor({a.n, TamPagina})
<1>1. /\ i.fase = "empieza" /\ a.tipo = "SALIDA" /\ falla' = (t > a.n)
      /\ i \in Usos /\ Fiel(Por, cpu, i, p)
      /\ UNCHANGED <<memoria_fisica, cpu, socket_cpu, interfaz, leido, hechos>>
  BY PorBien DEF LeerPrimera, Trabaja
<1>2. /\ a \in Accesos /\ a.pid = p /\ i.dir = DirFisica(p, a.dir)
  BY <1>1 DEF Fiel, IoFiel
<1>3. /\ a.dir \in Nat /\ a.n \in Nat \ {0} /\ Tamanios[p] \in Nat /\ a.dir + a.n <= Tamanios[p]
  BY <1>2, AccesoBien
<1>4. Desplazamiento(i.dir) = Desplazamiento(a.dir) /\ Desplazamiento(a.dir) \in 0..(TamPagina - 1)
  <2>1. a.dir \in 0..(Tamanios[p] - 1)
    BY <1>3
  <2> QED BY <1>2, <1>3, <2>1, Marco, Pagina
<1>5. Dentro(a)
  <2>1. PICK r \in 0..(TamPagina - 1), n \in Nat \ {0} : r = Desplazamiento(a.dir) /\ n = a.n
    BY <1>3, <1>4
  <2>2. (IF r # 0 THEN TamPagina - r ELSE Menor({n, TamPagina})) > n
    BY <1>1, <1>4, <2>1
  <2>3. r \in 1..(TamPagina - n - 1)
    BY <2>2, LeeDentro
  <2> HIDE DEF a
  <2> QED BY <1>1, <2>1, <2>3 DEF Dentro
<1>6. Muerte'
  BY <1>1, <1>5 DEF Muerte
<1>7. falla' \in BOOLEAN
  BY <1>1
<1> HIDE DEF i
<1>8. Tipos' /\ Apartadas(socket_cpu', interfaz')
  BY <1>1, <1>7 DEF AInv, Tipos, Apartadas
<1>9. \A q \in Procesos : Fiel(Por', cpu', interfaz'[q], q)
  BY <1>1, MismoPor, PorBien
<1>10. UNCHANGED Espacio!vars
  BY <1>1, Intacto
<1> QED BY <1>6, <1>8, <1>9, <1>10 DEF AInv, Por

LEMMA PasoLeerSiguiente ==
  ASSUME ~falla, AInv, NEW p \in Procesos, LeerSiguiente(p)
  PROVE  AInv' /\ [Espacio!Next]_(Espacio!vars)
<1> DEFINE i == interfaz[p]
           d == PaginaSiguiente(p, i.dir)
           s == Lectura(i.datos, memoria_fisica, d, Menor({TamPagina, i.acceso.n - Len(i.datos)}))
           i2 == OtraHecha(i, d, s)
<1>1. /\ i.fase = "sigue" /\ i.acceso.tipo = "SALIDA" /\ falla = FALSE
      /\ interfaz \in [Procesos -> Usos] /\ i \in Usos /\ Fiel(Por, cpu, i, p)
      /\ leido \in [Procesos -> Seq(Bytes)]
      /\ UNCHANGED <<memoria_fisica, cpu, socket_cpu, hechos>>
      /\ falla' = (PaginasSiguientes(p, i.dir) = {})
  BY PorBien DEF LeerSiguiente, Trabaja, AInv, Tipos
<1>2. /\ Vista(memoria_fisica, p) = Vista(Por, p) /\ memoria_fisica \in Memorias /\ Por \in Memorias
  BY <1>1, VeLoMismo, PorBien
<1>3. /\ PaginasSiguientes(p, i.dir) # {} /\ s \in Seq(Bytes)
      /\ Len(s) = i.acceso.n => Sigue(Por, cpu, i, leido[p], Por, cpu, Ociosa, HastaCero(s), p)
      /\ Len(s) # i.acceso.n => i2 \in Usos /\ Sigue(Por, cpu, i, leido[p], Por, cpu, i2, leido[p], p)
  <2>1. PICK m, f, i0, c, l, d0, s0, j :
           /\ m = Por /\ f = memoria_fisica /\ c = cpu /\ i0 = i /\ l = leido[p]
           /\ d0 = d /\ s0 = s /\ j = i2
    BY <1>1, <1>2
  <2>2. /\ m \in Memorias /\ f \in Memorias /\ i0 \in Usos
        /\ Vista(f, p) = Vista(m, p) /\ i0.fase = "sigue" /\ i0.acceso.tipo = "SALIDA" /\ Fiel(m, c, i0, p)
        /\ d0 = PaginaSiguiente(p, i0.dir)
        /\ s0 = Lectura(i0.datos, f, d0, BytesSiguiente(i0)) /\ j = OtraHecha(i0, d0, s0)
    BY <1>1, <1>2, <2>1 DEF BytesSiguiente
  <2>3. PaginasSiguientes(p, i0.dir) # {} /\ TrasLeer(m, c, i0, l, Len(s0), s0, j, p)
    BY <2>2, LeeSiguiente
  <2> HIDE DEF d, s, i2
  <2> QED BY <2>1, <2>3 DEF TrasLeer
<1>4. /\ falla' = falla
      /\ Len(s) = i.acceso.n => Responde(p, s)
      /\ Len(s) # i.acceso.n => /\ interfaz' = [interfaz EXCEPT ![p].dir = d, ![p].datos = s]
                                /\ leido' = leido
  BY <1>1, <1>3 DEF LeerSiguiente
<1>5. interfaz' = [interfaz EXCEPT ![p] = i2] \/ Len(s) = i.acceso.n
  <2> HIDE DEF d, s
  <2> QED BY <1>1, <1>4 DEF OtraHecha
<1> HIDE DEF s, d, i2
<1>6. CASE Len(s) = i.acceso.n
  <2>1. leido' = [leido EXCEPT ![p] = HastaCero(s)] /\ interfaz' = [interfaz EXCEPT ![p] = Ociosa]
    BY <1>4, <1>6 DEF Responde
  <2>2. HastaCero(s) \in Seq(Bytes)
    BY <1>3, HastaCeroTipo
  <2> QED BY <1>1, <1>3, <1>4, <1>6, <2>1, <2>2, OciosaBien, PasoLeeIo
<1>7. CASE Len(s) # i.acceso.n
  <2>1. leido' = [leido EXCEPT ![p] = leido[p]] /\ leido[p] \in Seq(Bytes)
    BY <1>1, <1>4, <1>7
  <2> QED BY <1>1, <1>3, <1>4, <1>5, <1>7, <2>1, PasoLeeIo
<1> QED BY <1>6, <1>7

LEMMA PasoQuieto ==
  ASSUME AInv, UNCHANGED vars
  PROVE  AInv' /\ [Espacio!Next]_(Espacio!vars)
<1>1. UNCHANGED <<memoria_fisica, cpu, socket_cpu, interfaz, leido, hechos, falla>>
  BY DEF vars
<1>2. AInv'
  BY <1>1 DEF AInv, Tipos, Muerte, Apartadas
<1>3. UNCHANGED Espacio!vars
  BY <1>1, Intacto
<1> QED BY <1>2, <1>3

(***************************************************************************)
(* The theorems.                                                           *)
(***************************************************************************)
LEMMA Paso ==
  ASSUME ~Cruces, AInv, [Next]_vars
  PROVE  AInv' /\ [Espacio!Next]_(Espacio!vars)
<1> SUFFICES ASSUME Next \/ UNCHANGED vars PROVE AInv' /\ [Espacio!Next]_(Espacio!vars)
  OBVIOUS
<1>0. CASE UNCHANGED vars
  BY <1>0, PasoQuieto
<1> SUFFICES ASSUME Next PROVE AInv' /\ [Espacio!Next]_(Espacio!vars)
  BY <1>0
<1> ~falla
  BY DEF Next
<1>1. CASE CpuEmpieza
  BY <1>1, PasoCpuEmpieza
<1>2. CASE PedirEntrada
  BY <1>2, PasoIoEmpieza DEF PedirEntrada
<1>3. CASE PedirSalida
  BY <1>3, PasoIoEmpieza DEF PedirSalida
<1>4. CASE CpuLee
  BY <1>4, PasoCpuLee
<1>5. CASE CpuEscribe
  BY <1>5, PasoCpuEscribe
<1>6. CASE EscribirFisica
  BY <1>6, PasoEscribirFisica
<1>7. ASSUME NEW p \in Procesos, Dispositivo(p) PROVE AInv' /\ [Espacio!Next]_(Espacio!vars)
  <2>1. CASE EscribirPrimera(p)
    BY <2>1, PasoEscribirPrimera
  <2>2. CASE EscribirSiguiente(p)
    BY <2>2, PasoEscribirSiguiente
  <2>3. CASE LeerPrimera(p)
    <3>1. CASE falla'
      BY <2>3, <3>1, PasoMuere
    <3>2. CASE ~falla'
      BY <2>3, <3>2, PasoLeerPrimera
    <3> QED BY <3>1, <3>2
  <2>4. CASE LeerSiguiente(p)
    BY <2>4, PasoLeerSiguiente
  <2> QED BY <1>7, <2>1, <2>2, <2>3, <2>4 DEF Dispositivo
<1> QED BY <1>1, <1>2, <1>3, <1>4, <1>5, <1>6, <1>7 DEF Next, Cpu

LEMMA Inicial == Init => AInv /\ Espacio!Init
<1> SUFFICES ASSUME Init PROVE AInv /\ Espacio!Init
  OBVIOUS
<1>1. <<>> \in Seq(Bytes) /\ <<>> \in Seq(Piezas) /\ Len(<<>>) = 0
  BY EmptySeq
<1>2. Tipos
  <2>1. /\ memoria_fisica = [d \in Direcciones |-> 0] /\ cpu = Ociosa /\ socket_cpu = <<>>
        /\ interfaz = [p \in Procesos |-> Ociosa] /\ leido = [p \in Procesos |-> <<>>]
        /\ hechos = 0 /\ falla = FALSE
    BY DEF Init
  <2>2. 0 \in Bytes /\ hechos \in 0..MaxAccesos /\ falla \in BOOLEAN
    <3>1. MaxAccesos \in Nat
      BY AccesosAssumption, Zenon
    <3>2. 0 \in Bytes
      BY DEF Bytes
    <3>3. falla \in BOOLEAN
      BY <2>1, Zenon
    <3> QED BY <2>1, <3>1, <3>2, <3>3, SMT
  <2> QED BY <1>1, <2>1, <2>2, OciosaBien DEF Tipos
<1>3. Apartadas(socket_cpu, interfaz)
  BY NadieEnSocket DEF Init
<1>4. \A p \in Procesos : Fiel(Por, cpu, interfaz[p], p)
  BY OciosaBien DEF Init, Fiel
<1>5. AInv
  BY <1>2, <1>3, <1>4 DEF Init, Muerte, AInv, Por
<1>6. Por = memoria_fisica
  BY <1>5, PorBien DEF Init
<1>7. ASSUME NEW p \in Procesos
      PROVE  Visto(p) = [d \in 0..(Tamanios[p] - 1) |-> 0] /\ Pendiente(p) = Nulo
  <2>1. cpu = Ociosa /\ interfaz[p] = Ociosa
    BY DEF Init
  <2>2. Mira(p) = Vista(Por, p)
    BY <2>1, OciosaBien, VerQuieto DEF Mira, Suyo
  <2>3. Quiere(p) = Nulo
    BY <2>1, OciosaBien DEF Quiere, Pide
  <2>4. Vista(Por, p) = [d \in 0..(Tamanios[p] - 1) |-> 0]
    <3>1. \A d \in 0..(Tamanios[p] - 1) : Por[DirFisica(p, d)] = 0
      BY <1>6, Marco DEF Init
    <3> QED BY <3>1 DEF Vista
  <2> QED BY <2>2, <2>3, <2>4, LoMismo
<1>8. Espacio!Init
  <2>1. Espacio!Procesos = Procesos /\ leido = [p \in Procesos |-> <<>>]
    BY DEF Espacio!Procesos, Tamanios, Init
  <2> QED BY <1>7, <2>1 DEF Espacio!Init
<1> QED BY <1>5, <1>8

\* What is under way is what its process asked for, as far as it has got, and
\* no piece in the socket is of a process that a device serves
\* (cpu.c:836-1180, memoria.c:197-583).
THEOREM Invariante ==
  ASSUME ~Cruces
  PROVE  Spec => []AInv
<1>1. Init => AInv
  BY Inicial
<1>2. AInv /\ [Next]_vars => AInv'
  BY Paso
<1> QED BY <1>1, <1>2, PTL DEF Spec

LEMMA Tipada == ASSUME AInv PROVE TypeOK
<1>1. Tipos
  BY DEF AInv
<1>2. ASSUME NEW a \in Accesos, NEW s, s = a.datos PROVE Len(s) <= a.n
  <2>1. a.n \in Nat /\ Len(a.datos) \in {a.n, 0}
    BY AccesosAssumption
  <2> QED BY <1>2, <2>1
<1>3. ASSUME cpu.fase # "libre" PROVE cpu.acceso \in Accesos /\ Len(cpu.datos) <= cpu.acceso.n
  <2>1. cpu.acceso \in Accesos /\ cpu.acceso.pid \in Procesos /\ cpu.acceso.n \in Nat
    BY <1>1, <1>3, AccesoBien DEF Tipos
  <2>2. CpuFiel(cpu, Ver(Por, cpu, interfaz[cpu.acceso.pid], cpu.acceso.pid))
    BY <1>3, <2>1, PorBien DEF Fiel
  <2>3. Len(cpu.datos) < cpu.acceso.n \/ Len(cpu.datos) \in 1..cpu.acceso.n
    BY <2>2 DEF CpuFiel
  <2>4. Len(cpu.datos) \in Nat
    BY PorBien, UsoBien
  <2> QED BY <2>1, <2>3, <2>4
<1>4. ASSUME NEW p \in Procesos, interfaz[p].fase # "libre"
      PROVE  interfaz[p].acceso \in Accesos /\ Len(interfaz[p].datos) <= interfaz[p].acceso.n
  <2> DEFINE i == interfaz[p]
  <2>1. IoFiel(i, p, Ver(Por, cpu, i, p))
    BY <1>4, PorBien DEF Fiel
  <2>2. i.acceso \in Accesos /\ i.acceso.n \in Nat
    BY <2>1, AccesoBien DEF IoFiel
  <2>3. i.datos = i.acceso.datos \/ Len(i.datos) \in 1..(i.acceso.n - 1)
    BY <2>1 DEF IoFiel
  <2> HIDE DEF i
  <2>4. ASSUME i.datos = i.acceso.datos PROVE Len(i.datos) <= i.acceso.n
    BY <1>2, <2>2, <2>4
  <2>5. ASSUME Len(i.datos) \in 1..(i.acceso.n - 1) PROVE Len(i.datos) <= i.acceso.n
    BY <2>2, <2>5
  <2> QED BY <2>2, <2>3, <2>4, <2>5 DEF i
<1>5. ASSUME NEW k \in DOMAIN socket_cpu PROVE socket_cpu[k].dir \in Direcciones
  <2>1. k \in 1..Len(socket_cpu)
    BY <1>1 DEF Tipos
  <2>2. PICK q \in Procesos : DeProceso(socket_cpu[k], q)
    BY <2>1 DEF AInv, Apartadas
  <2>3. PICK d \in 0..(Tamanios[q] - 1) : socket_cpu[k].dir = DirFisica(q, d)
    BY <2>2 DEF DeProceso
  <2> QED BY <2>3, Marco
<1>6. \A i \in {cpu} \cup {interfaz[p] : p \in Procesos} :
        i.fase # "libre" => i.acceso \in Accesos /\ Len(i.datos) <= i.acceso.n
  BY <1>3, <1>4
<1> QED BY <1>1, <1>5, <1>6 DEF TypeOK, Tipos

\* An access never has more bytes under way than it was asked for, whether
\* the CPU or Memoria cuts it, and a piece of the CPU is written inside the
\* memory (cpu.c:836-1180, memoria.c:197-583).
THEOREM TiposCorrectos ==
  ASSUME ~Cruces
  PROVE  Spec => []TypeOK
<1>1. AInv => TypeOK
  BY Tipada
<1> QED BY <1>1, Invariante, PTL

\* While nobody reads from a device inside a page, Memoria lives: no other
\* access looks for a page that its process does not have
\* (memoria.c:372-583).
THEOREM SoloMuereLeyendo ==
  ASSUME ~Cruces
  PROVE  Spec => []Muerte
<1>1. AInv => Muerte
  BY DEF AInv
<1> QED BY <1>1, Invariante, PTL

\* Each process has a memory of its own where every access of an instruction
\* or of a device is done at once, whatever the tables of pages, the sizes and
\* the order in which the pieces of the others come (cpu.c:836-1180,
\* memoria.c:372-583).
THEOREM CadaProcesoSuMemoria ==
  ASSUME ~Cruces
  PROVE  Spec => CumpleEspacio
<1>1. Init => AInv /\ Espacio!Init
  BY Inicial
<1>2. AInv /\ [Next]_vars => AInv' /\ [Espacio!Next]_(Espacio!vars)
  BY Paso
<1> QED BY <1>1, <1>2, PTL DEF Spec, CumpleEspacio, Espacio!Pasos
=============================================================================
