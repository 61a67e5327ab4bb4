---------------------------- MODULE CicloCpu_proofs ----------------------------
(***************************************************************************)
(* The instruction cycle gives each process a machine of its own, for any  *)
(* programs, any widths of the registers and any number of interrupts,     *)
(* while these are read within the turn they are for (~CarreraDesalojo)    *)
(* and the clock lets a process that is back from I/O run an instruction   *)
(* (~CarreraInicio).                                                       *)
(*                                                                         *)
(* Layout: the codec of the streams and the effect of the instructions;    *)
(* the inductive invariant; what each step does to it and to the machine   *)
(* each process sees; the theorems.                                        *)
(***************************************************************************)
EXTENDS CicloCpu, Secuencias_lemas

(***************************************************************************)
(* Streams.                                                                *)
(***************************************************************************)

\* What a register bank can hold.
Banco == {r \in [Registros -> Nat] : \A x \in Registros : r[x] < Modulo(x)}

\* An instruction as it is read from a stream, and an execution context.
EsInstruccion(i) ==
  /\ i = [codigo |-> i.codigo, parametros |-> i.parametros]
  /\ i.codigo \in Codigos \cup {"NULO"}
  /\ i.parametros = [k \in 1..cantidad_parametros_instruccion(i.codigo) |-> i.parametros[k]]
EsCde(c) ==
  /\ c = [pid |-> c.pid, motivo_desalojo |-> c.motivo_desalojo, registros |-> c.registros,
          ultima_instruccion |-> c.ultima_instruccion]
  /\ c.pid \in Procesos /\ c.registros \in Banco /\ EsInstruccion(c.ultima_instruccion)

\* A function on 1..n is a sequence.
LEMMA SecuenciaDe ==
  ASSUME NEW n \in Nat, NEW s, s = [k \in 1..n |-> s[k]]
  PROVE  \E V : s \in Seq(V) /\ Len(s) = n /\ s \in [1..n -> V]
<1> DEFINE V == {s[k] : k \in 1..n}
<1>1. s \in [1..n -> V]
  OBVIOUS
<1>2. s \in Seq(V) /\ Len(s) = n
  BY <1>1
<1> QED BY <1>1, <1>2

LEMMA CantidadNatural ==
  ASSUME NEW c
  PROVE  cantidad_parametros_instruccion(c) \in Nat
BY DEF cantidad_parametros_instruccion

\* buffer_write_instruccion and buffer_read_instruccion: what comes out is
\* the code and the parameters the code has.
LEMMA InstruccionViaja ==
  ASSUME NEW i, NEW V, i.parametros \in Seq(V),
         cantidad_parametros_instruccion(i.codigo) <= Len(i.parametros)
  PROVE  buffer_read_instruccion(buffer_write_instruccion(i)) =
           [codigo |-> i.codigo,
            parametros |-> [k \in 1..cantidad_parametros_instruccion(i.codigo) |-> i.parametros[k]]]
<1> DEFINE W == V \cup {i.codigo}
           ps == i.parametros
           s == <<i.codigo>> \o ps
           n == cantidad_parametros_instruccion(i.codigo)
<1>1. <<i.codigo>> \in Seq(W) /\ ps \in Seq(W) /\ Len(<<i.codigo>>) = 1 /\ Len(ps) \in Nat
  BY SeqMonotonic
<1>2. n \in Nat
  BY CantidadNatural
<1>3. /\ s \in Seq(W) /\ Len(s) = 1 + Len(ps)
      /\ \A j \in 1..(1 + Len(ps)) : s[j] = IF j <= 1 THEN <<i.codigo>>[j] ELSE ps[j - 1]
  BY <1>1, ConcatProperties
<1> HIDE DEF s
<1>4. s[1] = i.codigo
  BY <1>1, <1>3
<1>5. \A j \in 1..n : s[j + 1] = ps[j]
  BY <1>1, <1>2, <1>3
<1>6. SubSeq(s, 2, 1 + n) = [k \in 1..n |-> ps[k]]
  <2>1. \A j \in 2..(1 + n) : s[j] \in W
    BY <1>1, <1>2, <1>3
  <2>2. /\ SubSeq(s, 2, 1 + n) \in Seq(W)
        /\ Len(SubSeq(s, 2, 1 + n)) = n
        /\ \A j \in 1..n : SubSeq(s, 2, 1 + n)[j] = s[j + 1]
    BY <1>2, <2>1, SubSeqProperties, SMTT(30)
  <2> QED BY <1>2, <1>5, <2>2
<1> QED BY <1>4, <1>6 DEF buffer_read_instruccion, buffer_write_instruccion, s

\* What was read can be written and read again.
LEMMA InstruccionVuelve ==
  ASSUME NEW i, EsInstruccion(i)
  PROVE  /\ buffer_read_instruccion(buffer_write_instruccion(i)) = i
         /\ \E W : /\ buffer_write_instruccion(i) \in Seq(W)
                   /\ Len(buffer_write_instruccion(i)) \in Nat
<1> DEFINE n == cantidad_parametros_instruccion(i.codigo)
<1>1. n \in Nat
  BY CantidadNatural
<1>2. PICK V : i.parametros \in Seq(V) /\ Len(i.parametros) = n
  BY <1>1, SecuenciaDe DEF EsInstruccion
<1>3. buffer_read_instruccion(buffer_write_instruccion(i)) =
        [codigo |-> i.codigo, parametros |-> [k \in 1..n |-> i.parametros[k]]]
  BY <1>1, <1>2, InstruccionViaja
<1>4. buffer_read_instruccion(buffer_write_instruccion(i)) = i
  BY <1>3 DEF EsInstruccion
<1> DEFINE W == V \cup {i.codigo}
<1>5. <<i.codigo>> \in Seq(W) /\ i.parametros \in Seq(W)
  BY <1>2, SeqMonotonic
<1>6. buffer_write_instruccion(i) \in Seq(W)
  BY <1>5, ConcatProperties DEF buffer_write_instruccion
<1> QED BY <1>4, <1>6

\* There are eleven registers, all of them in the order they travel.
LEMMA OnceRegistros == Cardinality(Registros) = 11
<1> DEFINE f == [k \in 1..11 |-> OrdenLeido[k]]
<1>1. \A k \in 1..11 : f[k] \in Registros
  BY DEF OrdenLeido, Registros, Registros8
<1>2. \A j, k \in 1..11 : f[j] = f[k] => j = k
  BY DEF OrdenLeido
<1>3. \A x \in Registros : \E k \in 1..11 : f[k] = x
  <2> SUFFICES ASSUME NEW x \in Registros PROVE \E k \in 1..11 : OrdenLeido[k] = x
    OBVIOUS
  <2>1. /\ OrdenLeido[1] = "AX" /\ OrdenLeido[2] = "BX" /\ OrdenLeido[3] = "CX"
        /\ OrdenLeido[4] = "DX" /\ OrdenLeido[5] = "EAX" /\ OrdenLeido[6] = "EBX"
        /\ OrdenLeido[7] = "ECX" /\ OrdenLeido[8] = "EDX" /\ OrdenLeido[9] = "PC"
        /\ OrdenLeido[10] = "DI" /\ OrdenLeido[11] = "SI"
    BY DEF OrdenLeido
  <2> QED BY <2>1 DEF Registros, Registros8
<1>4. f \in Bijection(1..11, Registros)
  BY <1>1, <1>2, <1>3 DEF Bijection, Injection, Surjection, IsInjective
<1> QED BY <1>4, FS_CountingElements DEF ExistsBijection

\* buffer_write_registros and buffer_read_registros: each register comes back
\* to its place.
LEMMA RegistrosViajan ==
  ASSUME NEW r \in Banco
  PROVE  /\ buffer_write_registros(r) \in Seq(Nat) /\ Len(buffer_write_registros(r)) = 11
         /\ buffer_read_registros(buffer_write_registros(r)) = r
<1> DEFINE s == buffer_write_registros(r)
           lugar(x) == CHOOSE k \in DOMAIN OrdenLeido : OrdenLeido[k] = x
<1>1. r \in [Registros -> Nat]
  BY DEF Banco
<1>2. s \in Seq(Nat) /\ Len(s) = 11
  BY <1>1 DEF buffer_write_registros, Registros, Registros8
<1>3. DOMAIN OrdenLeido = 1..11
  BY DEF OrdenLeido
<1>4. \A x \in Registros : s[lugar(x)] = r[x]
  <2> SUFFICES ASSUME NEW x \in Registros PROVE s[lugar(x)] = r[x]
    OBVIOUS
  <2>1. \E k \in 1..11 : OrdenLeido[k] = x
    <3>1. /\ OrdenLeido[1] = "AX" /\ OrdenLeido[2] = "BX" /\ OrdenLeido[3] = "CX"
          /\ OrdenLeido[4] = "DX" /\ OrdenLeido[5] = "EAX" /\ OrdenLeido[6] = "EBX"
          /\ OrdenLeido[7] = "ECX" /\ OrdenLeido[8] = "EDX" /\ OrdenLeido[9] = "PC"
          /\ OrdenLeido[10] = "DI" /\ OrdenLeido[11] = "SI"
      BY DEF OrdenLeido
    <3> QED BY <3>1 DEF Registros, Registros8
  <2>2. lugar(x) \in 1..11 /\ OrdenLeido[lugar(x)] = x
    BY <1>3, <2>1
  <2> HIDE DEF lugar
  <2>3. PICK k \in 1..11 : k = lugar(x) /\ OrdenLeido[k] = x
    BY <2>2
  <2>4. s[k] = r[x]
    BY <2>3 DEF OrdenLeido, buffer_write_registros
  <2> QED BY <2>3, <2>4
<1>5. buffer_read_registros(s) = r
  BY <1>1, <1>4 DEF buffer_read_registros
<1> QED BY <1>2, <1>5

\* One stream after another.
Unir(s, t) == s \o t
LEMMA Unidas ==
  ASSUME NEW S, NEW s \in Seq(S), NEW t \in Seq(S)
  PROVE  /\ Unir(s, t) \in Seq(S) /\ Len(Unir(s, t)) = Len(s) + Len(t)
         /\ \A j \in 1..(Len(s) + Len(t)) :
              Unir(s, t)[j] = IF j <= Len(s) THEN s[j] ELSE t[j - Len(s)]
BY ConcatProperties DEF Unir

\* The three parts of a context in a stream.
Partes(s, a, r, i) ==
  s[1] = a[1] /\ s[2] = a[2] /\ SubSeq(s, 3, 13) = r /\ SubSeq(s, 14, Len(s)) = i
LEMMA TresPartes ==
  ASSUME NEW X, NEW a \in Seq(X), Len(a) = 2, NEW r \in Seq(X), Len(r) = 11, NEW i \in Seq(X)
  PROVE  Partes(Unir(Unir(a, r), i), a, r, i)
<1> DEFINE b == Unir(a, r)
           s == Unir(b, i)
<1>2. /\ b \in Seq(X) /\ Len(b) = Len(a) + Len(r)
      /\ \A j \in 1..(Len(a) + Len(r)) : b[j] = IF j <= Len(a) THEN a[j] ELSE r[j - Len(a)]
  BY Unidas
<1> HIDE DEF b
<1>3. Len(b) = 13 /\ b[1] = a[1] /\ b[2] = a[2] /\ \A j \in 3..13 : b[j] = r[j - 2]
  BY <1>2
<1>4. b \in Seq(X)
  BY <1>2
<1>5. /\ s \in Seq(X) /\ Len(s) = Len(b) + Len(i)
      /\ \A j \in 1..(Len(b) + Len(i)) : s[j] = IF j <= Len(b) THEN b[j] ELSE i[j - Len(b)]
  BY <1>4, Unidas
<1> HIDE DEF s
<1>6. Len(i) \in Nat
  OBVIOUS
<1>7. /\ Len(s) = 13 + Len(i) /\ s[1] = a[1] /\ s[2] = a[2]
      /\ \A j \in 3..13 : s[j] = r[j - 2]
      /\ \A j \in 14..(13 + Len(i)) : s[j] = i[j - 13]
  BY <1>3, <1>5, <1>6, SMTT(30)
<1>8. SubSeq(s, 3, 13) = r
  <2>1. \A j \in 3..13 : s[j] \in X
    BY <1>5, <1>6, <1>7
  <2> DEFINE t == SubSeq(s, 3, 13)
  <2>2. t \in Seq(X) /\ Len(t) = 11 /\ \A j \in 1..(13 - 3 + 1) : t[j] = s[3 + j - 1]
    BY <2>1, SubSeqProperties
  <2> HIDE DEF t
  <2>3. \A j \in 1..11 : t[j] = r[j]
    <3> TAKE j \in 1..11
    <3>1. PICK k : k = 3 + j - 1
      OBVIOUS
    <3>2. k \in 3..13 /\ k - 2 = j /\ j \in 1..(13 - 3 + 1)
      BY <3>1
    <3> QED BY <1>7, <2>2, <3>1, <3>2
  <2>4. t = r
    BY <2>2, <2>3, SeqEqual
  <2> QED BY <2>4 DEF t
<1>9. SubSeq(s, 14, Len(s)) = i
  <2>1. PICK n \in Nat : n = Len(i) /\ Len(s) = 13 + n
    BY <1>6, <1>7
  <2>2. \A j \in 14..(13 + n) : s[j] \in X
    BY <1>5, <1>7, <2>1
  <2> DEFINE t == SubSeq(s, 14, 13 + n)
  <2>3. /\ t \in Seq(X) /\ Len(t) = IF 14 <= 13 + n THEN 13 + n - 14 + 1 ELSE 0
        /\ \A j \in 1..(13 + n - 14 + 1) : t[j] = s[14 + j - 1]
    BY <2>2, SubSeqProperties
  <2> HIDE DEF t
  <2>4. Len(t) = n /\ \A j \in 1..n : t[j] = i[j]
    BY <1>7, <2>1, <2>3
  <2>5. t = i
    BY <2>1, <2>3, <2>4, SeqEqual
  <2> QED BY <2>1, <2>5 DEF t
<1>10. Partes(s, a, r, i)
  BY <1>7, <1>8, <1>9 DEF Partes
<1> QED BY <1>10 DEF b, s

\* buffer_write_cde and buffer_read_cde: the context the Kernel saves is the
\* one it sends, and the one the CPU had.
LEMMA CdeViaja ==
  ASSUME NEW c, EsCde(c)
  PROVE  buffer_read_cde(buffer_write_cde(c)) = c
<1>1. PICK r : /\ r = buffer_write_registros(c.registros) /\ r \in Seq(Nat) /\ Len(r) = 11
               /\ buffer_read_registros(r) = c.registros
  BY RegistrosViajan DEF EsCde
<1>2. PICK W, i : /\ i = buffer_write_instruccion(c.ultima_instruccion)
                  /\ i \in Seq(W)
                  /\ buffer_read_instruccion(i) = c.ultima_instruccion
  BY InstruccionVuelve DEF EsCde
<1>3. PICK x, y : x = c.pid /\ y = c.motivo_desalojo
  OBVIOUS
<1>4. PICK X : W \cup Nat \subseteq X /\ x \in X /\ y \in X
  <2>1. W \cup Nat \subseteq W \cup Nat \cup {x, y}
    OBVIOUS
  <2> QED BY <2>1
<1>5. r \in Seq(X) /\ i \in Seq(X)
  BY <1>1, <1>2, <1>4, SeqMonotonic
<1>0. PICK a \in Seq(X) : a = <<x, y>> /\ Len(a) = 2 /\ a[1] = x /\ a[2] = y
  <2>1. <<x, y>> \in Seq(X) /\ Len(<<x, y>>) = 2 /\ <<x, y>>[1] = x /\ <<x, y>>[2] = y
    BY <1>4
  <2> QED BY <2>1
<1>10. PICK s : s = Unir(Unir(a, r), i)
  OBVIOUS
<1>6. /\ s[1] = x /\ s[2] = y
      /\ SubSeq(s, 3, 13) = r /\ SubSeq(s, 14, Len(s)) = i
  <2>1. r \in Seq(X) /\ Len(r) = 11 /\ i \in Seq(X) /\ a \in Seq(X) /\ Len(a) = 2
    BY <1>0, <1>1, <1>5
  <2>2. Partes(Unir(Unir(a, r), i), a, r, i)
    BY <2>1, TresPartes
  <2> QED BY <1>0, <1>10, <2>2 DEF Partes
<1>7. 2 + Cardinality(Registros) = 13 /\ 3 + Cardinality(Registros) = 14
  BY OnceRegistros
<1>8. buffer_read_cde(s) = [pid |-> x, motivo_desalojo |-> y,
                            registros |-> c.registros, ultima_instruccion |-> c.ultima_instruccion]
  BY <1>1, <1>2, <1>6, <1>7 DEF buffer_read_cde
<1>9. s = buffer_write_cde(c)
  <2>1. buffer_write_cde(c) = Unir(Unir(<<c.pid, c.motivo_desalojo>>,
                                        buffer_write_registros(c.registros)),
                                   buffer_write_instruccion(c.ultima_instruccion))
    BY DEF buffer_write_cde, Unir
  <2> QED BY <1>0, <1>1, <1>2, <1>3, <1>10, <2>1
<1> QED BY <1>3, <1>8, <1>9 DEF EsCde

(***************************************************************************)
(* Registers.                                                              *)
(***************************************************************************)

LEMMA Restos ==
  ASSUME NEW m \in Nat \ {0}
  PROVE  /\ \A x \in Int : x % m \in 0..(m - 1)
         /\ \A k \in 0..(m - 1) : k % m = k
         /\ \A k \in 0..(m - 1) : (((k + 1) % m) - 1) % m = k
         /\ \A k \in 0..(m - 1) : (((k - 1) % m) + 1) % m = k
<1>1. \A x \in Int : x % m \in 0..(m - 1)
  OBVIOUS
<1>2. \A k \in 0..(m - 1) : k % m = k
  OBVIOUS
<1>3. m % m = 0 /\ (-1) % m = m - 1
  OBVIOUS
<1>4. \A k \in 0..(m - 1) : (((k + 1) % m) - 1) % m = k
  <2> TAKE k \in 0..(m - 1)
  <2>1. CASE k + 1 = m
    BY <1>3, <2>1
  <2>2. CASE k + 1 # m
    BY <1>2, <2>2
  <2> QED BY <2>1, <2>2
<1>5. \A k \in 0..(m - 1) : (((k - 1) % m) + 1) % m = k
  <2> TAKE k \in 0..(m - 1)
  <2>1. CASE k = 0
    BY <1>3, <2>1
  <2>2. CASE k # 0
    BY <1>2, <2>2
  <2> QED BY <2>1, <2>2
<1> QED BY <1>1, <1>2, <1>4, <1>5

LEMMA Anchos ==
  /\ \A x \in Registros : Modulo(x) \in Nat \ {0}
  /\ Modulo("PC") = Mod32 /\ "PC" \in Registros
BY ModuloAssumption DEF Modulo, Registros, Registros8

\* Every write has the width of its register (the uint8_t and uint32_t of
\* t_registros_cpu), and is to that register only.
LEMMA Escrito ==
  ASSUME NEW r \in Banco, NEW x \in Registros, NEW v \in Int
  PROVE  /\ Escribir(r, x, v) \in Banco
         /\ Escribir(r, x, v)["PC"] = IF x = "PC" THEN v % Mod32 ELSE r["PC"]
<1>1. r \in [Registros -> Nat] /\ \A y \in Registros : r[y] < Modulo(y)
  BY DEF Banco
<1>2. v % Modulo(x) \in Nat /\ v % Modulo(x) < Modulo(x)
  <2>1. PICK m \in Nat \ {0} : m = Modulo(x)
    BY Anchos
  <2>2. v % m \in 0..(m - 1)
    BY Restos
  <2> QED BY <2>1, <2>2
<1>3. Escribir(r, x, v) = [r EXCEPT ![x] = v % Modulo(x)]
  BY DEF Escribir
<1>4. Escribir(r, x, v) \in [Registros -> Nat]
  BY <1>1, <1>2, <1>3
<1>5. \A y \in Registros : Escribir(r, x, v)[y] = IF y = x THEN v % Modulo(x) ELSE r[y]
  BY <1>1, <1>3
<1> QED BY <1>1, <1>2, <1>4, <1>5, Anchos DEF Banco

\* What SinTerminar takes back from the PC.
Atras(r) == [r EXCEPT !["PC"] = (@ - 1) % Mod32]

\* The fetch moves the PC and Atras takes it back.
LEMMA IdaYVuelta ==
  ASSUME NEW r \in Banco
  PROVE  /\ r["PC"] \in 0..(Mod32 - 1)
         /\ Avanzar(r) \in Banco /\ Atras(r) \in Banco
         /\ Avanzar(r)["PC"] = (r["PC"] + 1) % Mod32
         /\ Avanzar(Atras(r)) = r /\ Atras(Avanzar(r)) = r
<1>1. r \in [Registros -> Nat] /\ r["PC"] \in 0..(Mod32 - 1)
  BY Anchos DEF Banco
<1>2. Atras(r) = Escribir(r, "PC", r["PC"] - 1)
  BY Anchos DEF Atras, Escribir
<1>3. Avanzar(r) \in Banco /\ Atras(r) \in Banco
  BY <1>1, <1>2, Escrito, Anchos DEF Avanzar
<1>4. Avanzar(r)["PC"] = (r["PC"] + 1) % Mod32
  <2>1. Escribir(r, "PC", r["PC"] + 1)["PC"] = (r["PC"] + 1) % Mod32
    <3>1. r["PC"] + 1 \in Int
      BY <1>1
    <3> QED BY <3>1, Escrito, Anchos
  <2> QED BY <2>1 DEF Avanzar
<1>5. Atras(r)["PC"] = (r["PC"] - 1) % Mod32
  <2>1. Escribir(r, "PC", r["PC"] - 1)["PC"] = (r["PC"] - 1) % Mod32
    <3>1. r["PC"] - 1 \in Int
      BY <1>1
    <3> QED BY <3>1, Escrito, Anchos
  <2> QED BY <1>2, <2>1
<1>6. Mod32 \in Nat \ {0}
  BY ModuloAssumption
<1>7. Avanzar(Atras(r)) = r
  <2>1. Avanzar(Atras(r)) = [Atras(r) EXCEPT !["PC"] = (((r["PC"] - 1) % Mod32) + 1) % Mod32]
    BY <1>5, Anchos DEF Avanzar, Escribir
  <2>2. (((r["PC"] - 1) % Mod32) + 1) % Mod32 = r["PC"]
    BY <1>1, <1>6, Restos
  <2> QED BY <1>1, <2>1, <2>2 DEF Atras
<1>8. Atras(Avanzar(r)) = r
  <2>1. Atras(Avanzar(r)) = [Avanzar(r) EXCEPT !["PC"] = (((r["PC"] + 1) % Mod32) - 1) % Mod32]
    BY <1>4 DEF Atras
  <2>2. (((r["PC"] + 1) % Mod32) - 1) % Mod32 = r["PC"]
    BY <1>1, <1>6, Restos
  <2> QED BY <1>1, <2>1, <2>2 DEF Avanzar, Escribir
<1> QED BY <1>1, <1>3, <1>4, <1>7, <1>8

\* The parameters of an instruction that Memoria read.
Escrita(i) ==
  /\ EsInstruccion(i)
  /\ \A k \in 1..cantidad_parametros_instruccion(i.codigo) :
       i.parametros[k] \in [nombre : STRING, valor : Int]
Salta(i) == i.codigo = "JNZ" \/ (i.codigo = "SET" /\ i.parametros[1].nombre = "PC")

LEMMA Leido ==
  ASSUME NEW r \in Banco, NEW x
  PROVE  buscar_valor_registro(r, x) \in Nat
BY DEF buscar_valor_registro, Banco

LEMMA Operado ==
  ASSUME NEW r \in Banco, NEW x, NEW u \in Int, NEW v \in Int
  PROVE  Operar(r, x, u, v) \in Banco /\ Operar(r, x, u, v)["PC"] = r["PC"]
<1>1. CASE x \in {"SI", "DI"}
  <2>1. x \in Registros /\ x # "PC"
    BY <1>1 DEF Registros
  <2> QED BY <1>1, <2>1, Escrito DEF Operar
<1>2. CASE x \notin {"SI", "DI"} /\ x \in Registros \ {"PC"}
  BY <1>2, Escrito DEF Operar
<1>3. CASE x \notin {"SI", "DI"} /\ x \notin Registros \ {"PC"}
  BY <1>3 DEF Operar
<1> QED BY <1>1, <1>2, <1>3

\* ejecutar_instruccion leaves a bank of registers, and only SET of the PC
\* and JNZ move the PC.
LEMMA Efectos ==
  ASSUME NEW r \in Banco, NEW i, Escrita(i)
  PROVE  /\ Efecto(r, i) \in Banco
         /\ \/ Efecto(r, i)["PC"] = r["PC"]
            \/ Salta(i) /\ Efecto(r, i)["PC"] = i.parametros[2].valor % Mod32
<1> DEFINE x == i.parametros[1].nombre
           y == i.parametros[2].nombre
           v == i.parametros[2].valor
<1>1. i.codigo \in {"SET", "SUM", "SUB", "JNZ"} => v \in Int
  BY DEF Escrita, cantidad_parametros_instruccion
<1>2. CASE i.codigo = "SET"
  <2>1. Efecto(r, i) = ejecutar_set(r, x, v)
    BY <1>2 DEF Efecto
  <2>2. CASE x \in Registros
    BY <1>1, <1>2, <2>1, <2>2, Escrito DEF ejecutar_set, Salta
  <2>3. CASE x \notin Registros
    BY <2>1, <2>3 DEF ejecutar_set
  <2> QED BY <2>2, <2>3
<1>3. CASE i.codigo = "SUM"
  <2>1. Efecto(r, i) = ejecutar_sum(r, x, y)
    BY <1>3 DEF Efecto
  <2>2. buscar_valor_registro(r, y) \in Int
        /\ buscar_valor_registro(r, x) + buscar_valor_registro(r, y) \in Int
    BY Leido
  <2> QED BY <2>1, <2>2, Operado DEF ejecutar_sum
<1>4. CASE i.codigo = "SUB"
  <2>1. Efecto(r, i) = ejecutar_sub(r, x, y)
    BY <1>4 DEF Efecto
  <2>2. buscar_valor_registro(r, y) \in Int
        /\ buscar_valor_registro(r, x) - buscar_valor_registro(r, y) \in Int
    BY Leido
  <2> QED BY <2>1, <2>2, Operado DEF ejecutar_sub
<1>5. CASE i.codigo = "JNZ"
  <2>1. Efecto(r, i) = ejecutar_jnz(r, x, v)
    BY <1>5 DEF Efecto
  <2>2. CASE buscar_valor_registro(r, x) # 0
    BY <1>1, <1>5, <2>1, <2>2, Escrito, Anchos DEF ejecutar_jnz, Salta
  <2>3. CASE buscar_valor_registro(r, x) = 0
    BY <2>1, <2>3 DEF ejecutar_jnz
  <2> QED BY <2>2, <2>3
<1>6. CASE i.codigo \notin {"SET", "SUM", "SUB", "JNZ"}
  <2>1. Efecto(r, i) = r
    BY <1>6 DEF Efecto
  <2> QED BY <2>1
<1> QED BY <1>2, <1>3, <1>4, <1>5, <1>6

(***************************************************************************)
(* Instructions.                                                           *)
(***************************************************************************)

\* What Memoria answers to a PC inside the program: an instruction with its
\* parameters, that either ends the process or leaves it inside.
LEMMA Pedido ==
  ASSUME NEW p \in Procesos, NEW pc \in Nat, pc < Len(Cargadas[p])
  PROVE  LET i == Pedida(p, pc) IN
         /\ Escrita(i)
         /\ Len(Cargadas[p]) \in 1..Mod32
         /\ i.codigo # "EXIT" => pc + 1 < Len(Cargadas[p])
         /\ Salta(i) => i.parametros[2].valor % Mod32 < Len(Cargadas[p])
<1> DEFINE P == Seq([nombre : STRING, valor : Int])
           I == [codigo : Codigos \cup {"NULO"}, parametros : P]
<1>1. PICK n : n = Len(Cargadas[p])
  OBVIOUS
<1>2. PICK s \in Seq(I) : s = Cargadas[p] /\ Len(s) = n
  BY <1>1, TextosAssumption
<1>3. n \in 1..Mod32 /\ s[n].codigo = "EXIT"
  BY <1>1, <1>2, TextosAssumption
<1>4. PICK k \in 1..n : k = pc + 1
  BY <1>1, <1>3
<1>5. PICK j \in I : j = s[k]
  <2> HIDE DEF I
  <2>1. s[k] \in I
    BY <1>2, <1>4, ElementOfSeq
  <2> QED BY <2>1
<1>6. /\ Len(j.parametros) >= cantidad_parametros_instruccion(j.codigo)
      /\ Salta(j) => j.parametros[2].valor % Mod32 < n
  BY <1>1, <1>2, <1>4, <1>5, TextosAssumption DEF Salta
<1>7. j.parametros \in P /\ j.codigo \in Codigos \cup {"NULO"}
  BY <1>5
<1>8. PICK c \in Nat : c = cantidad_parametros_instruccion(j.codigo)
  BY CantidadNatural
<1>9. Pedida(p, pc) = [codigo |-> j.codigo, parametros |-> [l \in 1..c |-> j.parametros[l]]]
  <2>1. buffer_read_instruccion(buffer_write_instruccion(j)) =
          [codigo |-> j.codigo,
           parametros |-> [l \in 1..cantidad_parametros_instruccion(j.codigo) |-> j.parametros[l]]]
    <3>1. cantidad_parametros_instruccion(j.codigo) <= Len(j.parametros)
      BY <1>6, <1>7, CantidadNatural
    <3> QED BY <1>7, <3>1, InstruccionViaja
  <2> QED BY <1>2, <1>4, <1>5, <1>8, <2>1 DEF Pedida
<1>10. PICK i : i = Pedida(p, pc)
  OBVIOUS
<1>11. i.codigo = j.codigo /\ i.parametros = [l \in 1..c |-> j.parametros[l]]
  BY <1>9, <1>10
<1>12. c <= Len(j.parametros) /\ Len(j.parametros) \in Nat
  BY <1>6, <1>7, <1>8
<1>13. \A l \in 1..c : /\ i.parametros[l] = j.parametros[l]
                       /\ i.parametros[l] \in [nombre : STRING, valor : Int]
  <2> TAKE l \in 1..c
  <2>1. l \in 1..Len(j.parametros)
    BY <1>8, <1>12
  <2>2. j.parametros[l] \in [nombre : STRING, valor : Int]
    <3> DEFINE R == [nombre : STRING, valor : Int]
    <3> HIDE DEF R
    <3>1. j.parametros \in Seq(R)
      BY <1>7 DEF R
    <3>2. j.parametros[l] \in R
      BY <2>1, <3>1, ElementOfSeq
    <3> QED BY <3>2 DEF R
  <2> QED BY <1>11, <2>2
<1>14. EsInstruccion(i)
  <2>1. i = [codigo |-> i.codigo, parametros |-> i.parametros]
    BY <1>9, <1>10
  <2>2. i.parametros = [l \in 1..c |-> i.parametros[l]]
    BY <1>11, <1>13
  <2> QED BY <1>7, <1>8, <1>11, <2>1, <2>2 DEF EsInstruccion
<1>15. Escrita(i)
  BY <1>8, <1>11, <1>13, <1>14 DEF Escrita
<1>16. i.codigo # "EXIT" => pc + 1 < n
  BY <1>3, <1>4, <1>5, <1>11
<1>17. Salta(i) => i.parametros[2].valor % Mod32 < n
  <2>1. Salta(i) => c = 2
    BY <1>8, <1>11 DEF Salta, cantidad_parametros_instruccion
  <2>2. Salta(i) => i.parametros[1] = j.parametros[1] /\ i.parametros[2] = j.parametros[2]
    <3>1. ASSUME c = 2 PROVE i.parametros[1] = j.parametros[1] /\ i.parametros[2] = j.parametros[2]
      BY <1>11, <3>1
    <3> QED BY <2>1, <3>1
  <2> QED BY <1>6, <1>11, <2>2 DEF Salta
<1> QED BY <1>1, <1>3, <1>10, <1>15, <1>16, <1>17

\* The registers among the parameters of an I/O request become numbers: it
\* is still an instruction, and the PC has no part in it.
LEMMA Resueltas ==
  ASSUME NEW p, NEW r, NEW i, EsInstruccion(i)
  PROVE  /\ EsInstruccion(Resuelta(p, r, i))
         /\ Resuelta(p, r, i).codigo = i.codigo
         /\ i.codigo \notin DeIO => Resuelta(p, r, i) = i
<1> DEFINE n == cantidad_parametros_instruccion(i.codigo)
           otros(ps) == [codigo |-> i.codigo, parametros |-> ps]
<1>1. i = otros(i.parametros) /\ DOMAIN i.parametros = 1..n
  BY DEF EsInstruccion
<1>2. \E ps : /\ Resuelta(p, r, i) = otros(ps) /\ ps = [k \in 1..n |-> ps[k]]
              /\ i.codigo \notin DeIO => ps = i.parametros
  <2> DEFINE v(k) == buscar_valor_registro(r, i.parametros[k].nombre)
             nuevos(fisicas, valores) ==
               [k \in 1..n |-> CASE k \in fisicas -> Numero(DirFisica(p, v(k)))
                                 [] k \in valores -> Numero(v(k))
                                 [] OTHER -> i.parametros[k]]
  <2>1. \A A, B : [i EXCEPT !.parametros =
                     [k \in DOMAIN @ |-> CASE k \in A -> Numero(DirFisica(p, v(k)))
                                           [] k \in B -> Numero(v(k))
                                           [] OTHER -> @[k]]] = otros(nuevos(A, B))
    <3>1. \A ps : [i EXCEPT !.parametros = ps] = otros(ps)
      BY <1>1
    <3>2. \A A, B : [k \in DOMAIN i.parametros |-> CASE k \in A -> Numero(DirFisica(p, v(k)))
                                           [] k \in B -> Numero(v(k))
                                           [] OTHER -> i.parametros[k]] = nuevos(A, B)
      BY <1>1
    <3> QED BY <3>1, <3>2
  <2>2. CASE i.codigo \in {"IO_STDIN_READ", "IO_STDOUT_WRITE"}
    <3>1. Resuelta(p, r, i) = otros(nuevos({2}, {3}))
      BY <2>1, <2>2 DEF Resuelta
    <3>2. nuevos({2}, {3}) = [k \in 1..n |-> nuevos({2}, {3})[k]]
      OBVIOUS
    <3> QED BY <2>2, <3>1, <3>2 DEF DeIO
  <2>3. CASE i.codigo = "IO_FS_TRUNCATE"
    <3>1. Resuelta(p, r, i) = otros(nuevos({}, {3}))
      BY <2>1, <2>3 DEF Resuelta
    <3>2. nuevos({}, {3}) = [k \in 1..n |-> nuevos({}, {3})[k]]
      OBVIOUS
    <3> QED BY <2>3, <3>1, <3>2 DEF DeIO
  <2>4. CASE i.codigo \in {"IO_FS_WRITE", "IO_FS_READ"}
    <3>1. Resuelta(p, r, i) = otros(nuevos({3}, {4, 5}))
      BY <2>1, <2>4 DEF Resuelta
    <3>2. nuevos({3}, {4, 5}) = [k \in 1..n |-> nuevos({3}, {4, 5})[k]]
      OBVIOUS
    <3> QED BY <2>4, <3>1, <3>2 DEF DeIO
  <2>5. CASE i.codigo \notin {"IO_STDIN_READ", "IO_STDOUT_WRITE", "IO_FS_TRUNCATE", "IO_FS_WRITE",
                              "IO_FS_READ"}
    <3>1. Resuelta(p, r, i) = i
      BY <2>5 DEF Resuelta
    <3> QED BY <1>1, <3>1 DEF EsInstruccion
  <2> QED BY <2>2, <2>3, <2>4, <2>5
<1> QED BY <1>1, <1>2 DEF EsInstruccion

LEMMA ResueltaSinPC ==
  ASSUME NEW p, NEW r \in Banco, NEW i
  PROVE  /\ Resuelta(p, Avanzar(r), i) = Resuelta(p, r, i)
         /\ Resuelta(p, Atras(r), i) = Resuelta(p, r, i)
<1>1. \A x : /\ buscar_valor_registro(Avanzar(r), x) = buscar_valor_registro(r, x)
             /\ buscar_valor_registro(Atras(r), x) = buscar_valor_registro(r, x)
  BY DEF buscar_valor_registro, Avanzar, Atras, Escribir, Banco
<1>2. ASSUME NEW q, \A x : buscar_valor_registro(q, x) = buscar_valor_registro(r, x)
      PROVE  Resuelta(p, q, i) = Resuelta(p, r, i)
  BY <1>2 DEF Resuelta
<1> QED BY <1>1, <1>2

(***************************************************************************)
(* The inductive invariant.                                                *)
(***************************************************************************)

\* Why a context may come back, as far as its last instruction tells.
Exigidos(motivo) ==
  CASE motivo = "OUT_OF_MEMORY_ERROR" -> {"RESIZE"}
    [] motivo = "LLAMADA_IO" -> DeIO
    [] motivo = "FINALIZACION_EXIT" -> {"EXIT"}
    [] motivo \in {"RECURSO_INVALIDO", "RECURSO_NO_DISPONIBLE"} -> {"WAIT", "SIGNAL"}
    [] motivo = "FIN_DE_QUANTUM" -> (Codigos \cup {"NULO"}) \ (DeIO \cup {"EXIT"})
    [] OTHER -> Codigos \cup {"NULO"}
Propios == {"OUT_OF_MEMORY_ERROR", "LLAMADA_IO", "FINALIZACION_EXIT", "RECURSO_INVALIDO",
            "RECURSO_NO_DISPONIBLE"}
Coherente(c) ==
  /\ c.motivo_desalojo \in Propios \cup {"INTERRUPCION", "FIN_DE_QUANTUM"}
  /\ c.ultima_instruccion.codigo \in Exigidos(c.motivo_desalojo)
  /\ c.motivo_desalojo = "INTERRUPCION" => pcb_en_ejecucion \in condenados

\* The CPU has the process, on its way there, and on its way back.
Ocupada == fase \in {"bucle", "fetch", "ejecuta", "pide", "devuelve"}
Corriendo ==
  /\ Ocupada /\ EsCde(cde_ejecutando)
  /\ cde_ejecutando.pid = pcb_en_ejecucion /\ pid_de_cde_ejecutando = pcb_en_ejecucion
  /\ IF fase # "pide" THEN aCpu = SinMensaje /\ aKernel = SinMensaje
     ELSE \/ /\ aKernel = SinMensaje
             /\ aCpu.tipo \in {"RECURSO_OK", "RECURSO_INEXISTENTE", "RECURSO_SIN_INSTANCIAS"}
          \/ aCpu = SinMensaje /\ aKernel.tipo = "RECURSO_SOLICITUD"
Yendo ==
  /\ ~Ocupada /\ aKernel = SinMensaje /\ ~corrio
  /\ aCpu = [tipo |-> "EJECUTAR_PROCESO", contenido |-> buffer_write_cde(cde[pcb_en_ejecucion])]
Volviendo ==
  /\ ~Ocupada /\ aCpu = SinMensaje /\ HayCde
  /\ EsCde(Recibido) /\ Recibido.pid = pcb_en_ejecucion /\ Coherente(Recibido)

Tipos ==
  /\ TypeOK
  /\ DOMAIN cde = Procesos /\ cde = [p \in Procesos |-> cde[p]]
  /\ \A p \in Procesos : EsCde(cde[p]) /\ cde[p].pid = p
  /\ interrupciones \in Seq([codigo : {"INTERRUPT", "DESALOJO"}, pid : Procesos])

Control ==
  /\ pcb_en_ejecucion \notin esperando \cup terminados /\ esperando \cap terminados = {}
  /\ IF pcb_en_ejecucion = Nulo THEN ~Ocupada /\ aCpu = SinMensaje /\ aKernel = SinMensaje
     ELSE Corriendo \/ Yendo \/ Volviendo

Limpia == ~interrupcion /\ ~realizar_desalojo /\ ~fin_q /\ manejador = Nulo

\* The flags belong to the turn, and what they lead to, to its instruction:
\* the I/O that ended the last turn is in sight until the first fetch, and the
\* clock alone does not end the turn then.
Turno ==
  /\ fase \in {"libre", "borra_instruccion"} => pid_de_cde_ejecutando = Nulo
  /\ fase \notin {"bucle", "fetch", "ejecuta", "pide"} => Limpia
  /\ realizar_desalojo => /\ fase = "bucle" /\ cde_ejecutando.motivo_desalojo \in Propios
                          /\ Coherente(cde_ejecutando) /\ corrio
  /\ fase \in {"ejecuta", "pide"} => corrio
  /\ fase = "bucle" /\ ~realizar_desalojo =>
       /\ cde_ejecutando.ultima_instruccion.codigo # "EXIT"
       /\ \/ cde_ejecutando.ultima_instruccion.codigo \notin DeIO
          \/ ~corrio /\ (fin_q => interrupcion)
  /\ fase = "devuelve" => Coherente(cde_ejecutando)
  /\ fase = "pide" => cde_ejecutando.ultima_instruccion.codigo \in {"WAIT", "SIGNAL"}

\* An interrupt that is not of the clock is for somebody the console named.
Ordenes ==
  /\ \A k \in DOMAIN interrupciones :
       interrupciones[k].codigo = "INTERRUPT" => interrupciones[k].pid \in condenados
  /\ manejador = "INTERRUPT" \/ interrupcion => pcb_en_ejecucion \in condenados

\* The instruction p is at, and what is known of it while it is not over.
Toca(p) == Pedida(p, Vistos(p)["PC"])
Programa(p) ==
  /\ Vistos(p)["PC"] < Len(Cargadas[p])
  /\ p \in esperando => Toca(p).codigo \in {"WAIT", "SIGNAL"}
  /\ Corre(p) /\ fase \in {"ejecuta", "pide"} => cde_ejecutando.ultima_instruccion = Toca(p)
  /\ Corre(p) /\ fase \in {"bucle", "devuelve"} /\ SinTerminar(p) =>
       cde_ejecutando.ultima_instruccion = Resuelta(p, Vistos(p), Toca(p))
  /\ Vuelve(p) /\ SinTerminar(p) => Recibido.ultima_instruccion = Resuelta(p, Vistos(p), Toca(p))
\* Nobody goes on after an EXIT.
Continua(p) == cde[p].ultima_instruccion.codigo # "EXIT"
Programas == \A p \in Procesos \ terminados : Programa(p) /\ Continua(p)

\* The inductive invariant.
IInv == Tipos /\ Control /\ Turno /\ Ordenes /\ Programas

(***************************************************************************)
(* What the invariant says of the process the CPU has.                     *)
(***************************************************************************)

\* Its instruction is not over, what it sees, and where it is.
EnMedio == \/ fase \in {"ejecuta", "pide"}
           \/ (realizar_desalojo \/ fase = "devuelve") /\ Cede(cde_ejecutando)
VistoCpu == IF EnMedio THEN Atras(registros_cpu) ELSE registros_cpu
Dentro(p) ==
  LET i == Pedida(p, VistoCpu["PC"]) IN
  /\ VistoCpu["PC"] < Len(Cargadas[p])
  /\ fase \in {"ejecuta", "pide"} => cde_ejecutando.ultima_instruccion = i
  /\ fase \in {"bucle", "devuelve"} /\ EnMedio =>
       cde_ejecutando.ultima_instruccion = Resuelta(p, VistoCpu, i)

LEMMA FasesOcupada ==
  /\ Ocupada <=> fase \in {"ejecuta", "pide"} \/ fase = "fetch" \/ fase \in {"bucle", "devuelve"}
  /\ \A p : Corre(p) <=> p = pcb_en_ejecucion /\ Ocupada
BY DEF Ocupada, Corre

\* The same for one that comes back.
VistoVuelta == IF Cede(Recibido) THEN Atras(Recibido.registros) ELSE Recibido.registros
Vuelto(p) ==
  /\ VistoVuelta["PC"] < Len(Cargadas[p])
  /\ Cede(Recibido) =>
       Recibido.ultima_instruccion = Resuelta(p, VistoVuelta, Pedida(p, VistoVuelta["PC"]))

\* What a process sees, and what is known of its program, by where it is.
SegunLugar ==
  \A p :
    /\ p # pcb_en_ejecucion \/ (~Ocupada /\ ~HayCde) =>
         /\ Vistos(p) = IF p \in terminados THEN Nuevos
                        ELSE IF p \in esperando THEN Atras(cde[p].registros)
                        ELSE cde[p].registros
         /\ Programa(p) <=> /\ Vistos(p)["PC"] < Len(Cargadas[p])
                            /\ p \in esperando => Toca(p).codigo \in {"WAIT", "SIGNAL"}
    /\ p = pcb_en_ejecucion /\ p \notin terminados /\ p \notin esperando =>
         /\ Ocupada /\ ~HayCde /\ EsCde(cde_ejecutando) =>
              Vistos(p) = VistoCpu /\ (Programa(p) <=> Dentro(p))
         /\ ~Ocupada /\ HayCde => Vistos(p) = VistoVuelta /\ (Programa(p) <=> Vuelto(p))

LEMMA VistosPorLugar == SegunLugar
<1> SUFFICES
      ASSUME NEW p
      PROVE
        /\ p # pcb_en_ejecucion \/ (~Ocupada /\ ~HayCde) =>
             /\ Vistos(p) = IF p \in terminados THEN Nuevos
                            ELSE IF p \in esperando THEN Atras(cde[p].registros)
                            ELSE cde[p].registros
             /\ Programa(p) <=> /\ Vistos(p)["PC"] < Len(Cargadas[p])
                                /\ p \in esperando => Toca(p).codigo \in {"WAIT", "SIGNAL"}
        /\ p = pcb_en_ejecucion /\ p \notin terminados /\ p \notin esperando =>
             /\ Ocupada /\ ~HayCde /\ EsCde(cde_ejecutando) =>
                  Vistos(p) = VistoCpu /\ (Programa(p) <=> Dentro(p))
             /\ ~Ocupada /\ HayCde => Vistos(p) = VistoVuelta /\ (Programa(p) <=> Vuelto(p))
  BY DEF SegunLugar
<1>1. ASSUME p # pcb_en_ejecucion \/ (~Ocupada /\ ~HayCde)
      PROVE  /\ Vistos(p) = IF p \in terminados THEN Nuevos
                            ELSE IF p \in esperando THEN Atras(cde[p].registros)
                            ELSE cde[p].registros
             /\ Programa(p) <=> /\ Vistos(p)["PC"] < Len(Cargadas[p])
                                /\ p \in esperando => Toca(p).codigo \in {"WAIT", "SIGNAL"}
  <2>1. ~Corre(p) /\ ~Vuelve(p)
    BY <1>1, FasesOcupada DEF Vuelve
  <2>2. SinTerminar(p) <=> p \in esperando
    BY <2>1 DEF SinTerminar
  <2>3. Contexto(p) = cde[p]
    BY <2>1 DEF Contexto
  <2> QED BY <2>1, <2>2, <2>3 DEF Vistos, Programa, Atras
<1>2. ASSUME p = pcb_en_ejecucion, p \notin terminados, p \notin esperando, Ocupada, ~HayCde,
             EsCde(cde_ejecutando)
      PROVE  Vistos(p) = VistoCpu /\ (Programa(p) <=> Dentro(p))
  <2>1. Corre(p) /\ ~Vuelve(p)
    BY <1>2, FasesOcupada DEF Vuelve
  <2>2. SinTerminar(p) <=> EnMedio
    BY <1>2, <2>1 DEF SinTerminar, EnMedio
  <2>3. Contexto(p).registros = registros_cpu
    <3>1. Contexto(p) = Guardados
      BY <2>1 DEF Contexto
    <3> QED BY <1>2, <3>1 DEF Guardados, EsCde
  <2>4. Vistos(p) = VistoCpu
    BY <1>2, <2>2, <2>3 DEF Vistos, VistoCpu, Atras
  <2> QED BY <1>2, <2>1, <2>2, <2>4 DEF Programa, Dentro, Toca
<1>3. ASSUME p = pcb_en_ejecucion, p \notin terminados, p \notin esperando, ~Ocupada, HayCde
      PROVE  Vistos(p) = VistoVuelta /\ (Programa(p) <=> Vuelto(p))
  <2>1. ~Corre(p) /\ Vuelve(p)
    BY <1>3, FasesOcupada DEF Vuelve
  <2>2. SinTerminar(p) <=> Cede(Recibido)
    BY <1>3, <2>1 DEF SinTerminar
  <2>3. Contexto(p) = Recibido
    BY <2>1 DEF Contexto
  <2>4. Vistos(p) = VistoVuelta
    BY <1>3, <2>2, <2>3 DEF Vistos, VistoVuelta, Atras
  <2> QED BY <1>3, <2>1, <2>2, <2>4 DEF Programa, Vuelto, Toca
<1> QED BY <1>1, <1>2, <1>3

LEMMA VistosPorLugarSig == SegunLugar'
BY VistosPorLugar, PTL

(***************************************************************************)
(* What a step does to the machines of the processes.                      *)
(***************************************************************************)

\* Nothing; one whole instruction; the end; the order of the console.
MismosVistos == \A q \in Procesos : Vistos(q)' = Vistos(q)
DemasIguales(p) == \A q \in Procesos \ {p} : Vistos(q)' = Vistos(q)
Nada == MismosVistos /\ UNCHANGED <<pedidos, terminados, condenados>>
Hace(p) ==
  /\ p \in Procesos \ terminados /\ Toca(p).codigo # "EXIT"
  /\ Vistos(p)' = Efecto(Avanzar(Vistos(p)), Toca(p)) /\ DemasIguales(p)
  /\ pedidos' = IF Toca(p).codigo \in DeIO
                THEN [pedidos EXCEPT ![p] = Append(@, Resuelta(p, Vistos(p), Toca(p)))]
                ELSE pedidos
  /\ UNCHANGED <<terminados, condenados>>
Acaba(p) ==
  /\ p \in Procesos \ terminados
  /\ p \in condenados \/ Toca(p).codigo \in {"EXIT", "RESIZE", "WAIT", "SIGNAL"}
  /\ Vistos(p)' = Nuevos /\ DemasIguales(p)
  /\ terminados' = terminados \cup {p}
  /\ UNCHANGED <<pedidos, condenados>>
Condena(p) ==
  /\ p \in Procesos /\ MismosVistos
  /\ condenados' = condenados \cup {p}
  /\ UNCHANGED <<pedidos, terminados>>
Avance == Nada \/ \E p \in Procesos : Hace(p) \/ Acaba(p) \/ Condena(p)

LEMMA NuevosBanco == Nuevos \in Banco /\ Nuevos["PC"] = 0
<1>1. Nuevos \in [Registros -> Nat] /\ \A x \in Registros : Nuevos[x] = 0
  BY DEF Nuevos
<1> QED BY <1>1, Anchos DEF Banco

\* Every process sees a bank of registers.
LEMMA CadaVistaEsBanco ==
  ASSUME Tipos, Control
  PROVE  /\ registros_cpu \in Banco
         /\ \A p \in Procesos : Vistos(p) \in Banco /\ cde[p].registros \in Banco
<1>1. registros_cpu \in Banco
  BY DEF Tipos, TypeOK, Banco
<1>2. \A p \in Procesos : cde[p].registros \in Banco
  BY DEF Tipos, EsCde
<1>3. ASSUME NEW p \in Procesos PROVE Vistos(p) \in Banco
  <2>1. CASE p # pcb_en_ejecucion \/ (~Ocupada /\ ~HayCde)
    <3>1. Vistos(p) = IF p \in terminados THEN Nuevos
                      ELSE IF p \in esperando THEN Atras(cde[p].registros)
                      ELSE cde[p].registros
      BY <2>1, VistosPorLugar DEF SegunLugar
    <3> QED BY <1>2, <3>1, NuevosBanco, IdaYVuelta
  <2>2. CASE p = pcb_en_ejecucion /\ (Ocupada \/ HayCde)
    <3>1. p # Nulo /\ p \notin terminados /\ p \notin esperando
      BY <2>2, NuloAssumption DEF Control
    <3>2. Corriendo \/ Volviendo
      BY <2>2, <3>1 DEF Control, Yendo, HayCde, SinMensaje
    <3>3. CASE Corriendo
      <4>1. Ocupada /\ ~HayCde /\ EsCde(cde_ejecutando)
        BY <3>3 DEF Corriendo, HayCde, SinMensaje
      <4>2. Vistos(p) = VistoCpu
        BY <2>2, <3>1, <4>1, VistosPorLugar DEF SegunLugar
      <4> QED BY <1>1, <4>2, IdaYVuelta DEF VistoCpu
    <3>4. CASE Volviendo
      <4>1. ~Ocupada /\ HayCde /\ Recibido.registros \in Banco
        BY <3>4 DEF Volviendo, EsCde
      <4>2. Vistos(p) = VistoVuelta
        BY <2>2, <3>1, <4>1, VistosPorLugar DEF SegunLugar
      <4> QED BY <4>1, <4>2, IdaYVuelta DEF VistoVuelta
    <3> QED BY <3>2, <3>3, <3>4
  <2> QED BY <2>1, <2>2
<1> QED BY <1>1, <1>2, <1>3

\* An instruction that is not EXIT leaves the PC inside the program.
LEMMA SigueDentro ==
  ASSUME NEW p \in Procesos, NEW v \in Banco, v["PC"] < Len(Cargadas[p]),
         Pedida(p, v["PC"]).codigo # "EXIT"
  PROVE  /\ Efecto(Avanzar(v), Pedida(p, v["PC"])) \in Banco
         /\ Efecto(Avanzar(v), Pedida(p, v["PC"]))["PC"] < Len(Cargadas[p])
<1>1. PICK i : i = Pedida(p, v["PC"])
  OBVIOUS
<1>2. PICK n : n = Len(Cargadas[p])
  OBVIOUS
<1>3. PICK pc \in 0..(Mod32 - 1) : pc = v["PC"]
  BY IdaYVuelta
<1>4. pc \in Nat /\ Mod32 \in Nat \ {0}
  BY <1>3, ModuloAssumption
<1>5. /\ Escrita(i) /\ n \in 1..Mod32 /\ pc + 1 < n
      /\ Salta(i) => i.parametros[2].valor % Mod32 < n
  BY <1>1, <1>2, <1>3, <1>4, Pedido
<1>6. PICK r \in Banco : r = Avanzar(v) /\ r["PC"] = (pc + 1) % Mod32
  BY <1>3, IdaYVuelta
<1>7. r["PC"] < n
  <2>1. pc + 1 \in 0..(Mod32 - 1)
    BY <1>4, <1>5
  <2>2. (pc + 1) % Mod32 = pc + 1
    BY <1>4, <2>1, Restos
  <2> QED BY <1>5, <1>6, <2>2
<1>8. Efecto(r, i) \in Banco /\ Efecto(r, i)["PC"] < n
  BY <1>5, <1>7, Efectos
<1> QED BY <1>1, <1>2, <1>6, <1>8

(***************************************************************************)
(* Steps where nobody's machine moves, or only that of the process in the  *)
(* CPU.                                                                    *)
(***************************************************************************)

\* The process the CPU works for.
LEMMA EnLaCpu ==
  ASSUME Tipos, Control, Ocupada
  PROVE  /\ Corriendo /\ ~HayCde /\ EsCde(cde_ejecutando)
         /\ pcb_en_ejecucion \in Procesos \ (esperando \cup terminados)
<1>1. pcb_en_ejecucion # Nulo
  BY DEF Control
<1>2. Corriendo
  BY <1>1 DEF Control, Yendo, Volviendo
<1> QED BY <1>1, <1>2 DEF Tipos, TypeOK, Control, Corriendo, HayCde, SinMensaje

\* Who is not in EXEC depends on what the Kernel keeps.
LEMMA OtroIgual ==
  ASSUME NEW q, q # pcb_en_ejecucion, q # pcb_en_ejecucion', cde'[q] = cde[q],
         q \in esperando' <=> q \in esperando, q \in terminados' <=> q \in terminados
  PROVE  Vistos(q)' = Vistos(q) /\ (Programa(q) => Programa(q)')
<1>1. /\ Vistos(q) = IF q \in terminados THEN Nuevos
                     ELSE IF q \in esperando THEN Atras(cde[q].registros)
                     ELSE cde[q].registros
      /\ Programa(q) <=> /\ Vistos(q)["PC"] < Len(Cargadas[q])
                         /\ q \in esperando => Toca(q).codigo \in {"WAIT", "SIGNAL"}
  BY VistosPorLugar DEF SegunLugar
<1>2. /\ Vistos(q)' = IF q \in terminados' THEN Nuevos
                      ELSE IF q \in esperando' THEN Atras(cde'[q].registros)
                      ELSE cde'[q].registros
      /\ Programa(q)' <=> /\ Vistos(q)'["PC"] < Len(Cargadas[q])
                          /\ q \in esperando' => Toca(q)'.codigo \in {"WAIT", "SIGNAL"}
  BY VistosPorLugarSig DEF SegunLugar
<1>3. Vistos(q)' = Vistos(q)
  BY <1>1, <1>2
<1>4. Toca(q)' = Toca(q)
  BY <1>3 DEF Toca
<1> QED BY <1>1, <1>2, <1>3, <1>4

\* A step of the CPU is a matter of the process it works for.
LEMMA CpuSigue ==
  ASSUME Tipos, Control, Programas, Ocupada, Ocupada', ~HayCde', EsCde(cde_ejecutando)',
         UNCHANGED <<cde, pcb_en_ejecucion, esperando, terminados>>
  PROVE  \E p \in Procesos :
           /\ p = pcb_en_ejecucion /\ p \notin esperando \cup terminados
           /\ Vistos(p) = VistoCpu /\ Vistos(p)' = VistoCpu'
           /\ Dentro(p) /\ DemasIguales(p)
           /\ Dentro(p)' => Programas'
           /\ VistoCpu \in Banco /\ registros_cpu \in Banco
<1>1. PICK p \in Procesos : p = pcb_en_ejecucion /\ p \notin esperando \cup terminados
  BY EnLaCpu
<1>2. Vistos(p) = VistoCpu /\ (Programa(p) <=> Dentro(p))
  BY <1>1, EnLaCpu, VistosPorLugar DEF SegunLugar
<1>3. Vistos(p)' = VistoCpu' /\ (Programa(p)' <=> Dentro(p)')
  BY <1>1, VistosPorLugarSig DEF SegunLugar
<1>4. \A q \in Procesos \ {p} : Vistos(q)' = Vistos(q) /\ (Programa(q) => Programa(q)')
  BY <1>1, OtroIgual
<1>5. Dentro(p)
  BY <1>1, <1>2 DEF Programas
<1>6. ASSUME Dentro(p)' PROVE Programas'
  <2>1. \A q \in Procesos : Continua(q)' <=> Continua(q)
    BY DEF Continua
  <2> QED BY <1>1, <1>3, <1>4, <1>6, <2>1 DEF Programas
<1>7. VistoCpu \in Banco /\ registros_cpu \in Banco
  BY <1>1, <1>2, CadaVistaEsBanco
<1> QED BY <1>1, <1>2, <1>3, <1>4, <1>5, <1>6, <1>7 DEF DemasIguales

\* A step that leaves alone the contexts and where they are.
LEMMA MismaVistaDe ==
  ASSUME NEW q, UNCHANGED <<cde, pcb_en_ejecucion, terminados, aKernel, corrio>>,
         q \in esperando' <=> q \in esperando,
         Ocupada' <=> Ocupada,
         Ocupada => UNCHANGED <<fase, cde_ejecutando, registros_cpu, realizar_desalojo>>
  PROVE  Vistos(q)' = Vistos(q) /\ (Programa(q)' <=> Programa(q))
<1>1. Corre(q)' <=> Corre(q)
  BY DEF Corre, Ocupada
<1>2. (HayCde' <=> HayCde) /\ Recibido' = Recibido
  BY DEF HayCde, Recibido
<1>3. Vuelve(q)' <=> Vuelve(q)
  BY <1>2 DEF Vuelve
<1>4. Ocupada => Guardados' = Guardados
  BY DEF Guardados
<1>5. Corre(q) => Ocupada
  BY FasesOcupada
<1>6. Contexto(q)' = Contexto(q)
  BY <1>1, <1>2, <1>3, <1>4, <1>5 DEF Contexto
<1>7. SinTerminar(q)' <=> SinTerminar(q)
  BY <1>1, <1>2, <1>3, <1>5 DEF SinTerminar, Cede
<1>8. Vistos(q)' = Vistos(q)
  BY <1>6, <1>7 DEF Vistos
<1>9. Toca(q)' = Toca(q)
  BY <1>8 DEF Toca
<1>10. Programa(q)' <=> Programa(q)
  BY <1>1, <1>2, <1>3, <1>5, <1>7, <1>8, <1>9 DEF Programa
<1> QED BY <1>8, <1>10

LEMMA MismaVista ==
  ASSUME Programas,
         UNCHANGED <<cde, pcb_en_ejecucion, esperando, terminados, aKernel, corrio>>,
         Ocupada' <=> Ocupada,
         Ocupada => UNCHANGED <<fase, cde_ejecutando, registros_cpu, realizar_desalojo>>
  PROVE  MismosVistos /\ Programas'
<1>1. \A q : Vistos(q)' = Vistos(q) /\ (Programa(q)' <=> Programa(q))
  BY MismaVistaDe
<1>2. \A q : Continua(q)' <=> Continua(q)
  BY DEF Continua
<1> QED BY <1>1, <1>2 DEF MismosVistos, Programas

\* Changes to a field of a context.
LEMMA CdeCambia ==
  ASSUME NEW c, EsCde(c), NEW m, NEW i, NEW r \in Banco, EsInstruccion(i)
  PROVE  /\ [c EXCEPT !.motivo_desalojo = m] =
              [pid |-> c.pid, motivo_desalojo |-> m, registros |-> c.registros,
               ultima_instruccion |-> c.ultima_instruccion]
         /\ [c EXCEPT !.ultima_instruccion = i] =
              [pid |-> c.pid, motivo_desalojo |-> c.motivo_desalojo, registros |-> c.registros,
               ultima_instruccion |-> i]
         /\ [c EXCEPT !.registros = r] =
              [pid |-> c.pid, motivo_desalojo |-> c.motivo_desalojo, registros |-> r,
               ultima_instruccion |-> c.ultima_instruccion]
         /\ EsCde([c EXCEPT !.motivo_desalojo = m]) /\ EsCde([c EXCEPT !.ultima_instruccion = i])
         /\ EsCde([c EXCEPT !.registros = r])
<1> DEFINE Cde(a, h, s, j) ==
             [pid |-> a, motivo_desalojo |-> h, registros |-> s, ultima_instruccion |-> j]
<1>1. PICK a, h, s, j : c = Cde(a, h, s, j) /\ a = c.pid /\ h = c.motivo_desalojo
                        /\ s = c.registros /\ j = c.ultima_instruccion
  BY DEF EsCde
<1>2. /\ [c EXCEPT !.motivo_desalojo = m] = Cde(c.pid, m, c.registros, c.ultima_instruccion)
      /\ [c EXCEPT !.ultima_instruccion = i] = Cde(c.pid, c.motivo_desalojo, c.registros, i)
      /\ [c EXCEPT !.registros = r] = Cde(c.pid, c.motivo_desalojo, r, c.ultima_instruccion)
  <2>1. [c EXCEPT !.motivo_desalojo = m] = Cde(a, m, s, j)
    <3>1. [Cde(a, h, s, j) EXCEPT !.motivo_desalojo = m] = Cde(a, m, s, j)
      OBVIOUS
    <3> QED BY <1>1, <3>1
  <2>2. [c EXCEPT !.ultima_instruccion = i] = Cde(a, h, s, i)
    <3>1. [Cde(a, h, s, j) EXCEPT !.ultima_instruccion = i] = Cde(a, h, s, i)
      OBVIOUS
    <3> QED BY <1>1, <3>1
  <2>3. [c EXCEPT !.registros = r] = Cde(a, h, r, j)
    <3>1. [Cde(a, h, s, j) EXCEPT !.registros = r] = Cde(a, h, r, j)
      OBVIOUS
    <3> QED BY <1>1, <3>1
  <2> QED BY <1>1, <2>1, <2>2, <2>3
<1>3. \A n, t, x : t \in Banco /\ EsInstruccion(x) =>
         EsCde([pid |-> c.pid, motivo_desalojo |-> n, registros |-> t, ultima_instruccion |-> x])
  BY DEF EsCde
<1>4. c.registros \in Banco /\ EsInstruccion(c.ultima_instruccion)
  BY DEF EsCde
<1> QED BY <1>2, <1>3, <1>4

\* What Desalojar writes.
Desalojado(c, m, i) == [c EXCEPT !.motivo_desalojo = m, !.ultima_instruccion = i]

LEMMA CdeDesalojado ==
  ASSUME NEW c, EsCde(c), NEW m, NEW i, EsInstruccion(i)
  PROVE  /\ Desalojado(c, m, i) = [pid |-> c.pid, motivo_desalojo |-> m,
                                   registros |-> c.registros, ultima_instruccion |-> i]
         /\ EsCde(Desalojado(c, m, i))
<1>1. PICK d : /\ d = [c EXCEPT !.motivo_desalojo = m] /\ EsCde(d)
               /\ d = [pid |-> c.pid, motivo_desalojo |-> m, registros |-> c.registros,
                       ultima_instruccion |-> c.ultima_instruccion]
  BY CdeCambia DEF EsCde
<1>2. Desalojado(c, m, i) = [d EXCEPT !.ultima_instruccion = i]
  BY <1>1, Zenon DEF Desalojado
<1>3. PICK e : /\ e = [d EXCEPT !.ultima_instruccion = i] /\ EsCde(e)
               /\ e = [pid |-> d.pid, motivo_desalojo |-> d.motivo_desalojo,
                       registros |-> d.registros, ultima_instruccion |-> i]
  BY <1>1, CdeCambia DEF EsCde
<1> QED BY <1>1, <1>2, <1>3

(***************************************************************************)
(* The dispatch thread.                                                    *)
(***************************************************************************)

LEMMA PasoRecibirProceso ==
  ASSUME IInv, RecibirProceso
  PROVE  IInv' /\ Nada
<1> USE DEF IInv
<1>1. PICK p \in Procesos : p = pcb_en_ejecucion /\ p \notin esperando \cup terminados
  <2>1. pcb_en_ejecucion # Nulo
    BY DEF Control, RecibirProceso, Recibe, SinMensaje
  <2> QED BY <2>1 DEF Tipos, TypeOK, Control
<1>2. fase = "libre" /\ ~Ocupada /\ Yendo
  <2>1. ~Ocupada
    BY DEF RecibirProceso, Avanza, Ocupada
  <2>2. aCpu # SinMensaje
    BY DEF RecibirProceso, Recibe, SinMensaje
  <2> QED BY <1>1, <2>1, <2>2, NuloAssumption DEF Control, Corriendo, Volviendo, RecibirProceso, Avanza
<1>3. PICK c : c = cde[p] /\ EsCde(c) /\ c.pid = p
  BY <1>1 DEF Tipos
<1>4. /\ cde_ejecutando' = c /\ pid_de_cde_ejecutando' = p /\ registros_cpu' = c.registros
      /\ fase' = "bucle" /\ aCpu' = SinMensaje /\ aKernel' = SinMensaje
  <2>1. aCpu.contenido = buffer_write_cde(c)
    BY <1>1, <1>2, <1>3 DEF Yendo
  <2>2. buffer_read_cde(aCpu.contenido) = c
    BY <1>3, <2>1, CdeViaja
  <2> QED BY <1>2, <1>3, <2>2 DEF RecibirProceso, Avanza, Recibe, Yendo
<1>5. UNCHANGED <<banderas, instruccion_actualizada, manejador, interrupciones, kernel>>
  BY DEF RecibirProceso
<1>6. ~HayCde /\ ~HayCde' /\ Ocupada'
  BY <1>2, <1>4 DEF Yendo, HayCde, SinMensaje, Ocupada
<1>7. Limpia
  BY <1>2 DEF Turno
<1>8. Vistos(p) = c.registros /\ Programa(p)
  BY <1>1, <1>2, <1>3, <1>6, VistosPorLugar DEF SegunLugar, Programas
<1>9. VistoCpu' = c.registros /\ ~EnMedio'
  BY <1>4, <1>5, <1>7 DEF VistoCpu, EnMedio, Limpia, banderas
<1>10. Vistos(p)["PC"] < Len(Cargadas[p])
  BY <1>8 DEF Programa
<1>11. Dentro(p)'
  BY <1>4, <1>8, <1>9, <1>10 DEF Dentro
<1>12. p = pcb_en_ejecucion' /\ p \notin terminados' /\ p \notin esperando'
  BY <1>1, <1>5 DEF kernel
<1>13. Vistos(p)' = Vistos(p) /\ Programa(p)'
  <2>1. EsCde(cde_ejecutando)'
    BY <1>3, <1>4
  <2> QED BY <1>6, <1>8, <1>9, <1>11, <1>12, <2>1, VistosPorLugarSig DEF SegunLugar
<1>14. \A q \in Procesos \ {p} : Vistos(q)' = Vistos(q) /\ (Programa(q) => Programa(q)')
  BY <1>1, <1>5, OtroIgual DEF kernel
<1>15. Programas' /\ Nada
  BY <1>5, <1>13, <1>14 DEF Programas, Continua, Nada, MismosVistos, kernel
<1>16. Tipos'
  <2>1. registros_cpu' \in Banco
    BY <1>3, <1>4 DEF EsCde
  <2> QED BY <1>4, <1>5, <2>1 DEF Tipos, TypeOK, Banco, kernel, banderas
<1>17. Control'
  BY <1>1, <1>3, <1>4, <1>5, <1>6, <1>12, NuloAssumption DEF Control, Corriendo, kernel
<1>18. Turno'
  <2>1. c.ultima_instruccion.codigo # "EXIT" /\ ~corrio'
    BY <1>1, <1>2, <1>3, <1>5 DEF Programas, Continua, Yendo, kernel
  <2> QED BY <1>2, <1>3, <1>4, <1>5, <1>7, <2>1 DEF Turno, Limpia, banderas
<1>19. Ordenes'
  BY <1>5 DEF Ordenes, banderas, kernel
<1> QED BY <1>15, <1>16, <1>17, <1>18, <1>19

LEMMA PasoSigueBucle ==
  ASSUME IInv, SigueBucle
  PROVE  IInv' /\ Nada
<1> USE DEF IInv
<1>1. fase = "bucle" /\ fase' = "fetch" /\ ~realizar_desalojo
      /\ UNCHANGED <<banderas, cpu, manejador, sockets, kernel>>
  BY DEF SigueBucle, Avanza, Desaloja
<1>2. Ocupada /\ Ocupada' /\ ~HayCde /\ ~HayCde' /\ EsCde(cde_ejecutando)'
  BY <1>1, EnLaCpu DEF Ocupada, HayCde, cpu, sockets
<1>3. PICK p \in Procesos :
        /\ p = pcb_en_ejecucion /\ p \notin esperando \cup terminados
        /\ Vistos(p) = VistoCpu /\ Vistos(p)' = VistoCpu'
        /\ Dentro(p) /\ DemasIguales(p)
        /\ Dentro(p)' => Programas'
        /\ VistoCpu \in Banco /\ registros_cpu \in Banco
  BY <1>1, <1>2, CpuSigue DEF kernel
<1>4. VistoCpu' = VistoCpu /\ ~EnMedio'
  BY <1>1 DEF VistoCpu, EnMedio, banderas, cpu
<1>5. Dentro(p)'
  BY <1>1, <1>3, <1>4 DEF Dentro
<1>6. Programas' /\ Nada
  BY <1>1, <1>3, <1>4, <1>5 DEF Nada, MismosVistos, DemasIguales, kernel
<1>7. Tipos'
  BY <1>1 DEF Tipos, TypeOK, kernel, cpu, banderas, sockets
<1>8. Control'
  BY <1>1, <1>2, EnLaCpu DEF Control, Corriendo, kernel, cpu, sockets
<1>9. Turno'
  BY <1>1 DEF Turno, banderas, cpu, kernel
<1>10. Ordenes'
  BY <1>1 DEF Ordenes, banderas, kernel, sockets
<1> QED BY <1>6, <1>7, <1>8, <1>9, <1>10

LEMMA PasoFetch ==
  ASSUME IInv, Fetch
  PROVE  IInv' /\ Nada
<1> USE DEF IInv
<1>1. fase = "fetch" /\ fase' = "ejecuta" /\ ~realizar_desalojo
      /\ corrio' = TRUE
      /\ UNCHANGED <<banderas, pid_de_cde_ejecutando, manejador, sockets, cde, pcb_en_ejecucion,
                     esperando, reloj, pedidos, terminados, condenados>>
  BY DEF Fetch, Avanza, Turno
<1>2. Ocupada /\ Ocupada' /\ ~HayCde /\ ~HayCde' /\ Corriendo /\ EsCde(cde_ejecutando)
  BY <1>1, EnLaCpu DEF Ocupada, HayCde, sockets
<1>3. ~EnMedio /\ VistoCpu = registros_cpu
  BY <1>1 DEF VistoCpu, EnMedio
<1>4. pcb_en_ejecucion \in Procesos /\ cde_ejecutando.pid = pcb_en_ejecucion
  BY <1>2, EnLaCpu DEF Corriendo
<1>5. PICK i : /\ i = Pedida(pcb_en_ejecucion, registros_cpu["PC"])
               /\ instruccion_actualizada' = i.codigo /\ registros_cpu' = Avanzar(registros_cpu)
               /\ cde_ejecutando' = [cde_ejecutando EXCEPT !.ultima_instruccion = i]
  BY <1>4 DEF Fetch
<1>6. registros_cpu \in Banco /\ registros_cpu["PC"] < Len(Cargadas[pcb_en_ejecucion])
  <2>1. registros_cpu = Vistos(pcb_en_ejecucion) /\ Programa(pcb_en_ejecucion)
    BY <1>2, <1>3, EnLaCpu, VistosPorLugar DEF SegunLugar, Programas
  <2> QED BY <1>4, <2>1, CadaVistaEsBanco DEF Programa
<1>7. Escrita(i) /\ EsInstruccion(i) /\ i.codigo \in Codigos \cup {"NULO"}
  <2>1. registros_cpu["PC"] \in Nat
    BY <1>6, IdaYVuelta
  <2> QED BY <1>4, <1>5, <1>6, <2>1, Pedido DEF Escrita, EsInstruccion
<1>8. /\ EsCde(cde_ejecutando') /\ cde_ejecutando'.ultima_instruccion = i
      /\ cde_ejecutando'.pid = cde_ejecutando.pid
  <2>1. EsCde(cde_ejecutando')
    BY <1>2, <1>5, <1>6, <1>7, CdeCambia
  <2>2. cde_ejecutando' =
          [pid |-> cde_ejecutando.pid, motivo_desalojo |-> cde_ejecutando.motivo_desalojo,
           registros |-> cde_ejecutando.registros, ultima_instruccion |-> i]
    BY <1>2, <1>5, <1>6, <1>7, CdeCambia
  <2> QED BY <2>1, <2>2
<1>9. PICK p \in Procesos :
        /\ p = pcb_en_ejecucion /\ p \notin esperando \cup terminados
        /\ Vistos(p) = VistoCpu /\ Vistos(p)' = VistoCpu'
        /\ Dentro(p) /\ DemasIguales(p)
        /\ Dentro(p)' => Programas'
        /\ VistoCpu \in Banco /\ registros_cpu \in Banco
  BY <1>1, <1>2, <1>8, CpuSigue
<1>10. VistoCpu' = registros_cpu
  <2>1. VistoCpu' = Atras(registros_cpu')
    BY <1>1 DEF VistoCpu, EnMedio
  <2> QED BY <1>5, <1>6, <2>1, IdaYVuelta
<1>11. Dentro(p)'
  <2>1. cde_ejecutando'.ultima_instruccion = Pedida(p, VistoCpu'["PC"])
    BY <1>5, <1>8, <1>9, <1>10
  <2> QED BY <1>1, <1>6, <1>9, <1>10, <2>1 DEF Dentro
<1>12. Programas' /\ Nada
  BY <1>1, <1>3, <1>9, <1>10, <1>11 DEF Nada, MismosVistos, DemasIguales
<1>13. Tipos'
  <2>1. registros_cpu' \in Banco
    BY <1>5, <1>6, IdaYVuelta
  <2> QED BY <1>1, <1>5, <1>7, <2>1 DEF Tipos, TypeOK, Banco, banderas, sockets
<1>14. Control'
  BY <1>1, <1>2, <1>8 DEF Control, Corriendo, sockets
<1>15. Turno'
  BY <1>1 DEF Turno, banderas
<1>16. Ordenes'
  BY <1>1 DEF Ordenes, banderas, sockets
<1> QED BY <1>12, <1>13, <1>14, <1>15, <1>16

\* What the fetch found, while it is executed.
LEMMA EnEjecucion ==
  ASSUME IInv, fase \in {"ejecuta", "pide"}
  PROVE  \E i :
           /\ i = cde_ejecutando.ultima_instruccion /\ i = Pedida(pcb_en_ejecucion, VistoCpu["PC"])
           /\ Escrita(i) /\ EnMedio /\ Ocupada /\ Corriendo /\ EsCde(cde_ejecutando)
           /\ VistoCpu \in Banco /\ registros_cpu \in Banco
           /\ registros_cpu = Avanzar(VistoCpu) /\ VistoCpu = Atras(registros_cpu)
           /\ pcb_en_ejecucion \in Procesos /\ ~realizar_desalojo
<1> USE DEF IInv
<1>1. Ocupada /\ EnMedio /\ ~realizar_desalojo
  BY DEF Ocupada, EnMedio, Turno
<1>2. Corriendo /\ ~HayCde /\ EsCde(cde_ejecutando)
      /\ pcb_en_ejecucion \in Procesos \ (esperando \cup terminados)
  BY <1>1, EnLaCpu
<1>3. Vistos(pcb_en_ejecucion) = VistoCpu /\ Dentro(pcb_en_ejecucion)
  BY <1>1, <1>2, VistosPorLugar DEF SegunLugar, Programas
<1>4. VistoCpu \in Banco /\ registros_cpu \in Banco
  BY <1>2, <1>3, CadaVistaEsBanco
<1>5. registros_cpu = Avanzar(VistoCpu) /\ VistoCpu = Atras(registros_cpu)
  BY <1>1, <1>4, IdaYVuelta DEF VistoCpu
<1>6. PICK i : i = Pedida(pcb_en_ejecucion, VistoCpu["PC"])
  OBVIOUS
<1>7. Escrita(i)
  <2>1. VistoCpu["PC"] \in Nat /\ VistoCpu["PC"] < Len(Cargadas[pcb_en_ejecucion])
    BY <1>3, <1>4, IdaYVuelta DEF Dentro
  <2> QED BY <1>2, <1>6, <2>1, Pedido
<1>8. cde_ejecutando.ultima_instruccion = i
  BY <1>3, <1>6 DEF Dentro
<1> QED BY <1>1, <1>2, <1>4, <1>5, <1>6, <1>7, <1>8

\* The instruction gives up the CPU and is not over.
LEMMA PasoDesalojar ==
  ASSUME IInv, fase \in {"ejecuta", "pide"}, fase' = "bucle", NEW m \in Propios,
         cde_ejecutando.ultima_instruccion.codigo \in Exigidos(m),
         Desalojar(m, Resuelta(cde_ejecutando.pid, registros_cpu,
                               cde_ejecutando.ultima_instruccion)),
         aCpu' = SinMensaje, aKernel' = SinMensaje,
         UNCHANGED <<pid_de_cde_ejecutando, registros_cpu, instruccion_actualizada, manejador,
                     interrupciones, kernel>>
  PROVE  IInv' /\ Nada
<1> USE DEF IInv
<1>1. PICK i :
        /\ i = cde_ejecutando.ultima_instruccion /\ i = Pedida(pcb_en_ejecucion, VistoCpu["PC"])
        /\ Escrita(i) /\ EnMedio /\ Ocupada /\ Corriendo /\ EsCde(cde_ejecutando)
        /\ VistoCpu \in Banco /\ registros_cpu \in Banco
        /\ registros_cpu = Avanzar(VistoCpu) /\ VistoCpu = Atras(registros_cpu)
        /\ pcb_en_ejecucion \in Procesos /\ ~realizar_desalojo
  BY EnEjecucion
<1>2. PICK j : /\ j = Resuelta(pcb_en_ejecucion, VistoCpu, i)
               /\ j = Resuelta(pcb_en_ejecucion, registros_cpu, i)
               /\ EsInstruccion(j) /\ j.codigo = i.codigo
  BY <1>1, Resueltas, ResueltaSinPC DEF Escrita
<1>3. /\ cde_ejecutando' = [cde_ejecutando EXCEPT !.motivo_desalojo = m, !.ultima_instruccion = j]
      /\ interrupcion' = interrupcion /\ realizar_desalojo' = TRUE /\ fin_q' = fin_q
  BY <1>1, <1>2 DEF Desalojar, Banderas, Corriendo
<1>4. /\ EsCde(cde_ejecutando') /\ cde_ejecutando'.ultima_instruccion = j
      /\ cde_ejecutando'.motivo_desalojo = m /\ cde_ejecutando'.pid = pcb_en_ejecucion
  <2>1. cde_ejecutando' = Desalojado(cde_ejecutando, m, j)
    BY <1>3 DEF Desalojado
  <2> QED BY <1>1, <1>2, <2>1, CdeDesalojado DEF Corriendo
<1>5. Ocupada' /\ ~HayCde'
  BY DEF Ocupada, HayCde, SinMensaje
<1>6. PICK p \in Procesos :
        /\ p = pcb_en_ejecucion /\ p \notin esperando \cup terminados
        /\ Vistos(p) = VistoCpu /\ Vistos(p)' = VistoCpu'
        /\ Dentro(p) /\ DemasIguales(p)
        /\ Dentro(p)' => Programas'
        /\ VistoCpu \in Banco /\ registros_cpu \in Banco
  BY <1>1, <1>4, <1>5, CpuSigue DEF kernel
<1>7. EnMedio' /\ VistoCpu' = VistoCpu
  <2>1. Cede(cde_ejecutando)'
    BY <1>4 DEF Cede, Propios
  <2>2. EnMedio'
    BY <1>3, <2>1 DEF EnMedio
  <2> QED BY <1>1, <2>2 DEF VistoCpu
<1>8. Dentro(p)'
  <2>1. cde_ejecutando'.ultima_instruccion = Resuelta(p, VistoCpu', Pedida(p, VistoCpu'["PC"]))
    BY <1>1, <1>2, <1>4, <1>6, <1>7
  <2> QED BY <1>6, <1>7, <2>1 DEF Dentro
<1>9. Programas' /\ Nada
  BY <1>6, <1>7, <1>8 DEF Nada, MismosVistos, DemasIguales, kernel
<1>10. Tipos'
  BY <1>3 DEF Tipos, TypeOK, kernel
<1>11. Control'
  BY <1>1, <1>4, <1>5 DEF Control, Corriendo, kernel
<1>12. Turno'
  <2>1. Coherente(cde_ejecutando)'
    BY <1>1, <1>2, <1>4 DEF Coherente, Propios
  <2> QED BY <1>3, <1>4, <2>1 DEF Turno, kernel
<1>13. Ordenes'
  BY <1>3 DEF Ordenes, kernel
<1> QED BY <1>9, <1>10, <1>11, <1>12, <1>13

\* The instruction is over and the loop goes on.
LEMMA PasoHace ==
  ASSUME IInv, fase \in {"ejecuta", "pide"}, fase' = "bucle",
         cde_ejecutando.ultima_instruccion.codigo \notin DeIO \cup {"EXIT"},
         registros_cpu' = Efecto(registros_cpu, cde_ejecutando.ultima_instruccion),
         aCpu' = SinMensaje, aKernel' = SinMensaje,
         UNCHANGED <<banderas, cde_ejecutando, pid_de_cde_ejecutando, instruccion_actualizada,
                     manejador, interrupciones, kernel>>
  PROVE  IInv' /\ \E p \in Procesos : Hace(p)
<1> USE DEF IInv
<1>1. PICK i :
        /\ i = cde_ejecutando.ultima_instruccion /\ i = Pedida(pcb_en_ejecucion, VistoCpu["PC"])
        /\ Escrita(i) /\ EnMedio /\ Ocupada /\ Corriendo /\ EsCde(cde_ejecutando)
        /\ VistoCpu \in Banco /\ registros_cpu \in Banco
        /\ registros_cpu = Avanzar(VistoCpu) /\ VistoCpu = Atras(registros_cpu)
        /\ pcb_en_ejecucion \in Procesos /\ ~realizar_desalojo
  BY EnEjecucion
<1>2. Ocupada' /\ ~HayCde'
  BY DEF Ocupada, HayCde, SinMensaje
<1>3. PICK p \in Procesos :
        /\ p = pcb_en_ejecucion /\ p \notin esperando \cup terminados
        /\ Vistos(p) = VistoCpu /\ Vistos(p)' = VistoCpu'
        /\ Dentro(p) /\ DemasIguales(p)
        /\ Dentro(p)' => Programas'
        /\ VistoCpu \in Banco /\ registros_cpu \in Banco
  BY <1>1, <1>2, CpuSigue DEF kernel
<1>4. VistoCpu' = registros_cpu' /\ ~EnMedio'
  BY <1>1 DEF VistoCpu, EnMedio, banderas
<1>5. Toca(p) = i
  BY <1>1, <1>3 DEF Toca
<1>6. registros_cpu' = Efecto(Avanzar(VistoCpu), i)
  BY <1>1
<1>7. registros_cpu' \in Banco /\ registros_cpu'["PC"] < Len(Cargadas[p])
  <2>1. VistoCpu["PC"] < Len(Cargadas[p]) /\ i = Pedida(p, VistoCpu["PC"]) /\ i.codigo # "EXIT"
    BY <1>1, <1>3 DEF Dentro
  <2> QED BY <1>3, <1>6, <2>1, SigueDentro
<1>8. Dentro(p)'
  BY <1>4, <1>7 DEF Dentro
<1>9. Hace(p)
  BY <1>1, <1>3, <1>4, <1>5, <1>6 DEF Hace, kernel
<1>10. Tipos'
  BY <1>7 DEF Tipos, TypeOK, kernel, banderas, Banco
<1>11. Control'
  BY <1>1, <1>2 DEF Control, Corriendo, kernel
<1>12. Turno'
  BY <1>1 DEF Turno, banderas, kernel
<1>13. Ordenes'
  BY DEF Ordenes, banderas, kernel
<1> QED BY <1>3, <1>8, <1>9, <1>10, <1>11, <1>12, <1>13

LEMMA PasoEjecutarLocal ==
  ASSUME IInv, EjecutarLocal
  PROVE  IInv' /\ \E p \in Procesos : Hace(p)
<1> USE DEF IInv
<1>1. fase = "ejecuta" /\ fase' = "bucle"
      /\ cde_ejecutando.ultima_instruccion.codigo \notin DeIO \cup {"EXIT"}
  BY DEF EjecutarLocal, Ejecuta, Avanza
<1>2. aCpu = SinMensaje /\ aKernel = SinMensaje
  BY <1>1, EnEjecucion DEF Corriendo
<1> QED BY <1>1, <1>2, PasoHace DEF EjecutarLocal, sockets

LEMMA PasoEjecutarResize ==
  ASSUME IInv, EjecutarResize
  PROVE  IInv' /\ (Nada \/ \E p \in Procesos : Hace(p))
<1> USE DEF IInv
<1>1. fase = "ejecuta" /\ fase' = "bucle" /\ cde_ejecutando.ultima_instruccion.codigo = "RESIZE"
  BY DEF EjecutarResize, Ejecuta, Avanza
<1>2. aCpu = SinMensaje /\ aKernel = SinMensaje
      /\ EsInstruccion(cde_ejecutando.ultima_instruccion)
  BY <1>1, EnEjecucion DEF Corriendo, Escrita
<1>3. CASE Desalojar("OUT_OF_MEMORY_ERROR", cde_ejecutando.ultima_instruccion)
  <2>1. Resuelta(cde_ejecutando.pid, registros_cpu, cde_ejecutando.ultima_instruccion)
          = cde_ejecutando.ultima_instruccion
    BY <1>1, <1>2, Resueltas DEF DeIO
  <2>2. "OUT_OF_MEMORY_ERROR" \in Propios
        /\ cde_ejecutando.ultima_instruccion.codigo \in Exigidos("OUT_OF_MEMORY_ERROR")
    BY <1>1 DEF Propios, Exigidos
  <2> QED BY <1>1, <1>2, <1>3, <2>1, <2>2, PasoDesalojar DEF EjecutarResize, sockets
<1>4. CASE UNCHANGED <<banderas, cde_ejecutando>>
  <2>1. registros_cpu' = Efecto(registros_cpu, cde_ejecutando.ultima_instruccion)
    BY <1>1 DEF EjecutarResize, Efecto
  <2> QED BY <1>1, <1>2, <1>4, <2>1, PasoHace DEF EjecutarResize, sockets, DeIO
<1> QED BY <1>3, <1>4 DEF EjecutarResize

LEMMA PasoEjecutarIO ==
  ASSUME IInv, EjecutarIO
  PROVE  IInv' /\ Nada
<1> USE DEF IInv
<1>1. fase = "ejecuta" /\ fase' = "bucle" /\ cde_ejecutando.ultima_instruccion.codigo \in DeIO
  BY DEF EjecutarIO, Ejecuta, Avanza
<1>2. aCpu = SinMensaje /\ aKernel = SinMensaje
  BY <1>1, EnEjecucion DEF Corriendo
<1>3. "LLAMADA_IO" \in Propios
      /\ cde_ejecutando.ultima_instruccion.codigo \in Exigidos("LLAMADA_IO")
  BY <1>1 DEF Propios, Exigidos
<1> QED BY <1>1, <1>2, <1>3, PasoDesalojar DEF EjecutarIO, sockets

LEMMA PasoEjecutarExit ==
  ASSUME IInv, EjecutarExit
  PROVE  IInv' /\ Nada
<1> USE DEF IInv
<1>1. fase = "ejecuta" /\ fase' = "bucle" /\ cde_ejecutando.ultima_instruccion.codigo = "EXIT"
  BY DEF EjecutarExit, Ejecuta, Avanza
<1>2. aCpu = SinMensaje /\ aKernel = SinMensaje
      /\ EsInstruccion(cde_ejecutando.ultima_instruccion)
  BY <1>1, EnEjecucion DEF Corriendo, Escrita
<1>3. Resuelta(cde_ejecutando.pid, registros_cpu, cde_ejecutando.ultima_instruccion)
        = cde_ejecutando.ultima_instruccion
  BY <1>1, <1>2, Resueltas DEF DeIO
<1>4. "FINALIZACION_EXIT" \in Propios
      /\ cde_ejecutando.ultima_instruccion.codigo \in Exigidos("FINALIZACION_EXIT")
  BY <1>1 DEF Propios, Exigidos
<1> QED BY <1>1, <1>2, <1>3, <1>4, PasoDesalojar DEF EjecutarExit, sockets

LEMMA PasoPedirRecurso ==
  ASSUME IInv, PedirRecurso
  PROVE  IInv' /\ Nada
<1> USE DEF IInv
<1>1. /\ fase = "ejecuta" /\ fase' = "pide" /\ aKernel'.tipo = "RECURSO_SOLICITUD"
      /\ cde_ejecutando.ultima_instruccion.codigo \in {"WAIT", "SIGNAL"}
      /\ UNCHANGED <<banderas, cpu, manejador, interrupciones, aCpu, kernel>>
  BY DEF PedirRecurso, Ejecuta, Avanza
<1>2. Ocupada /\ Ocupada' /\ ~HayCde' /\ Corriendo /\ EsCde(cde_ejecutando)'
  BY <1>1, EnEjecucion DEF Ocupada, HayCde, cpu
<1>3. PICK p \in Procesos :
        /\ p = pcb_en_ejecucion /\ p \notin esperando \cup terminados
        /\ Vistos(p) = VistoCpu /\ Vistos(p)' = VistoCpu'
        /\ Dentro(p) /\ DemasIguales(p)
        /\ Dentro(p)' => Programas'
        /\ VistoCpu \in Banco /\ registros_cpu \in Banco
  BY <1>1, <1>2, CpuSigue DEF kernel
<1>4. VistoCpu' = VistoCpu
  BY <1>1 DEF VistoCpu, EnMedio, cpu
<1>5. Dentro(p)'
  BY <1>1, <1>3, <1>4 DEF Dentro, cpu
<1>6. Programas' /\ Nada
  BY <1>1, <1>3, <1>4, <1>5 DEF Nada, MismosVistos, DemasIguales, kernel
<1>7. Tipos'
  BY <1>1 DEF Tipos, TypeOK, kernel, cpu, banderas
<1>8. Control'
  BY <1>1, <1>2 DEF Control, Corriendo, kernel, cpu
<1>9. Turno'
  BY <1>1 DEF Turno, banderas, cpu, kernel
<1>10. Ordenes'
  BY <1>1 DEF Ordenes, banderas, kernel
<1> QED BY <1>6, <1>7, <1>8, <1>9, <1>10

LEMMA PasoRecibirRespuesta ==
  ASSUME IInv, RecibirRespuesta
  PROVE  IInv' /\ (Nada \/ \E p \in Procesos : Hace(p))
<1> USE DEF IInv
<1>1. /\ fase = "pide" /\ fase' = "bucle" /\ aCpu' = SinMensaje /\ aCpu # SinMensaje
      /\ UNCHANGED <<pid_de_cde_ejecutando, registros_cpu, instruccion_actualizada, manejador,
                     interrupciones, aKernel, kernel>>
  BY DEF RecibirRespuesta, Avanza, Recibe, SinMensaje
<1>2. /\ aKernel' = SinMensaje /\ EsInstruccion(cde_ejecutando.ultima_instruccion)
      /\ cde_ejecutando.ultima_instruccion.codigo \in {"WAIT", "SIGNAL"}
  BY <1>1, EnEjecucion DEF Corriendo, Escrita, Turno
<1>3. CASE Recibe("RECURSO_OK") /\ UNCHANGED <<banderas, cde_ejecutando>>
  <2>1. registros_cpu' = Efecto(registros_cpu, cde_ejecutando.ultima_instruccion)
    BY <1>1, <1>2 DEF Efecto
  <2> QED BY <1>1, <1>2, <1>3, <2>1, PasoHace DEF DeIO
<1>4. CASE \E t \in {"RECURSO_INEXISTENTE", "RECURSO_SIN_INSTANCIAS"} :
             Recibe(t) /\ Desalojar(MotivoDe(t), cde_ejecutando.ultima_instruccion)
  <2>1. PICK t \in {"RECURSO_INEXISTENTE", "RECURSO_SIN_INSTANCIAS"} :
          Desalojar(MotivoDe(t), cde_ejecutando.ultima_instruccion)
    BY <1>4
  <2>2. PICK m : m = MotivoDe(t) /\ m \in Propios
                 /\ cde_ejecutando.ultima_instruccion.codigo \in Exigidos(m)
    BY <1>2 DEF Propios, Exigidos, MotivoDe
  <2>3. Resuelta(cde_ejecutando.pid, registros_cpu, cde_ejecutando.ultima_instruccion)
          = cde_ejecutando.ultima_instruccion
    BY <1>2, Resueltas DEF DeIO
  <2> QED BY <1>1, <1>2, <2>1, <2>2, <2>3, PasoDesalojar
<1> QED BY <1>3, <1>4 DEF RecibirRespuesta

\* The turn ends.  An instruction that asked for the end of the turn and is
\* not an I/O or an EXIT is over when an interrupt comes first.
LEMMA PasoSaleBucle ==
  ASSUME IInv, SaleBucle, ~CarreraDesalojo
  PROVE  IInv' /\ (Nada \/ \E p \in Procesos : Hace(p))
<1> USE DEF IInv
<1>1. /\ fase = "bucle" /\ fase' = "devuelve" /\ manejador = Nulo
      /\ interrupcion' = FALSE /\ realizar_desalojo' = FALSE /\ fin_q' = FALSE
      /\ cde_ejecutando' = [cde_ejecutando EXCEPT !.motivo_desalojo = MotivoDeSalida]
      /\ UNCHANGED <<pid_de_cde_ejecutando, registros_cpu, instruccion_actualizada, manejador,
                     sockets, kernel>>
  BY DEF SaleBucle, Avanza, Limpiar, Banderas
<1>2. /\ Ocupada /\ Ocupada' /\ ~HayCde /\ ~HayCde' /\ Corriendo /\ EsCde(cde_ejecutando)
      /\ EsInstruccion(cde_ejecutando.ultima_instruccion)
  BY <1>1, EnLaCpu DEF Ocupada, HayCde, sockets, EsCde
<1>3. PICK m : m = MotivoDeSalida
  OBVIOUS
<1>4. PICK i : i = cde_ejecutando.ultima_instruccion /\ i.codigo \in Codigos \cup {"NULO"}
  BY <1>2 DEF EsInstruccion
<1>5. /\ EsCde(cde_ejecutando') /\ cde_ejecutando'.ultima_instruccion = i
      /\ cde_ejecutando'.pid = cde_ejecutando.pid /\ cde_ejecutando'.motivo_desalojo = m
  <2>1. cde_ejecutando' = [cde_ejecutando EXCEPT !.motivo_desalojo = m]
    BY <1>1, <1>3
  <2>2. registros_cpu \in Banco
    BY DEF Tipos, TypeOK, Banco
  <2>3. EsCde(cde_ejecutando')
    BY <1>2, <2>1, <2>2, CdeCambia
  <2>4. cde_ejecutando' = [pid |-> cde_ejecutando.pid, motivo_desalojo |-> m,
                           registros |-> cde_ejecutando.registros, ultima_instruccion |-> i]
    BY <1>2, <1>4, <2>1, <2>2, CdeCambia
  <2> QED BY <2>3, <2>4
<1>6. PICK p \in Procesos :
        /\ p = pcb_en_ejecucion /\ p \notin esperando \cup terminados
        /\ Vistos(p) = VistoCpu /\ Vistos(p)' = VistoCpu'
        /\ Dentro(p) /\ DemasIguales(p)
        /\ Dentro(p)' => Programas'
        /\ VistoCpu \in Banco /\ registros_cpu \in Banco
  BY <1>1, <1>2, <1>5, CpuSigue DEF kernel
<1>7. /\ ~realizar_desalojo =>
           /\ i.codigo # "EXIT" /\ (i.codigo \notin DeIO \/ ~corrio)
           /\ ~interrupcion => i.codigo \notin DeIO
      /\ realizar_desalojo => cde_ejecutando.motivo_desalojo \in Propios /\ corrio
                              /\ i.codigo \in Exigidos(cde_ejecutando.motivo_desalojo)
  <2>1. interrupcion \/ realizar_desalojo \/ fin_q
    BY DEF SaleBucle, Desaloja
  <2> QED BY <1>1, <1>4, <2>1 DEF Turno, Coherente
<1>8. /\ interrupcion => m = "INTERRUPCION"
      /\ realizar_desalojo /\ ~interrupcion => m = cde_ejecutando.motivo_desalojo
      /\ ~realizar_desalojo /\ ~interrupcion => m = "FIN_DE_QUANTUM"
  BY <1>3 DEF MotivoDeSalida
<1>9. Coherente(cde_ejecutando)'
  <2>1. m \in Propios \cup {"INTERRUPCION", "FIN_DE_QUANTUM"}
    BY <1>7, <1>8
  <2>2. i.codigo \in Exigidos(m)
    BY <1>4, <1>7, <1>8 DEF Exigidos
  <2>3. m = "INTERRUPCION" => pcb_en_ejecucion \in condenados
    BY <1>7, <1>8 DEF Ordenes, Propios
  <2> QED BY <1>1, <1>5, <2>1, <2>2, <2>3 DEF Coherente, kernel
<1>10. /\ EnMedio <=> realizar_desalojo
       /\ EnMedio' <=> \/ m \in Propios
                       \/ m = "INTERRUPCION" /\ corrio /\ i.codigo \in DeIO \cup {"EXIT"}
  BY <1>1, <1>5, <1>7 DEF EnMedio, Cede, Propios, kernel
<1>11. /\ EnMedio' => EnMedio
       /\ EnMedio /\ ~EnMedio' => i.codigo \in {"RESIZE", "WAIT", "SIGNAL"}
  BY <1>7, <1>8, <1>10 DEF Exigidos, Propios
<1>12. Tipos'
  BY <1>1 DEF Tipos, TypeOK, kernel, sockets
<1>13. Control'
  BY <1>1, <1>2, <1>5 DEF Control, Corriendo, kernel, sockets
<1>14. Turno'
  BY <1>1, <1>9 DEF Turno, Limpia, kernel
<1>15. Ordenes'
  BY <1>1, NuloAssumption DEF Ordenes, kernel, sockets
<1>16. CASE EnMedio' <=> EnMedio
  <2>1. VistoCpu' = VistoCpu
    BY <1>1, <1>16 DEF VistoCpu
  <2>2. Dentro(p)'
    BY <1>1, <1>4, <1>5, <1>6, <1>16, <2>1 DEF Dentro
  <2>3. Nada
    BY <1>1, <1>6, <2>1 DEF Nada, MismosVistos, DemasIguales, kernel
  <2> QED BY <1>6, <1>12, <1>13, <1>14, <1>15, <2>2, <2>3
<1>17. CASE EnMedio /\ ~EnMedio'
  <2>1. i.codigo \in {"RESIZE", "WAIT", "SIGNAL"}
    BY <1>11, <1>17
  <2>2. PICK j : j = Pedida(p, VistoCpu["PC"])
    OBVIOUS
  <2>3. i = Resuelta(p, VistoCpu, j)
    BY <1>1, <1>4, <1>6, <1>17, <2>2 DEF Dentro
  <2>4. VistoCpu["PC"] \in Nat /\ VistoCpu["PC"] < Len(Cargadas[p])
    BY <1>6, IdaYVuelta DEF Dentro
  <2>5. EsInstruccion(j)
    BY <1>6, <2>2, <2>4, Pedido DEF Escrita
  <2>6. j.codigo = i.codigo
    BY <2>3, <2>5, Resueltas
  <2>7. VistoCpu' = Avanzar(VistoCpu)
    <3>1. VistoCpu' = registros_cpu
      BY <1>1, <1>17 DEF VistoCpu
    <3>2. VistoCpu = Atras(registros_cpu)
      BY <1>17 DEF VistoCpu
    <3> QED BY <1>6, <3>1, <3>2, IdaYVuelta
  <2>8. VistoCpu' = Efecto(Avanzar(VistoCpu), j)
    BY <2>1, <2>6, <2>7 DEF Efecto
  <2>9. VistoCpu'["PC"] < Len(Cargadas[p])
    BY <1>6, <2>1, <2>2, <2>4, <2>6, <2>8, SigueDentro
  <2>10. Dentro(p)'
    BY <1>1, <1>17, <2>9 DEF Dentro
  <2>11. Toca(p) = j
    BY <1>6, <2>2 DEF Toca
  <2>12. Hace(p)
    BY <1>1, <1>6, <2>1, <2>6, <2>8, <2>11 DEF Hace, DeIO, kernel
  <2> QED BY <1>6, <1>12, <1>13, <1>14, <1>15, <2>10, <2>12
<1> QED BY <1>11, <1>16, <1>17

\* The context leaves the CPU as a message.
LEMMA PasoDevolver ==
  ASSUME IInv, Devolver
  PROVE  IInv' /\ Nada
<1> USE DEF IInv
<1>1. /\ fase = "devuelve" /\ fase' = "borra_pid" /\ HayCde'
      /\ aKernel'.contenido = buffer_write_cde(Guardados)
      /\ UNCHANGED <<banderas, cpu, manejador, interrupciones, aCpu, kernel>>
  BY DEF Devolver, Avanza, HayCde
<1>2. /\ Ocupada /\ ~Ocupada' /\ ~HayCde /\ Corriendo /\ EsCde(cde_ejecutando)
      /\ Limpia /\ Coherente(cde_ejecutando)
  BY <1>1, EnLaCpu DEF Ocupada, Turno
<1>3. PICK p \in Procesos : p = pcb_en_ejecucion /\ p \notin esperando \cup terminados
  BY <1>2, EnLaCpu
<1>4. Vistos(p) = VistoCpu /\ Dentro(p)
  BY <1>2, <1>3, VistosPorLugar DEF SegunLugar, Programas
<1>5. PICK c : c = Guardados
  OBVIOUS
<1>6. /\ EsCde(c) /\ c.pid = p /\ c.motivo_desalojo = cde_ejecutando.motivo_desalojo
      /\ c.registros = registros_cpu /\ c.ultima_instruccion = cde_ejecutando.ultima_instruccion
  <2>1. registros_cpu \in Banco
    BY DEF Tipos, TypeOK, Banco
  <2>2. EsInstruccion(cde_ejecutando.ultima_instruccion)
    BY <1>2 DEF EsCde
  <2>3. EsCde(c)
    BY <1>2, <1>5, <2>1, <2>2, CdeCambia DEF Guardados
  <2>4. c = [pid |-> cde_ejecutando.pid, motivo_desalojo |-> cde_ejecutando.motivo_desalojo,
             registros |-> registros_cpu, ultima_instruccion |-> cde_ejecutando.ultima_instruccion]
    BY <1>2, <1>5, <2>1, <2>2, CdeCambia DEF Guardados
  <2> QED BY <1>2, <1>3, <2>3, <2>4 DEF Corriendo
<1>7. Recibido' = c
  <2>1. Recibido' = buffer_read_cde(buffer_write_cde(c))
    BY <1>1, <1>5 DEF Recibido
  <2> QED BY <1>6, <2>1, CdeViaja
<1>8. (Cede(Recibido)' <=> EnMedio) /\ VistoVuelta' = VistoCpu
  <2>1. Cede(Recibido)' <=> EnMedio
    BY <1>1, <1>6, <1>7 DEF Cede, EnMedio, kernel
  <2> QED BY <1>6, <1>7, <2>1 DEF VistoVuelta, VistoCpu
<1>9. Vuelto(p)'
  BY <1>1, <1>4, <1>6, <1>7, <1>8 DEF Vuelto, Dentro
<1>10. p = pcb_en_ejecucion' /\ p \notin terminados' /\ p \notin esperando'
  BY <1>1, <1>3 DEF kernel
<1>11. Vistos(p)' = Vistos(p) /\ Programa(p)'
  BY <1>1, <1>2, <1>4, <1>8, <1>9, <1>10, VistosPorLugarSig DEF SegunLugar
<1>12. \A q \in Procesos \ {p} : Vistos(q)' = Vistos(q) /\ (Programa(q) => Programa(q)')
  BY <1>1, <1>3, OtroIgual DEF kernel
<1>13. Programas' /\ Nada
  BY <1>1, <1>11, <1>12 DEF Programas, Continua, Nada, MismosVistos, kernel
<1>14. Tipos'
  BY <1>1 DEF Tipos, TypeOK, kernel, cpu, banderas
<1>15. Coherente(Recibido)'
  BY <1>1, <1>2, <1>6, <1>7 DEF Coherente, kernel
<1>16. Control'
  BY <1>1, <1>2, <1>3, <1>6, <1>7, <1>15, NuloAssumption DEF Control, Corriendo, Volviendo, kernel
<1>17. Turno'
  BY <1>1, <1>2 DEF Turno, Limpia, banderas, kernel
<1>18. Ordenes'
  BY <1>1 DEF Ordenes, banderas, kernel
<1> QED BY <1>13, <1>14, <1>16, <1>17, <1>18

\* The marks for the interrupt thread, after the context was sent.
LEMMA PasoBorrarPid ==
  ASSUME IInv, BorrarPid
  PROVE  IInv' /\ Nada
<1> USE DEF IInv
<1>1. /\ fase = "borra_pid" /\ fase' = "borra_instruccion" /\ pid_de_cde_ejecutando' = Nulo
      /\ UNCHANGED <<banderas, cde_ejecutando, registros_cpu, instruccion_actualizada, manejador,
                     sockets, kernel>>
  BY DEF BorrarPid, Avanza
<1>2. ~Ocupada /\ ~Ocupada' /\ Recibido' = Recibido
  BY <1>1 DEF Ocupada, Recibido, sockets
<1>3. Programas' /\ Nada
  BY <1>1, <1>2, MismaVista DEF Nada, kernel, sockets
<1>4. Tipos'
  BY <1>1 DEF Tipos, TypeOK, kernel, banderas, sockets
<1>5. Control'
  BY <1>1, <1>2
     DEF Control, Corriendo, Yendo, Volviendo, Coherente, HayCde, kernel, sockets
<1>6. Turno'
  BY <1>1 DEF Turno, Limpia, banderas, kernel
<1>7. Ordenes'
  BY <1>1 DEF Ordenes, banderas, kernel, sockets
<1> QED BY <1>3, <1>4, <1>5, <1>6, <1>7

LEMMA PasoBorrarInstruccion ==
  ASSUME IInv, BorrarInstruccion
  PROVE  IInv' /\ Nada
<1> USE DEF IInv
<1>1. /\ fase = "borra_instruccion" /\ fase' = "libre" /\ instruccion_actualizada' = "NULO"
      /\ UNCHANGED <<banderas, pid_de_cde_ejecutando, registros_cpu, manejador, sockets, kernel>>
  BY DEF BorrarInstruccion, Avanza
<1>2. ~Ocupada /\ ~Ocupada' /\ Recibido' = Recibido
  BY <1>1 DEF Ocupada, Recibido, sockets
<1>3. Programas' /\ Nada
  BY <1>1, <1>2, MismaVista DEF Nada, kernel, sockets
<1>4. Tipos'
  BY <1>1 DEF Tipos, TypeOK, kernel, banderas, sockets
<1>5. Control'
  BY <1>1, <1>2
     DEF Control, Corriendo, Yendo, Volviendo, Coherente, HayCde, kernel, sockets
<1>6. Turno'
  BY <1>1 DEF Turno, Limpia, banderas, kernel
<1>7. Ordenes'
  BY <1>1 DEF Ordenes, banderas, kernel, sockets
<1> QED BY <1>3, <1>4, <1>5, <1>6, <1>7

(***************************************************************************)
(* The interrupt thread.                                                   *)
(***************************************************************************)

\* Taking the first message.
LEMMA Sacada ==
  ASSUME NEW V, NEW s \in Seq(V), s # <<>>
  PROVE  /\ Head(s) \in V /\ 1 \in DOMAIN s /\ Head(s) = s[1]
         /\ Tail(s) \in Seq(V)
         /\ \A k \in DOMAIN Tail(s) : k + 1 \in DOMAIN s /\ Tail(s)[k] = s[k + 1]
<1>1. Len(s) \in Nat /\ Len(s) > 0 /\ DOMAIN s = 1..Len(s)
  OBVIOUS
<1>2. Len(Tail(s)) = Len(s) - 1 /\ DOMAIN Tail(s) = 1..(Len(s) - 1)
  BY <1>1
<1> QED BY <1>1, <1>2

LEMMA PasoRecibirInterrupcion ==
  ASSUME IInv, RecibirInterrupcion, ~CarreraDesalojo
  PROVE  IInv' /\ Nada
<1> USE DEF IInv
<1> DEFINE M == [codigo : {"INTERRUPT", "DESALOJO"}, pid : Procesos]
<1>1. /\ manejador = Nulo /\ interrupciones # <<>> /\ EnTurno
      /\ interrupciones' = Tail(interrupciones)
      /\ manejador' = IF Head(interrupciones).pid = pid_de_cde_ejecutando
                      THEN Head(interrupciones).codigo ELSE Nulo
      /\ UNCHANGED <<fase, banderas, cpu, aCpu, aKernel, kernel>>
  BY DEF RecibirInterrupcion, EsDelQueCorre
<1>2. PICK s \in Seq(M), t \in Seq(M) : s = interrupciones /\ t = Tail(s) /\ t = interrupciones'
  <2>1. interrupciones \in Seq(M)
    BY DEF Tipos
  <2>2. Tail(interrupciones) \in Seq(M)
    BY <1>1, <2>1, Sacada
  <2> QED BY <1>1, <2>1, <2>2
<1>3. PICK m \in M : /\ m = s[1] /\ 1 \in DOMAIN s
                     /\ manejador' = IF m.pid = pid_de_cde_ejecutando THEN m.codigo ELSE Nulo
  <2> HIDE DEF M
  <2> QED BY <1>1, <1>2, Sacada
<1>4. \A k \in DOMAIN t : k + 1 \in DOMAIN s /\ t[k] = s[k + 1]
  <2> HIDE DEF M
  <2> QED BY <1>1, <1>2, Sacada
<1>5. Ocupada' <=> Ocupada
  BY <1>1 DEF Ocupada
<1>6. Programas' /\ Nada
  BY <1>1, <1>5, MismaVista DEF Nada, kernel, cpu, banderas
<1>7. Tipos'
  BY <1>1, <1>2, <1>3 DEF Tipos, TypeOK, kernel, cpu, banderas
<1>8. Control'
  BY <1>1 DEF Control, Corriendo, Yendo, Volviendo, Coherente, HayCde, Recibido, Ocupada,
              kernel, cpu
<1>9. Turno'
  <2>1. fase \in {"libre", "borra_instruccion"} => manejador' = Nulo
    BY <1>3, NuloAssumption DEF Turno
  <2>2. fase \in {"libre", "fetch", "ejecuta", "pide", "borra_instruccion", "bucle"}
    BY <1>1 DEF EnTurno, Tipos, TypeOK
  <2> QED BY <1>1, <2>1, <2>2 DEF Turno, Limpia, Coherente, HayCde, banderas, cpu, kernel
<1>10. Ordenes'
  <2>1. \A k \in DOMAIN t : t[k].codigo = "INTERRUPT" => t[k].pid \in condenados
    BY <1>2, <1>4 DEF Ordenes
  <2>2. manejador' = "INTERRUPT" => pcb_en_ejecucion \in condenados
    <3>1. ASSUME manejador' = "INTERRUPT" PROVE pcb_en_ejecucion \in condenados
      <4>1. m.codigo = "INTERRUPT" /\ m.pid = pid_de_cde_ejecutando
        BY <1>3, <3>1, NuloAssumption
      <4>2. m.pid \in condenados
        BY <1>2, <1>3, <4>1 DEF Ordenes
      <4>3. pid_de_cde_ejecutando # Nulo
        BY <4>1, NuloAssumption
      <4>4. Ocupada
        BY <1>1, <4>3 DEF EnTurno, Turno, Ocupada, Tipos, TypeOK
      <4>5. pid_de_cde_ejecutando = pcb_en_ejecucion
        BY <4>4, EnLaCpu DEF Corriendo
      <4> QED BY <4>1, <4>2, <4>5
    <3> QED BY <3>1
  <2> QED BY <1>1, <1>2, <2>1, <2>2 DEF Ordenes, banderas, kernel
<1> QED BY <1>6, <1>7, <1>8, <1>9, <1>10

LEMMA PasoMirarInstruccion ==
  ASSUME IInv, MirarInstruccion
  PROVE  IInv' /\ Nada
<1> USE DEF IInv
<1>1. /\ manejador = "DESALOJO" /\ manejador' \in {Nulo, "FIN_Q"}
      /\ UNCHANGED <<fase, banderas, cpu, sockets, kernel>>
  BY DEF MirarInstruccion
<1>2. Ocupada' <=> Ocupada
  BY <1>1 DEF Ocupada
<1>3. Programas' /\ Nada
  BY <1>1, <1>2, MismaVista DEF Nada, kernel, cpu, banderas, sockets
<1>4. Tipos'
  BY <1>1 DEF Tipos, TypeOK, kernel, cpu, banderas, sockets
<1>5. Control'
  BY <1>1 DEF Control, Corriendo, Yendo, Volviendo, Coherente, HayCde, Recibido, Ocupada,
              kernel, cpu, sockets
<1>6. Turno'
  BY <1>1, NuloAssumption DEF Turno, Limpia, Coherente, HayCde, banderas, cpu, kernel, sockets
<1>7. Ordenes'
  BY <1>1, NuloAssumption DEF Ordenes, banderas, kernel, sockets
<1> QED BY <1>3, <1>4, <1>5, <1>6, <1>7

\* The flag of the clock is not for a turn that has run nothing and would
\* ask for its last I/O again.
LEMMA PasoMarcar ==
  ASSUME IInv, Marcar, ~CarreraInicio
  PROVE  IInv' /\ Nada
<1> USE DEF IInv
<1>1. /\ manejador \in {"INTERRUPT", "FIN_Q"} /\ manejador' = Nulo
      /\ interrupcion' = (interrupcion \/ manejador = "INTERRUPT")
      /\ fin_q' = (fin_q \/ manejador = "FIN_Q")
      /\ manejador = "INTERRUPT" \/ ~Repetiria
      /\ UNCHANGED <<realizar_desalojo, fase, cpu, sockets, kernel>>
  BY DEF Marcar, Banderas
<1>2. Ocupada' <=> Ocupada
  BY <1>1 DEF Ocupada
<1>3. Programas' /\ Nada
  BY <1>1, <1>2, MismaVista DEF Nada, kernel, cpu, sockets
<1>4. Tipos'
  BY <1>1 DEF Tipos, TypeOK, kernel, cpu, sockets
<1>5. Control'
  BY <1>1 DEF Control, Corriendo, Yendo, Volviendo, Coherente, HayCde, Recibido, Ocupada,
              kernel, cpu, sockets
<1>6. Turno'
  BY <1>1, NuloAssumption DEF Turno, Limpia, Coherente, Repetiria, HayCde, cpu, kernel, sockets
<1>7. Ordenes'
  BY <1>1, NuloAssumption DEF Ordenes, kernel, sockets
<1> QED BY <1>3, <1>4, <1>5, <1>6, <1>7

(***************************************************************************)
(* The Kernel.                                                             *)
(***************************************************************************)

LEMMA PasoDespachar ==
  ASSUME IInv, NEW p \in Procesos, Despachar(p)
  PROVE  IInv' /\ Nada
<1> USE DEF IInv
<1>1. /\ pcb_en_ejecucion = Nulo /\ p \notin terminados \cup esperando
      /\ pcb_en_ejecucion' = p /\ reloj' = TRUE /\ corrio' = FALSE
      /\ aCpu' = [tipo |-> "EJECUTAR_PROCESO", contenido |-> buffer_write_cde(cde[p])]
      /\ UNCHANGED <<fase, banderas, cpu, manejador, interrupciones, aKernel, cde, esperando,
                     pedidos, terminados, condenados>>
  BY DEF Despachar
<1>2. ~Ocupada /\ ~Ocupada' /\ ~HayCde /\ ~HayCde' /\ aKernel = SinMensaje
  BY <1>1 DEF Control, Ocupada, HayCde, SinMensaje
<1>3. \A q \in Procesos : Vistos(q)' = Vistos(q) /\ (Programa(q) => Programa(q)')
  <2> SUFFICES ASSUME NEW q \in Procesos
               PROVE  Vistos(q)' = Vistos(q) /\ (Programa(q) => Programa(q)')
    OBVIOUS
  <2>1. /\ Vistos(q) = IF q \in terminados THEN Nuevos
                       ELSE IF q \in esperando THEN Atras(cde[q].registros)
                       ELSE cde[q].registros
        /\ Programa(q) <=> /\ Vistos(q)["PC"] < Len(Cargadas[q])
                           /\ q \in esperando => Toca(q).codigo \in {"WAIT", "SIGNAL"}
    BY <1>2, VistosPorLugar DEF SegunLugar
  <2>2. /\ Vistos(q)' = IF q \in terminados' THEN Nuevos
                        ELSE IF q \in esperando' THEN Atras(cde'[q].registros)
                        ELSE cde'[q].registros
        /\ Programa(q)' <=> /\ Vistos(q)'["PC"] < Len(Cargadas[q])
                            /\ q \in esperando' => Toca(q)'.codigo \in {"WAIT", "SIGNAL"}
    BY <1>2, VistosPorLugarSig DEF SegunLugar
  <2>3. Vistos(q)' = Vistos(q)
    BY <1>1, <2>1, <2>2
  <2>4. Toca(q)' = Toca(q)
    BY <2>3 DEF Toca
  <2> QED BY <1>1, <2>1, <2>2, <2>3, <2>4
<1>4. Programas' /\ Nada
  BY <1>1, <1>3 DEF Programas, Continua, Nada, MismosVistos
<1>5. Tipos'
  BY <1>1 DEF Tipos, TypeOK, cpu, banderas
<1>6. Control'
  <2>1. Yendo'
    BY <1>1, <1>2 DEF Yendo
  <2>2. p # Nulo
    BY NuloAssumption
  <2> QED BY <1>1, <2>1, <2>2 DEF Control
<1>7. Turno'
  BY <1>1, <1>2 DEF Turno, Limpia, Ocupada, HayCde, cpu, banderas
<1>8. Ordenes'
  <2>1. manejador # "INTERRUPT" /\ ~interrupcion
    BY <1>2, NuloAssumption DEF Turno, Limpia, Ocupada
  <2> QED BY <1>1, <2>1 DEF Ordenes, banderas
<1> QED BY <1>4, <1>5, <1>6, <1>7, <1>8

\* A message more for the interrupt thread.
LEMMA Agregada ==
  ASSUME NEW V, NEW s \in Seq(V), NEW m \in V
  PROVE  /\ Append(s, m) \in Seq(V)
         /\ \A k \in DOMAIN Append(s, m) : (k \in DOMAIN s /\ Append(s, m)[k] = s[k])
                                           \/ Append(s, m)[k] = m
OBVIOUS

LEMMA PasoInterrumpir ==
  ASSUME IInv, NEW c \in {"INTERRUPT", "DESALOJO"}, Interrumpir(c), reloj' \in BOOLEAN,
         \/ c = "DESALOJO" /\ condenados' = condenados
         \/ condenados' = condenados \cup {pcb_en_ejecucion}
  PROVE  IInv' /\ MismosVistos /\ pcb_en_ejecucion \in Procesos
<1> USE DEF IInv
<1> DEFINE M == [codigo : {"INTERRUPT", "DESALOJO"}, pid : Procesos]
<1>1. /\ pcb_en_ejecucion # Nulo
      /\ interrupciones' = Append(interrupciones, [codigo |-> c, pid |-> pcb_en_ejecucion])
      /\ UNCHANGED <<fase, banderas, cpu, manejador, aCpu, aKernel, cde, pcb_en_ejecucion,
                     esperando, corrio, pedidos, terminados>>
  BY DEF Interrumpir
<1>2. pcb_en_ejecucion \in Procesos
  BY <1>1 DEF Tipos, TypeOK
<1>3. PICK m \in M : m = [codigo |-> c, pid |-> pcb_en_ejecucion]
  BY <1>2
<1>4. PICK s \in Seq(M), t \in Seq(M) :
        /\ s = interrupciones /\ t = interrupciones'
        /\ \A k \in DOMAIN t : (k \in DOMAIN s /\ t[k] = s[k]) \/ t[k] = m
  <2>1. interrupciones \in Seq(M)
    BY DEF Tipos
  <2>2. interrupciones' = Append(interrupciones, m)
    BY <1>1, <1>3
  <2> HIDE DEF M
  <2> QED BY <2>1, <2>2, Agregada
<1>5. Ocupada' <=> Ocupada
  BY <1>1 DEF Ocupada
<1>6. Programas' /\ MismosVistos
  BY <1>1, <1>5, MismaVista DEF cpu, banderas
<1>7. condenados \subseteq condenados' /\ condenados' \subseteq Procesos
  BY <1>2 DEF Tipos, TypeOK
<1>8. Tipos'
  BY <1>1, <1>4, <1>7 DEF Tipos, TypeOK, cpu, banderas
<1>9. Control'
  BY <1>1, <1>7 DEF Control, Corriendo, Yendo, Volviendo, Coherente, HayCde, Recibido, Ocupada,
                    cpu
<1>10. Turno'
  BY <1>1, <1>7 DEF Turno, Limpia, Coherente, HayCde, banderas, cpu
<1>11. Ordenes'
  <2>1. m.codigo = c /\ m.pid = pcb_en_ejecucion
    BY <1>3
  <2>2. \A k \in DOMAIN t : t[k].codigo = "INTERRUPT" => t[k].pid \in condenados'
    BY <1>4, <1>7, <2>1 DEF Ordenes
  <2> QED BY <1>1, <1>4, <1>7, <2>2 DEF Ordenes, banderas
<1> QED BY <1>2, <1>6, <1>8, <1>9, <1>10, <1>11

LEMMA PasoFinDeQuantum ==
  ASSUME IInv, FinDeQuantum
  PROVE  IInv' /\ Nada
<1>1. Interrumpir("DESALOJO") /\ reloj' \in BOOLEAN /\ condenados' = condenados
  BY DEF FinDeQuantum
<1>2. IInv' /\ MismosVistos
  BY <1>1, PasoInterrumpir
<1> QED BY <1>1, <1>2 DEF Nada, Interrumpir

LEMMA PasoFinalizar ==
  ASSUME IInv, Finalizar
  PROVE  IInv' /\ \E p \in Procesos : Condena(p)
<1>1. /\ Interrumpir("INTERRUPT") /\ reloj' \in BOOLEAN
      /\ condenados' = condenados \cup {pcb_en_ejecucion}
  BY DEF Finalizar, IInv, Tipos, TypeOK
<1>2. IInv' /\ MismosVistos /\ pcb_en_ejecucion \in Procesos
  BY <1>1, PasoInterrumpir
<1>3. PICK p \in Procesos : p = pcb_en_ejecucion
  BY <1>2
<1>4. Condena(p)
  BY <1>1, <1>2, <1>3 DEF Condena, Interrumpir
<1> QED BY <1>2, <1>4

LEMMA PasoResponderRecurso ==
  ASSUME IInv, ResponderRecurso
  PROVE  IInv' /\ Nada
<1> USE DEF IInv
<1>1. /\ aKernel.tipo = "RECURSO_SOLICITUD" /\ aKernel' = SinMensaje
      /\ aCpu'.tipo \in {"RECURSO_OK", "RECURSO_INEXISTENTE", "RECURSO_SIN_INSTANCIAS"}
      /\ UNCHANGED <<fase, banderas, cpu, manejador, interrupciones, kernel>>
  BY DEF ResponderRecurso
<1>2. fase = "pide" /\ Corriendo
  BY <1>1 DEF Control, Corriendo, Yendo, Volviendo, HayCde, SinMensaje
<1>3. Ocupada /\ Ocupada' /\ ~HayCde' /\ EsCde(cde_ejecutando)'
  BY <1>1, <1>2 DEF Ocupada, Corriendo, HayCde, SinMensaje, cpu
<1>4. PICK p \in Procesos :
        /\ p = pcb_en_ejecucion /\ p \notin esperando \cup terminados
        /\ Vistos(p) = VistoCpu /\ Vistos(p)' = VistoCpu'
        /\ Dentro(p) /\ DemasIguales(p)
        /\ Dentro(p)' => Programas'
        /\ VistoCpu \in Banco /\ registros_cpu \in Banco
  BY <1>1, <1>3, CpuSigue DEF kernel
<1>5. VistoCpu' = VistoCpu
  BY <1>1, <1>2 DEF VistoCpu, EnMedio, cpu
<1>6. Dentro(p)'
  BY <1>1, <1>2, <1>4, <1>5 DEF Dentro, cpu
<1>7. Programas' /\ Nada
  BY <1>1, <1>4, <1>5, <1>6 DEF Nada, MismosVistos, DemasIguales, kernel
<1>8. Tipos'
  BY <1>1 DEF Tipos, TypeOK, kernel, cpu, banderas
<1>9. Control'
  BY <1>1, <1>2, <1>3 DEF Control, Corriendo, kernel, cpu
<1>10. Turno'
  BY <1>1, <1>2 DEF Turno, banderas, cpu, kernel
<1>11. Ordenes'
  BY <1>1 DEF Ordenes, banderas, kernel
<1> QED BY <1>7, <1>8, <1>9, <1>10, <1>11

\* The context that came back, and the place it is saved in.
LEMMA AlDejarExec ==
  ASSUME IInv, HayCde, DejaExec(Recibido)
  PROVE  \E p \in Procesos :
           /\ p = pcb_en_ejecucion /\ p \notin esperando \cup terminados
           /\ EsCde(Recibido) /\ Coherente(Recibido) /\ Recibido.registros \in Banco
           /\ Vistos(p) = VistoVuelta /\ Vistos(p) \in Banco /\ Vuelto(p)
           /\ Cede(Recibido) => /\ Toca(p).codigo = Recibido.ultima_instruccion.codigo
                                /\ Recibido.registros = Avanzar(Vistos(p))
                                /\ EsInstruccion(Toca(p))
           /\ cde'[p] = Recibido
           /\ \A q \in Procesos \ {p} : cde'[q] = cde[q]
           /\ ~Ocupada /\ ~Ocupada' /\ ~HayCde'
           /\ pcb_en_ejecucion' = Nulo /\ Ordenes' /\ Turno'
           /\ DOMAIN cde' = Procesos /\ cde' = [q \in Procesos |-> cde'[q]]
           /\ \A q \in Procesos : EsCde(cde'[q]) /\ cde'[q].pid = q
<1> USE DEF IInv
<1>1. /\ aKernel' = SinMensaje /\ cde' = [cde EXCEPT ![pcb_en_ejecucion] = Recibido]
      /\ pcb_en_ejecucion' = Nulo
      /\ UNCHANGED <<fase, banderas, cpu, manejador, interrupciones, aCpu, reloj, corrio, condenados>>
  BY DEF DejaExec
<1>2. pcb_en_ejecucion # Nulo /\ Volviendo
  BY DEF Control, Corriendo, Yendo, HayCde, SinMensaje
<1>3. PICK p \in Procesos : p = pcb_en_ejecucion /\ p \notin esperando \cup terminados
  BY <1>2 DEF Tipos, TypeOK, Control
<1>4. PICK c : c = Recibido /\ EsCde(c) /\ c.pid = p /\ EsInstruccion(c.ultima_instruccion)
  BY <1>2, <1>3 DEF Volviendo, EsCde
<1>5. ~Ocupada /\ ~Ocupada' /\ ~HayCde' /\ Coherente(Recibido)
  BY <1>1, <1>2 DEF Volviendo, Ocupada, HayCde, SinMensaje
<1>6. Vistos(p) = VistoVuelta /\ Vuelto(p)
  BY <1>3, <1>5, VistosPorLugar DEF SegunLugar, Programas
<1>7. c.registros \in Banco /\ Vistos(p) \in Banco
  BY <1>4, CadaVistaEsBanco DEF EsCde
<1>8. ASSUME Cede(Recibido)
      PROVE  /\ Toca(p).codigo = Recibido.ultima_instruccion.codigo
             /\ Recibido.registros = Avanzar(Vistos(p))
             /\ EsInstruccion(Toca(p))
  <2>1. Vistos(p) = Atras(c.registros)
    BY <1>4, <1>6, <1>8 DEF VistoVuelta
  <2>2. c.registros = Avanzar(Vistos(p))
    BY <1>7, <2>1, IdaYVuelta
  <2>3. PICK j : j = Toca(p)
    OBVIOUS
  <2>4. c.ultima_instruccion = Resuelta(p, Vistos(p), j)
    BY <1>4, <1>6, <1>8, <2>3 DEF Vuelto, Toca
  <2>5. Vistos(p)["PC"] \in Nat /\ Vistos(p)["PC"] < Len(Cargadas[p])
    BY <1>6, <1>7, IdaYVuelta DEF Vuelto
  <2>6. EsInstruccion(j)
    BY <2>3, <2>5, Pedido DEF Toca, Escrita
  <2>7. j.codigo = c.ultima_instruccion.codigo
    BY <2>4, <2>6, Resueltas
  <2> QED BY <1>4, <2>2, <2>3, <2>6, <2>7
<1>9. /\ cde'[p] = c /\ \A q \in Procesos \ {p} : cde'[q] = cde[q]
      /\ DOMAIN cde' = Procesos /\ cde' = [q \in Procesos |-> cde'[q]]
  BY <1>1, <1>3, <1>4 DEF Tipos
<1>10. \A q \in Procesos : EsCde(cde'[q]) /\ cde'[q].pid = q
  BY <1>4, <1>9 DEF Tipos
<1>11. Limpia
  BY <1>5 DEF Turno, Ocupada
<1>12. Turno'
  BY <1>1, <1>5, <1>11 DEF Turno, Limpia, Ocupada, banderas, cpu
<1>13. Ordenes'
  BY <1>1, <1>11, NuloAssumption DEF Ordenes, Limpia, banderas
<1> QED BY <1>1, <1>3, <1>4, <1>5, <1>6, <1>7, <1>8, <1>9, <1>10, <1>12, <1>13

\* Where the process goes next is known: nobody else moves.
LEMMA DejaIgualLosDemas ==
  ASSUME NEW p \in Procesos, p = pcb_en_ejecucion, pcb_en_ejecucion' = Nulo,
         \A q \in Procesos \ {p} : cde'[q] = cde[q],
         esperando' \in {esperando, esperando \cup {p}},
         terminados' \in {terminados, terminados \cup {p}}
  PROVE  \A q \in Procesos \ {p} : Vistos(q)' = Vistos(q) /\ (Programa(q) => Programa(q)')
<1> SUFFICES ASSUME NEW q \in Procesos \ {p}
             PROVE  Vistos(q)' = Vistos(q) /\ (Programa(q) => Programa(q)')
  OBVIOUS
<1>1. q # pcb_en_ejecucion /\ q # pcb_en_ejecucion' /\ cde'[q] = cde[q]
  BY NuloAssumption
<1>2. (q \in esperando' <=> q \in esperando) /\ (q \in terminados' <=> q \in terminados)
  OBVIOUS
<1> QED BY <1>1, <1>2, OtroIgual

\* What holds of the process that has just left EXEC.
LEMMA YaFuera ==
  ASSUME NEW p \in Procesos, ~Ocupada', ~HayCde'
  PROVE  /\ Vistos(p)' = IF p \in terminados' THEN Nuevos
                         ELSE IF p \in esperando' THEN Atras(cde'[p].registros)
                         ELSE cde'[p].registros
         /\ Programa(p)' <=> /\ Vistos(p)'["PC"] < Len(Cargadas[p])
                             /\ p \in esperando' => Toca(p)'.codigo \in {"WAIT", "SIGNAL"}
BY VistosPorLugarSig DEF SegunLugar

LEMMA ControlAlDejarExec ==
  ASSUME IInv, HayCde, DejaExec(Recibido),
         esperando' \in {esperando, esperando \cup {pcb_en_ejecucion}},
         terminados' \in {terminados, terminados \cup {pcb_en_ejecucion}},
         esperando' = esperando \/ terminados' = terminados
  PROVE  Tipos' /\ Control'
<1> USE DEF IInv
<1>1. PICK p \in Procesos :
        /\ p = pcb_en_ejecucion /\ p \notin esperando \cup terminados
        /\ ~Ocupada /\ ~Ocupada' /\ ~HayCde' /\ pcb_en_ejecucion' = Nulo
        /\ DOMAIN cde' = Procesos /\ cde' = [q \in Procesos |-> cde'[q]]
        /\ \A q \in Procesos : EsCde(cde'[q]) /\ cde'[q].pid = q
  BY AlDejarExec
<1>2. /\ aKernel' = SinMensaje
      /\ UNCHANGED <<fase, banderas, cpu, manejador, interrupciones, aCpu, reloj, corrio, condenados>>
  BY DEF DejaExec
<1>3. aCpu = SinMensaje
  BY <1>1 DEF Control, Corriendo, Yendo, Volviendo, HayCde, SinMensaje
<1>4. Tipos'
  BY <1>1, <1>2 DEF Tipos, TypeOK, cpu, banderas
<1>5. Nulo \notin esperando' \cup terminados'
  <2>1. esperando' \cup terminados' \subseteq Procesos
    BY <1>1 DEF Tipos, TypeOK
  <2> QED BY <2>1, NuloAssumption
<1>6. esperando' \cap terminados' = {}
  BY <1>1 DEF Control
<1> QED BY <1>1, <1>2, <1>3, <1>4, <1>5, <1>6 DEF Control

LEMMA PasoExecAFinalizado ==
  ASSUME IInv, ExecAFinalizado
  PROVE  IInv' /\ \E p \in Procesos : Acaba(p)
<1> USE DEF IInv
<1>1. /\ HayCde /\ DejaExec(Recibido)
      /\ terminados' = terminados \cup {pcb_en_ejecucion}
      /\ UNCHANGED <<esperando, pedidos, condenados>>
      /\ \/ Recibido.motivo_desalojo \in PorError
         \/ /\ Recibido.motivo_desalojo # "RECURSO_NO_DISPONIBLE"
            /\ Recibido.ultima_instruccion.codigo = "EXIT"
  BY DEF ExecAFinalizado, DejaExec
<1>2. PICK p \in Procesos :
           /\ p = pcb_en_ejecucion /\ p \notin esperando \cup terminados
           /\ EsCde(Recibido) /\ Coherente(Recibido) /\ Recibido.registros \in Banco
           /\ Vistos(p) = VistoVuelta /\ Vistos(p) \in Banco /\ Vuelto(p)
           /\ Cede(Recibido) => /\ Toca(p).codigo = Recibido.ultima_instruccion.codigo
                                /\ Recibido.registros = Avanzar(Vistos(p))
                                /\ EsInstruccion(Toca(p))
           /\ cde'[p] = Recibido
           /\ \A q \in Procesos \ {p} : cde'[q] = cde[q]
           /\ ~Ocupada /\ ~Ocupada' /\ ~HayCde'
           /\ pcb_en_ejecucion' = Nulo /\ Ordenes' /\ Turno'
           /\ DOMAIN cde' = Procesos /\ cde' = [q \in Procesos |-> cde'[q]]
           /\ \A q \in Procesos : EsCde(cde'[q]) /\ cde'[q].pid = q
  BY <1>1, AlDejarExec
<1>3. Tipos' /\ Control'
  BY <1>1, ControlAlDejarExec
<1>4. \A q \in Procesos \ {p} : Vistos(q)' = Vistos(q) /\ (Programa(q) => Programa(q)')
  BY <1>1, <1>2, DejaIgualLosDemas
<1>5. Vistos(p)' = Nuevos
  BY <1>1, <1>2, YaFuera
<1>6. Programas'
  BY <1>1, <1>2, <1>4 DEF Programas, Continua
<1>7. p \in condenados \/ Toca(p).codigo \in {"EXIT", "RESIZE", "WAIT", "SIGNAL"}
  <2>1. CASE Recibido.motivo_desalojo = "INTERRUPCION"
    BY <1>2, <2>1 DEF Coherente
  <2>2. CASE Recibido.motivo_desalojo \in {"OUT_OF_MEMORY_ERROR", "RECURSO_INVALIDO"}
    <3>1. Recibido.ultima_instruccion.codigo \in {"RESIZE", "WAIT", "SIGNAL"}
      BY <1>2, <2>2 DEF Coherente, Exigidos
    <3>2. Cede(Recibido)
      BY <2>2 DEF Cede
    <3> QED BY <1>2, <3>1, <3>2
  <2>3. CASE Recibido.motivo_desalojo \notin PorError /\ Recibido.ultima_instruccion.codigo = "EXIT"
    <3>1. Recibido.motivo_desalojo = "FINALIZACION_EXIT"
      BY <1>2, <2>3 DEF Coherente, Exigidos, Propios, PorError, DeIO
    <3>2. Cede(Recibido)
      BY <3>1 DEF Cede
    <3> QED BY <1>2, <2>3, <3>2
  <2> QED BY <1>1, <2>1, <2>2, <2>3 DEF PorError
<1>8. Acaba(p)
  BY <1>1, <1>2, <1>4, <1>5, <1>7 DEF Acaba, DemasIguales
<1> QED BY <1>2, <1>3, <1>6, <1>8

LEMMA PasoExecABlock ==
  ASSUME IInv, ExecABlock
  PROVE  IInv' /\ Nada
<1> USE DEF IInv
<1>1. /\ HayCde /\ DejaExec(Recibido)
      /\ esperando' = esperando \cup {pcb_en_ejecucion}
      /\ UNCHANGED <<terminados, pedidos, condenados>>
      /\ Recibido.motivo_desalojo = "RECURSO_NO_DISPONIBLE"
  BY DEF ExecABlock, DejaExec
<1>2. PICK p \in Procesos :
           /\ p = pcb_en_ejecucion /\ p \notin esperando \cup terminados
           /\ EsCde(Recibido) /\ Coherente(Recibido) /\ Recibido.registros \in Banco
           /\ Vistos(p) = VistoVuelta /\ Vistos(p) \in Banco /\ Vuelto(p)
           /\ Cede(Recibido) => /\ Toca(p).codigo = Recibido.ultima_instruccion.codigo
                                /\ Recibido.registros = Avanzar(Vistos(p))
                                /\ EsInstruccion(Toca(p))
           /\ cde'[p] = Recibido
           /\ \A q \in Procesos \ {p} : cde'[q] = cde[q]
           /\ ~Ocupada /\ ~Ocupada' /\ ~HayCde'
           /\ pcb_en_ejecucion' = Nulo /\ Ordenes' /\ Turno'
           /\ DOMAIN cde' = Procesos /\ cde' = [q \in Procesos |-> cde'[q]]
           /\ \A q \in Procesos : EsCde(cde'[q]) /\ cde'[q].pid = q
  BY <1>1, AlDejarExec
<1>3. Tipos' /\ Control'
  BY <1>1, ControlAlDejarExec
<1>4. \A q \in Procesos \ {p} : Vistos(q)' = Vistos(q) /\ (Programa(q) => Programa(q)')
  BY <1>1, <1>2, DejaIgualLosDemas
<1>5. Cede(Recibido) /\ Recibido.ultima_instruccion.codigo \in {"WAIT", "SIGNAL"}
  BY <1>1, <1>2 DEF Cede, Coherente, Exigidos
<1>6. Vistos(p)' = Vistos(p)
  <2>1. Vistos(p)' = Atras(Recibido.registros)
    BY <1>1, <1>2, YaFuera
  <2> QED BY <1>2, <1>5, <2>1, IdaYVuelta
<1>7. Toca(p)' = Toca(p)
  BY <1>6 DEF Toca
<1>8. Programa(p)'
  <2>1. Vistos(p)["PC"] < Len(Cargadas[p])
    BY <1>2 DEF Vuelto
  <2> QED BY <1>2, <1>5, <1>6, <1>7, <2>1, YaFuera
<1>9. Programas' /\ Nada
  BY <1>1, <1>2, <1>4, <1>5, <1>6, <1>8 DEF Programas, Continua, Nada, MismosVistos
<1> QED BY <1>2, <1>3, <1>9

LEMMA PasoEvaluarIO ==
  ASSUME IInv, EvaluarIO
  PROVE  IInv' /\ \E p \in Procesos : Hace(p)
<1> USE DEF IInv
<1>1. /\ HayCde /\ DejaExec(Recibido)
      /\ pedidos' = [pedidos EXCEPT ![pcb_en_ejecucion] = Append(@, Recibido.ultima_instruccion)]
      /\ UNCHANGED <<esperando, terminados, condenados>>
      /\ Recibido.motivo_desalojo \notin PorError \cup {"RECURSO_NO_DISPONIBLE"}
      /\ Recibido.ultima_instruccion.codigo \in DeIO
  BY DEF EvaluarIO, DejaExec
<1>2. PICK p \in Procesos :
           /\ p = pcb_en_ejecucion /\ p \notin esperando \cup terminados
           /\ EsCde(Recibido) /\ Coherente(Recibido) /\ Recibido.registros \in Banco
           /\ Vistos(p) = VistoVuelta /\ Vistos(p) \in Banco /\ Vuelto(p)
           /\ Cede(Recibido) => /\ Toca(p).codigo = Recibido.ultima_instruccion.codigo
                                /\ Recibido.registros = Avanzar(Vistos(p))
                                /\ EsInstruccion(Toca(p))
           /\ cde'[p] = Recibido
           /\ \A q \in Procesos \ {p} : cde'[q] = cde[q]
           /\ ~Ocupada /\ ~Ocupada' /\ ~HayCde'
           /\ pcb_en_ejecucion' = Nulo /\ Ordenes' /\ Turno'
           /\ DOMAIN cde' = Procesos /\ cde' = [q \in Procesos |-> cde'[q]]
           /\ \A q \in Procesos : EsCde(cde'[q]) /\ cde'[q].pid = q
  BY <1>1, AlDejarExec
<1>3. Tipos' /\ Control'
  BY <1>1, ControlAlDejarExec
<1>4. \A q \in Procesos \ {p} : Vistos(q)' = Vistos(q) /\ (Programa(q) => Programa(q)')
  BY <1>1, <1>2, DejaIgualLosDemas
<1>5. Recibido.motivo_desalojo = "LLAMADA_IO" /\ Cede(Recibido)
  <2>1. Recibido.motivo_desalojo = "LLAMADA_IO"
    BY <1>1, <1>2 DEF Coherente, Exigidos, Propios, PorError, DeIO
  <2> QED BY <2>1 DEF Cede
<1>6. PICK i : i = Toca(p) /\ i.codigo \in DeIO /\ i.codigo # "EXIT"
  BY <1>1, <1>2, <1>5 DEF DeIO
<1>7. Vistos(p)' = Avanzar(Vistos(p)) /\ Vistos(p)' = Efecto(Avanzar(Vistos(p)), i)
  <2>1. Vistos(p)' = Avanzar(Vistos(p))
    BY <1>1, <1>2, <1>5, YaFuera
  <2> QED BY <1>6, <2>1 DEF Efecto, DeIO
<1>8. Vistos(p)'["PC"] < Len(Cargadas[p])
  <2>1. i = Pedida(p, Vistos(p)["PC"]) /\ Vistos(p)["PC"] < Len(Cargadas[p])
    BY <1>2, <1>6 DEF Vuelto, Toca
  <2> QED BY <1>2, <1>6, <1>7, <2>1, SigueDentro
<1>9. Programas'
  <2>1. Programa(p)'
    BY <1>1, <1>2, <1>8, YaFuera
  <2> QED BY <1>1, <1>2, <1>4, <2>1 DEF Programas, Continua, DeIO
<1>10. Recibido.ultima_instruccion = Resuelta(p, Vistos(p), i)
  BY <1>2, <1>5, <1>6 DEF Vuelto, Toca
<1>11. Hace(p)
  BY <1>1, <1>2, <1>4, <1>6, <1>7, <1>10 DEF Hace, DemasIguales
<1> QED BY <1>2, <1>3, <1>9, <1>11

LEMMA PasoExecAReady ==
  ASSUME IInv, ExecAReady
  PROVE  IInv' /\ Nada
<1> USE DEF IInv
<1>1. /\ HayCde /\ DejaExec(Recibido)
      /\ UNCHANGED <<esperando, terminados, pedidos, condenados>>
      /\ Recibido.motivo_desalojo \notin PorError \cup {"RECURSO_NO_DISPONIBLE"}
      /\ Recibido.ultima_instruccion.codigo \notin DeIO \cup {"EXIT"}
  BY DEF ExecAReady, DejaExec
<1>2. PICK p \in Procesos :
           /\ p = pcb_en_ejecucion /\ p \notin esperando \cup terminados
           /\ EsCde(Recibido) /\ Coherente(Recibido) /\ Recibido.registros \in Banco
           /\ Vistos(p) = VistoVuelta /\ Vistos(p) \in Banco /\ Vuelto(p)
           /\ Cede(Recibido) => /\ Toca(p).codigo = Recibido.ultima_instruccion.codigo
                                /\ Recibido.registros = Avanzar(Vistos(p))
                                /\ EsInstruccion(Toca(p))
           /\ cde'[p] = Recibido
           /\ \A q \in Procesos \ {p} : cde'[q] = cde[q]
           /\ ~Ocupada /\ ~Ocupada' /\ ~HayCde'
           /\ pcb_en_ejecucion' = Nulo /\ Ordenes' /\ Turno'
           /\ DOMAIN cde' = Procesos /\ cde' = [q \in Procesos |-> cde'[q]]
           /\ \A q \in Procesos : EsCde(cde'[q]) /\ cde'[q].pid = q
  BY <1>1, AlDejarExec
<1>3. Tipos' /\ Control'
  BY <1>1, ControlAlDejarExec
<1>4. \A q \in Procesos \ {p} : Vistos(q)' = Vistos(q) /\ (Programa(q) => Programa(q)')
  BY <1>1, <1>2, DejaIgualLosDemas
<1>5. ~Cede(Recibido)
  BY <1>1, <1>2 DEF Cede, Coherente, Exigidos, Propios, PorError
<1>6. Vistos(p)' = Vistos(p)
  BY <1>1, <1>2, <1>5, YaFuera DEF VistoVuelta
<1>7. Programa(p)'
  <2>1. Vistos(p)["PC"] < Len(Cargadas[p])
    BY <1>2 DEF Vuelto
  <2> QED BY <1>1, <1>2, <1>6, <2>1, YaFuera
<1>8. Programas' /\ Nada
  BY <1>1, <1>2, <1>4, <1>6, <1>7 DEF Programas, Continua, Nada, MismosVistos
<1> QED BY <1>2, <1>3, <1>8

\* What a WAIT was waiting for has come: the instruction is over.
LEMMA PasoDespertar ==
  ASSUME IInv, NEW p \in Procesos, Despertar(p)
  PROVE  IInv' /\ Hace(p)
<1> USE DEF IInv
<1>1. /\ p \in esperando /\ esperando' = esperando \ {p}
      /\ UNCHANGED <<fase, banderas, cpu, manejador, sockets, cde, pcb_en_ejecucion, reloj,
                     corrio, pedidos, terminados, condenados>>
  BY DEF Despertar
<1>2. p # pcb_en_ejecucion /\ p \notin terminados
  BY <1>1 DEF Control
<1>3. Ocupada' <=> Ocupada
  BY <1>1 DEF Ocupada
<1>4. \A q \in Procesos \ {p} : Vistos(q)' = Vistos(q) /\ (Programa(q)' <=> Programa(q))
  <2> SUFFICES ASSUME NEW q \in Procesos \ {p}
               PROVE  Vistos(q)' = Vistos(q) /\ (Programa(q)' <=> Programa(q))
    OBVIOUS
  <2>1. q \in esperando' <=> q \in esperando
    BY <1>1
  <2> QED BY <1>1, <1>3, <2>1, MismaVistaDe DEF cpu, banderas, sockets
<1>5. /\ Vistos(p) = Atras(cde[p].registros) /\ Vistos(p)["PC"] < Len(Cargadas[p])
      /\ Toca(p).codigo \in {"WAIT", "SIGNAL"}
  BY <1>1, <1>2, VistosPorLugar DEF SegunLugar, Programas
<1>6. Vistos(p) \in Banco /\ cde[p].registros = Avanzar(Vistos(p))
  BY <1>5, CadaVistaEsBanco, IdaYVuelta
<1>7. /\ Vistos(p)' = cde[p].registros
      /\ Programa(p)' <=> Vistos(p)'["PC"] < Len(Cargadas[p])
  BY <1>1, <1>2, VistosPorLugarSig DEF SegunLugar
<1>8. PICK i : i = Toca(p) /\ i.codigo \in {"WAIT", "SIGNAL"}
  BY <1>5
<1>9. Vistos(p)' = Efecto(Avanzar(Vistos(p)), i)
  BY <1>6, <1>7, <1>8 DEF Efecto
<1>10. Vistos(p)'["PC"] < Len(Cargadas[p])
  <2>1. i = Pedida(p, Vistos(p)["PC"]) /\ i.codigo # "EXIT"
    BY <1>8 DEF Toca
  <2> QED BY <1>5, <1>6, <1>9, <2>1, SigueDentro
<1>11. Programas'
  BY <1>1, <1>4, <1>7, <1>10 DEF Programas, Continua
<1>12. Hace(p)
  BY <1>1, <1>2, <1>4, <1>8, <1>9 DEF Hace, DemasIguales, DeIO
<1>13. Tipos'
  BY <1>1 DEF Tipos, TypeOK, cpu, banderas, sockets
<1>14. Control'
  BY <1>1 DEF Control, Corriendo, Yendo, Volviendo, Coherente, HayCde, Recibido, Ocupada, cpu,
              sockets
<1>15. Turno'
  BY <1>1 DEF Turno, Limpia, Coherente, HayCde, banderas, cpu, sockets
<1>16. Ordenes'
  BY <1>1 DEF Ordenes, banderas, sockets
<1> QED BY <1>11, <1>12, <1>13, <1>14, <1>15, <1>16

(***************************************************************************)
(* The invariant.                                                          *)
(***************************************************************************)

LEMMA AlEmpezar ==
  ASSUME Init
  PROVE  IInv /\ \A p \in Procesos : Vistos(p) = Nuevos
<1>1. /\ fase = "libre" /\ pid_de_cde_ejecutando = Nulo /\ registros_cpu = Nuevos
      /\ instruccion_actualizada = "SET" /\ manejador = Nulo /\ interrupciones = <<>>
      /\ interrupcion = FALSE /\ realizar_desalojo = FALSE /\ fin_q = FALSE
      /\ aCpu = SinMensaje /\ aKernel = SinMensaje /\ pcb_en_ejecucion = Nulo
      /\ esperando = {} /\ terminados = {} /\ condenados = {} /\ reloj = FALSE /\ corrio = FALSE
      /\ cde = [p \in Procesos |->
                 [pid |-> p, motivo_desalojo |-> "NO_DESALOJADO", registros |-> Nuevos,
                  ultima_instruccion |-> [codigo |-> "NULO", parametros |-> <<>>]]]
  BY DEF Init
<1>2. EsInstruccion([codigo |-> "NULO", parametros |-> <<>>])
  BY DEF EsInstruccion, cantidad_parametros_instruccion
<1>3. ~Ocupada /\ ~HayCde
  BY <1>1 DEF Ocupada, HayCde, SinMensaje
<1>4. /\ DOMAIN cde = Procesos /\ cde = [p \in Procesos |-> cde[p]]
      /\ \A p \in Procesos : /\ EsCde(cde[p]) /\ cde[p].pid = p /\ cde[p].registros = Nuevos
                             /\ cde[p].ultima_instruccion.codigo = "NULO"
  BY <1>1, <1>2, NuevosBanco DEF EsCde
<1>5. TypeOK
  <2>1. Nuevos \in [Registros -> Nat] /\ \A r \in Registros : Nuevos[r] < Modulo(r)
    BY NuevosBanco DEF Banco
  <2> QED BY <1>1, <2>1 DEF TypeOK, Codigos
<1>6. Tipos
  BY <1>1, <1>4, <1>5 DEF Tipos
<1>7. Control
  BY <1>1, <1>3, NuloAssumption DEF Control
<1>8. Turno
  BY <1>1, <1>3, <1>4 DEF Turno, Limpia
<1>9. Ordenes
  BY <1>1, NuloAssumption DEF Ordenes
<1>10. \A p \in Procesos : /\ Vistos(p) = Nuevos
                           /\ Programa(p) <=> Vistos(p)["PC"] < Len(Cargadas[p])
  BY <1>1, <1>3, <1>4, VistosPorLugar DEF SegunLugar
<1>11. Programas
  <2>1. \A p \in Procesos : Len(Cargadas[p]) \in 1..Mod32
    BY TextosAssumption
  <2>2. \A p \in Procesos : 0 < Len(Cargadas[p])
    BY <2>1, ModuloAssumption
  <2> QED BY <1>4, <1>10, <2>2, NuevosBanco DEF Programas, Continua
<1> QED BY <1>6, <1>7, <1>8, <1>9, <1>10, <1>11 DEF IInv

LEMMA PasoQuieto ==
  ASSUME IInv, UNCHANGED vars
  PROVE  IInv' /\ Nada
<1> USE DEF IInv
<1>1. UNCHANGED <<fase, banderas, cpu, manejador, sockets, kernel>>
  BY DEF vars
<1>2. Ocupada' <=> Ocupada
  BY <1>1 DEF Ocupada
<1>3. Programas' /\ Nada
  BY <1>1, <1>2, MismaVista DEF Nada, kernel, cpu, banderas, sockets
<1>4. Tipos'
  BY <1>1 DEF Tipos, TypeOK, kernel, cpu, banderas, sockets
<1>5. Control'
  BY <1>1 DEF Control, Corriendo, Yendo, Volviendo, Coherente, HayCde, Recibido, Ocupada,
              kernel, cpu, sockets
<1>6. Turno'
  BY <1>1 DEF Turno, Limpia, Coherente, HayCde, banderas, cpu, kernel, sockets
<1>7. Ordenes'
  BY <1>1 DEF Ordenes, banderas, kernel, sockets
<1> QED BY <1>3, <1>4, <1>5, <1>6, <1>7

\* Every step keeps the invariant and is a step, or none, of the machine of
\* one process.
LEMMA Paso ==
  ASSUME IInv, [Next]_vars, ~CarreraDesalojo, ~CarreraInicio
  PROVE  IInv' /\ Avance
<1>1. CASE Dispatch
  <2>1. CASE RecibirProceso
    BY <2>1, PasoRecibirProceso DEF Avance
  <2>2. CASE SigueBucle
    BY <2>2, PasoSigueBucle DEF Avance
  <2>3. CASE Fetch
    BY <2>3, PasoFetch DEF Avance
  <2>4. CASE EjecutarLocal
    BY <2>4, PasoEjecutarLocal DEF Avance
  <2>5. CASE EjecutarResize
    BY <2>5, PasoEjecutarResize DEF Avance
  <2>6. CASE EjecutarIO
    BY <2>6, PasoEjecutarIO DEF Avance
  <2>7. CASE EjecutarExit
    BY <2>7, PasoEjecutarExit DEF Avance
  <2>8. CASE PedirRecurso
    BY <2>8, PasoPedirRecurso DEF Avance
  <2>9. CASE RecibirRespuesta
    BY <2>9, PasoRecibirRespuesta DEF Avance
  <2>10. CASE SaleBucle
    BY <2>10, PasoSaleBucle DEF Avance
  <2>11. CASE Devolver
    BY <2>11, PasoDevolver DEF Avance
  <2>12. CASE BorrarPid
    BY <2>12, PasoBorrarPid DEF Avance
  <2>13. CASE BorrarInstruccion
    BY <2>13, PasoBorrarInstruccion DEF Avance
  <2> QED BY <1>1, <2>1, <2>2, <2>3, <2>4, <2>5, <2>6, <2>7, <2>8, <2>9, <2>10, <2>11, <2>12,
             <2>13 DEF Dispatch
<1>2. CASE Interrupt
  <2>1. CASE RecibirInterrupcion
    BY <2>1, PasoRecibirInterrupcion DEF Avance
  <2>2. CASE MirarInstruccion
    BY <2>2, PasoMirarInstruccion DEF Avance
  <2>3. CASE Marcar
    BY <2>3, PasoMarcar DEF Avance
  <2> QED BY <1>2, <2>1, <2>2, <2>3 DEF Interrupt
<1>3. CASE AtenderCpu
  <2>1. CASE ResponderRecurso
    BY <2>1, PasoResponderRecurso DEF Avance
  <2>2. CASE ExecAFinalizado
    BY <2>2, PasoExecAFinalizado DEF Avance
  <2>3. CASE ExecABlock
    BY <2>3, PasoExecABlock DEF Avance
  <2>4. CASE EvaluarIO
    BY <2>4, PasoEvaluarIO DEF Avance
  <2>5. CASE ExecAReady
    BY <2>5, PasoExecAReady DEF Avance
  <2> QED BY <1>3, <2>1, <2>2, <2>3, <2>4, <2>5 DEF AtenderCpu
<1>4. CASE FinDeQuantum
  BY <1>4, PasoFinDeQuantum DEF Avance
<1>5. CASE Finalizar
  BY <1>5, PasoFinalizar DEF Avance
<1>6. ASSUME NEW p \in Procesos, Despachar(p) PROVE IInv' /\ Avance
  BY <1>6, PasoDespachar DEF Avance
<1>7. ASSUME NEW p \in Procesos, Despertar(p) PROVE IInv' /\ Avance
  BY <1>7, PasoDespertar DEF Avance
<1>8. CASE UNCHANGED vars
  BY <1>8, PasoQuieto DEF Avance
<1> QED BY <1>1, <1>2, <1>3, <1>4, <1>5, <1>6, <1>7, <1>8 DEF Next

\* The inductive invariant holds in every state, for any programs and any
\* number of interrupts, while these are read within their turn and the clock
\* does not end the turn of a process back from I/O before it runs anything.
THEOREM Invariante ==
  ASSUME ~CarreraDesalojo, ~CarreraInicio
  PROVE  Spec => []IInv
<1>1. Init => IInv
  BY AlEmpezar
<1>2. IInv /\ [Next]_vars => IInv'
  BY Paso
<1> QED BY <1>1, <1>2, PTL DEF Spec

\* TypeOK: what the two threads of the CPU and the Kernel keep has its type
\* and its width.
THEOREM TiposCorrectos ==
  ASSUME ~CarreraDesalojo, ~CarreraInicio
  PROVE  Spec => []TypeOK
<1>1. IInv => TypeOK
  BY DEF IInv, Tipos
<1> QED BY <1>1, Invariante, PTL

\* QuantumSinPendientes: what comes back as the end of a quantum has no
\* request of I/O and no EXIT left to be done, whatever the clock and the
\* console ask for in between (the reasons at the end of ejecutar_proceso).
THEOREM NadaSePierdePorElQuantum ==
  ASSUME ~CarreraDesalojo, ~CarreraInicio
  PROVE  Spec => []QuantumSinPendientes
<1>1. IInv => QuantumSinPendientes
  <2> SUFFICES ASSUME IInv, HayCde, Recibido.motivo_desalojo = "FIN_DE_QUANTUM"
               PROVE  Recibido.ultima_instruccion.codigo \notin DeIO \cup {"EXIT"}
    BY DEF QuantumSinPendientes
  <2>1. Volviendo
    BY DEF IInv, Control, Corriendo, Yendo, HayCde, SinMensaje
  <2>2. Recibido.ultima_instruccion.codigo \in Exigidos("FIN_DE_QUANTUM")
    BY <2>1 DEF Volviendo, Coherente
  <2> QED BY <2>2 DEF Exigidos
<1> QED BY <1>1, Invariante, PTL

(***************************************************************************)
(* The refinement: MaquinaVirtual has a copy of the instruction set, which *)
(* is the same one.                                                        *)
(***************************************************************************)

LEMMA MismosRegistros ==
  /\ Virtual!Registros = Registros /\ Virtual!Nuevos = Nuevos /\ Virtual!DeIO = DeIO
  /\ Virtual!Procesos = Procesos
  /\ \A r, x, v : Virtual!Escribir(r, x, v) = Escribir(r, x, v)
  /\ \A r, x : Virtual!buscar_valor_registro(r, x) = buscar_valor_registro(r, x)
  /\ \A c : Virtual!cantidad_parametros_instruccion(c) = cantidad_parametros_instruccion(c)
<1>1. Virtual!Registros8 = Registros8 /\ Virtual!Registros = Registros
  BY DEF Virtual!Registros8, Registros8, Virtual!Registros, Registros
<1>2. \A x : Virtual!Modulo(x) = Modulo(x)
  BY <1>1 DEF Virtual!Modulo, Modulo
<1>3. Virtual!Nuevos = Nuevos
  BY <1>1 DEF Virtual!Nuevos, Nuevos
<1>4. Virtual!DeIO = DeIO
  BY DEF Virtual!DeIO, DeIO
<1>5. Virtual!Procesos = Procesos
  BY DEF Virtual!Procesos, Cargadas
<1>6. \A r, x, v : Virtual!Escribir(r, x, v) = Escribir(r, x, v)
  BY <1>2 DEF Virtual!Escribir, Escribir
<1>7. \A r, x : Virtual!buscar_valor_registro(r, x) = buscar_valor_registro(r, x)
  BY <1>1 DEF Virtual!buscar_valor_registro, buscar_valor_registro
<1>8. \A c : Virtual!cantidad_parametros_instruccion(c) = cantidad_parametros_instruccion(c)
  BY DEF Virtual!cantidad_parametros_instruccion, cantidad_parametros_instruccion
<1> QED BY <1>1, <1>3, <1>4, <1>5, <1>6, <1>7, <1>8

LEMMA MismoEfecto ==
  /\ \A r, i : Virtual!Efecto(r, i) = Efecto(r, i)
  /\ \A r : Virtual!Avanzar(r) = Avanzar(r)
<1>1. \A r, x, u, v : Virtual!Operar(r, x, u, v) = Operar(r, x, u, v)
  BY MismosRegistros DEF Virtual!Operar, Operar
<1>2. \A r, x, v : Virtual!ejecutar_set(r, x, v) = ejecutar_set(r, x, v)
  BY MismosRegistros DEF Virtual!ejecutar_set, ejecutar_set
<1>3. \A r, x, y : Virtual!ejecutar_sum(r, x, y) = ejecutar_sum(r, x, y)
  BY <1>1, MismosRegistros DEF Virtual!ejecutar_sum, ejecutar_sum
<1>4. \A r, x, y : Virtual!ejecutar_sub(r, x, y) = ejecutar_sub(r, x, y)
  BY <1>1, MismosRegistros DEF Virtual!ejecutar_sub, ejecutar_sub
<1>5. \A r, x, v : Virtual!ejecutar_jnz(r, x, v) = ejecutar_jnz(r, x, v)
  BY MismosRegistros DEF Virtual!ejecutar_jnz, ejecutar_jnz
<1>6. \A r, i : Virtual!Efecto(r, i) = Efecto(r, i)
  BY <1>2, <1>3, <1>4, <1>5 DEF Virtual!Efecto, Efecto
<1>7. \A r : Virtual!Avanzar(r) = Avanzar(r)
  BY MismosRegistros DEF Virtual!Avanzar, Avanzar
<1> QED BY <1>6, <1>7

LEMMA MismaResuelta ==
  \A p, r, i : Virtual!Resuelta(p, r, i) = Resuelta(p, r, i)
<1>1. \A p, d : Virtual!DirFisica(p, d) = DirFisica(p, d)
  BY DEF Virtual!DirFisica, DirFisica
<1>2. \A v : Virtual!Numero(v) = Numero(v)
  BY DEF Virtual!Numero, Numero
<1> QED BY <1>1, <1>2, MismosRegistros DEF Virtual!Resuelta, Resuelta

\* What the stream of Memoria loses is what the abstract machine does not
\* see either.
LEMMA MismaInstruccion ==
  ASSUME NEW p \in Procesos, Vistos(p) \in Banco, Vistos(p)["PC"] < Len(Cargadas[p])
  PROVE  Virtual!Instruccion(p) = Toca(p)
<1> DEFINE P == Seq([nombre : STRING, valor : Int])
           I == [codigo : Codigos \cup {"NULO"}, parametros : P]
<1>1. PICK pc \in Nat : pc = Vistos(p)["PC"]
  BY IdaYVuelta
<1>2. PICK n : n = Len(Cargadas[p])
  OBVIOUS
<1>3. PICK s \in Seq(I) : s = Cargadas[p] /\ Len(s) = n
  BY <1>2, TextosAssumption
<1>4. n \in 1..Mod32 /\ pc < n
  BY <1>1, <1>2, TextosAssumption
<1>5. PICK k \in 1..n : k = pc + 1
  BY <1>1, <1>4
<1>6. PICK j \in I : j = s[k]
  <2> HIDE DEF I
  <2>1. s[k] \in I
    BY <1>3, <1>5, ElementOfSeq
  <2> QED BY <2>1
<1>7. PICK m \in Nat : m = cantidad_parametros_instruccion(j.codigo)
  BY CantidadNatural
<1>8. m <= Len(j.parametros)
  BY <1>2, <1>3, <1>4, <1>5, <1>6, <1>7, TextosAssumption
<1>9. j.parametros \in Seq([nombre : STRING, valor : Int])
      /\ j = [codigo |-> j.codigo, parametros |-> j.parametros]
  BY <1>6
<1>10. Toca(p) = [codigo |-> j.codigo, parametros |-> [h \in 1..m |-> j.parametros[h]]]
  <2>1. Toca(p) = buffer_read_instruccion(buffer_write_instruccion(j))
    BY <1>1, <1>3, <1>5, <1>6 DEF Toca, Pedida
  <2> QED BY <1>7, <1>8, <1>9, <2>1, InstruccionViaja
<1>11. SubSeq(j.parametros, 1, m) = [h \in 1..m |-> j.parametros[h]]
  BY <1>7, <1>8, <1>9
<1>12. Virtual!Instruccion(p) =
         [j EXCEPT !.parametros = SubSeq(j.parametros, 1, m)]
  <2>1. [q \in Procesos |-> Vistos(q)][p]["PC"] = pc
    BY <1>1
  <2> QED BY <1>3, <1>5, <1>6, <1>7, <2>1, MismosRegistros DEF Virtual!Instruccion
<1> QED BY <1>9, <1>10, <1>11, <1>12

LEMMA PasoVirtual ==
  ASSUME IInv, Avance
  PROVE  [Virtual!Next]_(Virtual!vars)
<1> DEFINE regs == [q \in Procesos |-> Vistos(q)]
<1>1. regs' = [q \in Procesos |-> Vistos(q)']
  OBVIOUS
<1>2. ASSUME MismosVistos PROVE regs' = regs
  BY <1>1, <1>2 DEF MismosVistos
<1>3. ASSUME Nada PROVE UNCHANGED Virtual!vars
  BY <1>2, <1>3 DEF Nada, Virtual!vars
<1>4. ASSUME NEW p \in Procesos, NEW v, DemasIguales(p), Vistos(p)' = v
      PROVE  regs' = [regs EXCEPT ![p] = v]
  BY <1>1, <1>4 DEF DemasIguales
<1>5. \A p \in Procesos \ terminados : Virtual!Instruccion(p) = Toca(p)
  <2>1. \A p \in Procesos \ terminados :
          Vistos(p) \in Banco /\ Vistos(p)["PC"] < Len(Cargadas[p])
    BY CadaVistaEsBanco DEF IInv, Programas, Programa
  <2> QED BY <2>1, MismaInstruccion
<1>6. ASSUME NEW p \in Procesos, Hace(p) PROVE Virtual!Ejecutar(p)
  <2>1. PICK i, v : i = Toca(p) /\ v = Vistos(p) /\ v = regs[p]
    OBVIOUS
  <2>2. /\ p \notin terminados /\ i.codigo # "EXIT" /\ Virtual!Instruccion(p) = i
        /\ Vistos(p)' = Efecto(Avanzar(v), i) /\ DemasIguales(p)
        /\ pedidos' = IF i.codigo \in DeIO
                      THEN [pedidos EXCEPT ![p] = Append(@, Resuelta(p, v, i))]
                      ELSE pedidos
        /\ UNCHANGED <<terminados, condenados>>
    BY <1>5, <1>6, <2>1 DEF Hace
  <2>3. regs' = [regs EXCEPT ![p] = Virtual!Efecto(Virtual!Avanzar(v), i)]
    BY <1>4, <2>2, MismoEfecto
  <2>4. pedidos' = IF i.codigo \in Virtual!DeIO
                   THEN [pedidos EXCEPT ![p] = Append(@, Virtual!Resuelta(p, v, i))]
                   ELSE pedidos
    BY <2>2, MismosRegistros, MismaResuelta
  <2>5. regs' = [regs EXCEPT ![p] = Virtual!Efecto(Virtual!Avanzar(@), i)]
    BY <2>1, <2>3
  <2>6. pedidos' = IF i.codigo \in Virtual!DeIO
                   THEN [pedidos EXCEPT ![p] = Append(@, Virtual!Resuelta(p, regs[p], i))]
                   ELSE pedidos
    BY <2>1, <2>4
  <2> QED BY <2>2, <2>5, <2>6 DEF Virtual!Ejecutar
<1>7. ASSUME NEW p \in Procesos, Acaba(p) PROVE Virtual!Terminar(p)
  <2>1. regs' = [regs EXCEPT ![p] = Virtual!Nuevos]
    BY <1>4, <1>7, MismosRegistros DEF Acaba
  <2> QED BY <1>5, <1>7, <2>1 DEF Acaba, Virtual!Terminar
<1>8. ASSUME NEW p \in Procesos, Condena(p) PROVE Virtual!Condenar(p)
  BY <1>2, <1>8 DEF Condena, Virtual!Condenar
<1> QED BY <1>3, <1>6, <1>7, <1>8, MismosRegistros DEF Avance, Virtual!Next

LEMMA EmpiezaVirtual ==
  ASSUME Init
  PROVE  Virtual!Init
<1>1. [q \in Procesos |-> Vistos(q)] = [q \in Procesos |-> Nuevos]
  BY AlEmpezar
<1> QED BY <1>1, MismosRegistros DEF Init, Virtual!Init

\* CumpleMaquina: each process sees a machine of its own, that nothing but
\* its own instructions changes, each whole and in its turn; each I/O it asks
\* for reaches the Kernel once; and it ends by EXIT, by an instruction that
\* fails or by order of the console.
THEOREM CadaProcesoSuMaquina ==
  ASSUME ~CarreraDesalojo, ~CarreraInicio
  PROVE  Spec => CumpleMaquina
<1>1. Init => Virtual!Init
  BY EmpiezaVirtual
<1>2. IInv /\ [Next]_vars => [Virtual!Next]_(Virtual!vars)
  BY Paso, PasoVirtual
<1> QED BY <1>1, <1>2, Invariante, PTL DEF Spec, CumpleMaquina, Virtual!Spec
=============================================================================
