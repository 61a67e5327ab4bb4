-------------------------- MODULE Secuencias_lemas --------------------------
(***************************************************************************)
(* What the queue operations of the models do to the length and to the     *)
(* elements of a sequence.                                                 *)
(***************************************************************************)
EXTENDS Integers, SequencesExt, SequenceTheorems, FiniteSetTheorems,
        WellFoundedInduction, TLAPS

\* Taking out position k, the way list_remove does: one element fewer, and
\* the ones behind it move one place forward.
LEMMA QuitarPosicion ==
  ASSUME NEW S, NEW s \in Seq(S), NEW k \in 1..Len(s)
  PROVE  /\ RemoveAt(s, k) \in Seq(S)
         /\ Len(RemoveAt(s, k)) = Len(s) - 1
         /\ \A j \in 1..(Len(s) - 1) : RemoveAt(s, k)[j] = IF j < k THEN s[j] ELSE s[j + 1]
<1> DEFINE a == SubSeq(s, 1, k - 1)
           b == SubSeq(s, k + 1, Len(s))
<1>1. /\ a \in Seq(S) /\ Len(a) = k - 1
      /\ \A j \in 1..(k - 1) : a[j] = s[j]
  OBVIOUS
<1>2. /\ b \in Seq(S) /\ Len(b) = Len(s) - k
      /\ \A j \in 1..(Len(s) - k) : b[j] = s[k + j]
  OBVIOUS
<1>3. RemoveAt(s, k) = a \o b
  BY DEF RemoveAt
<1> HIDE DEF a, b
<1>4. /\ a \o b \in Seq(S)
      /\ Len(a \o b) = Len(a) + Len(b)
      /\ \A j \in 1..(Len(a) + Len(b)) : (a \o b)[j] = IF j <= Len(a) THEN a[j] ELSE b[j - Len(a)]
  BY <1>1, <1>2, ConcatProperties
<1>5. Len(s) \in Nat
  OBVIOUS
<1>6. \A j \in 1..(Len(s) - 1) : (a \o b)[j] = IF j < k THEN s[j] ELSE s[j + 1]
  BY <1>1, <1>2, <1>4, <1>5
<1> QED BY <1>1, <1>2, <1>3, <1>4, <1>5, <1>6
\* The elements of a queue are the values at its positions, and Contains
\* (list_find in the code) asks whether a process is one of them.
LEMMA Elementos ==
  ASSUME NEW S, NEW s \in Seq(S)
  PROVE  /\ \A x : x \in ToSet(s) <=> \E j \in 1..Len(s) : s[j] = x
         /\ \A x : Contains(s, x) <=> x \in ToSet(s)
         /\ ToSet(s) \subseteq S
<1>1. DOMAIN s = 1..Len(s) /\ \A j \in 1..Len(s) : s[j] \in S
  OBVIOUS
<1> QED BY <1>1 DEF ToSet, Contains

\* queue_push of something that was not there adds it, once.
LEMMA ElementosAgrega ==
  ASSUME NEW S, NEW s \in Seq(S), NEW p \in S
  PROVE  /\ ToSet(Append(s, p)) = ToSet(s) \cup {p}
         /\ IsInjective(s) /\ p \notin ToSet(s) => IsInjective(Append(s, p))
<1> DEFINE t == Append(s, p)
<1>1. /\ t \in Seq(S) /\ Len(t) = Len(s) + 1 /\ Len(s) \in Nat
      /\ \A j \in 1..Len(s) : t[j] = s[j]
      /\ t[Len(s) + 1] = p
      /\ DOMAIN s = 1..Len(s) /\ DOMAIN t = 1..(Len(s) + 1)
  BY AppendProperties
<1> HIDE DEF t
<1>2. ToSet(t) = ToSet(s) \cup {p}
  <2>1. \A x : x \in ToSet(t) <=> \E j \in 1..(Len(s) + 1) : t[j] = x
    BY <1>1, Elementos
  <2>2. \A x : x \in ToSet(s) <=> \E j \in 1..Len(s) : s[j] = x
    BY Elementos
  <2>3. ASSUME NEW x PROVE x \in ToSet(t) <=> x \in ToSet(s) \/ x = p
    <3>1. ASSUME NEW j \in 1..(Len(s) + 1), t[j] = x PROVE x \in ToSet(s) \/ x = p
      BY <1>1, <2>2, <3>1
    <3>2. ASSUME NEW j \in 1..Len(s), s[j] = x PROVE x \in ToSet(t)
      BY <1>1, <2>1, <3>2
    <3>3. p \in ToSet(t)
      BY <1>1, <2>1
    <3> QED BY <2>1, <2>2, <3>1, <3>2, <3>3
  <2> QED BY <2>3
<1>3. ASSUME IsInjective(s), p \notin ToSet(s) PROVE IsInjective(t)
  <2>1. \A j \in 1..Len(s) : s[j] # p
    BY <1>3, Elementos
  <2> QED BY <1>1, <1>3, <2>1 DEF IsInjective
<1> QED BY <1>2, <1>3 DEF t

\* Taking the head out of a queue without repetitions takes out that process
\* and no other.
LEMMA ElementosSaca ==
  ASSUME NEW S, NEW s \in Seq(S), s # <<>>, IsInjective(s)
  PROVE  /\ Head(s) \in ToSet(s)
         /\ ToSet(Tail(s)) = ToSet(s) \ {Head(s)}
         /\ IsInjective(Tail(s))
<1> DEFINE t == Tail(s)
<1>1. /\ t \in Seq(S) /\ Len(t) = Len(s) - 1 /\ Len(s) \in Nat \ {0}
      /\ \A j \in 1..(Len(s) - 1) : t[j] = s[j + 1]
      /\ Head(s) = s[1]
      /\ DOMAIN s = 1..Len(s) /\ DOMAIN t = 1..(Len(s) - 1)
  BY HeadTailProperties, EmptySeq
<1> HIDE DEF t
<1>2. \A x : x \in ToSet(t) <=> \E j \in 1..(Len(s) - 1) : t[j] = x
  BY <1>1, Elementos
<1>3. \A x : x \in ToSet(s) <=> \E j \in 1..Len(s) : s[j] = x
  BY Elementos
<1>4. ASSUME NEW x PROVE x \in ToSet(t) <=> x \in ToSet(s) /\ x # s[1]
  <2>1. ASSUME NEW j \in 1..(Len(s) - 1), t[j] = x PROVE x \in ToSet(s) /\ x # s[1]
    <3>1. j + 1 \in 1..Len(s) /\ 1 \in 1..Len(s) /\ s[j + 1] = x /\ j + 1 # 1
      BY <1>1, <2>1
    <3> QED BY <1>1, <1>3, <3>1 DEF IsInjective
  <2>2. ASSUME NEW j \in 1..Len(s), s[j] = x, x # s[1] PROVE x \in ToSet(t)
    <3>1. j - 1 \in 1..(Len(s) - 1) /\ t[j - 1] = x
      BY <1>1, <2>2
    <3> QED BY <1>2, <3>1
  <2> QED BY <1>2, <1>3, <2>1, <2>2
<1>5. Head(s) \in ToSet(s)
  BY <1>1, <1>3
<1>6. ToSet(t) = ToSet(s) \ {Head(s)}
  BY <1>1, <1>4
<1>7. IsInjective(t)
  <2> SUFFICES ASSUME NEW a \in 1..(Len(s) - 1), NEW b \in 1..(Len(s) - 1), t[a] = t[b]
               PROVE  a = b
    BY <1>1 DEF IsInjective
  <2>1. a + 1 \in 1..Len(s) /\ b + 1 \in 1..Len(s) /\ s[a + 1] = s[b + 1]
    BY <1>1
  <2>2. a + 1 = b + 1
    BY <1>1, <2>1 DEF IsInjective
  <2> QED BY <2>2
<1> QED BY <1>5, <1>6, <1>7 DEF t

\* list_remove takes out the process of that position and no other.
LEMMA ElementosQuita ==
  ASSUME NEW S, NEW s \in Seq(S), NEW k \in 1..Len(s), IsInjective(s)
  PROVE  /\ ToSet(RemoveAt(s, k)) = ToSet(s) \ {s[k]}
         /\ IsInjective(RemoveAt(s, k))
<1> DEFINE t == RemoveAt(s, k)
<1>1. /\ t \in Seq(S) /\ Len(t) = Len(s) - 1 /\ Len(s) \in Nat
      /\ \A j \in 1..(Len(s) - 1) : t[j] = IF j < k THEN s[j] ELSE s[j + 1]
  BY QuitarPosicion
<1> HIDE DEF t
<1>2. DOMAIN s = 1..Len(s) /\ DOMAIN t = 1..(Len(s) - 1)
  BY <1>1
<1>3. \A x : x \in ToSet(t) <=> \E j \in 1..(Len(s) - 1) : t[j] = x
  BY <1>1, Elementos
<1>4. \A x : x \in ToSet(s) <=> \E j \in 1..Len(s) : s[j] = x
  BY Elementos
<1>5. \A a, b \in 1..Len(s) : s[a] = s[b] => a = b
  BY <1>2 DEF IsInjective
<1>6. ASSUME NEW x PROVE x \in ToSet(t) <=> x \in ToSet(s) /\ x # s[k]
  <2>1. ASSUME NEW j \in 1..(Len(s) - 1), t[j] = x PROVE x \in ToSet(s) /\ x # s[k]
    <3>1. \E m \in 1..Len(s) : m # k /\ s[m] = x
      <4>1. CASE j < k
        BY <1>1, <2>1, <4>1
      <4>2. CASE ~(j < k)
        <5>1. j + 1 \in 1..Len(s) /\ j + 1 # k /\ s[j + 1] = x
          BY <1>1, <2>1, <4>2
        <5> QED BY <5>1
      <4> QED BY <4>1, <4>2
    <3> QED BY <1>4, <1>5, <3>1
  <2>2. ASSUME NEW j \in 1..Len(s), s[j] = x, x # s[k] PROVE x \in ToSet(t)
    <3>1. CASE j < k
      <4>1. j \in 1..(Len(s) - 1) /\ t[j] = x
        BY <1>1, <2>2, <3>1
      <4> QED BY <1>3, <4>1
    <3>2. CASE j > k
      <4>1. j - 1 \in 1..(Len(s) - 1) /\ t[j - 1] = x
        BY <1>1, <2>2, <3>2
      <4> QED BY <1>3, <4>1
    <3> QED BY <1>1, <2>2, <3>1, <3>2
  <2> QED BY <1>3, <1>4, <2>1, <2>2
<1>7. ToSet(t) = ToSet(s) \ {s[k]}
  BY <1>6
<1>8. IsInjective(t)
  <2> SUFFICES ASSUME NEW a \in 1..(Len(s) - 1), NEW b \in 1..(Len(s) - 1), t[a] = t[b]
               PROVE  a = b
    BY <1>2 DEF IsInjective
  <2> DEFINE f(j) == IF j < k THEN j ELSE j + 1
  <2>1. f(a) \in 1..Len(s) /\ f(b) \in 1..Len(s) /\ s[f(a)] = s[f(b)]
    BY <1>1
  <2>2. f(a) = f(b)
    BY <1>5, <2>1
  <2> QED BY <2>2
<1> QED BY <1>7, <1>8 DEF t

\* A queue has at most as many different elements as its length.
LEMMA ElementosCuenta ==
  ASSUME NEW S, NEW s \in Seq(S)
  PROVE  /\ IsFiniteSet(ToSet(s))
         /\ Cardinality(ToSet(s)) \in Nat
         /\ Cardinality(ToSet(s)) <= Len(s)
<1>1. /\ Len(s) \in Nat /\ DOMAIN s = 1..Len(s) /\ s \in [1..Len(s) -> S]
      /\ s \in [1..Len(s) -> ToSet(s)]
  BY DEF ToSet
<1>2. \A x \in ToSet(s) : \E j \in 1..Len(s) : s[j] = x
  BY Elementos
<1>3. s \in Surjection(1..Len(s), ToSet(s))
  BY <1>1, <1>2 DEF Surjection
<1>4. IsFiniteSet(1..Len(s)) /\ Cardinality(1..Len(s)) = Len(s)
  BY <1>1, FS_Interval
<1>5. IsFiniteSet(ToSet(s)) /\ Cardinality(ToSet(s)) <= Len(s)
  BY <1>3, <1>4, FS_Surjection
<1> QED BY <1>5, FS_CardinalityType

\* Two finite sets together have at most as many elements as both.
LEMMA UnionCuenta ==
  ASSUME NEW S, NEW T, IsFiniteSet(S), IsFiniteSet(T)
  PROVE  /\ IsFiniteSet(S \cup T)
         /\ Cardinality(S) \in Nat /\ Cardinality(T) \in Nat /\ Cardinality(S \cup T) \in Nat
         /\ Cardinality(S \cup T) <= Cardinality(S) + Cardinality(T)
<1>1. IsFiniteSet(S \cup T) /\ IsFiniteSet(S \cap T)
  BY FS_Union, FS_Intersection
<1>2. Cardinality(S \cup T) = Cardinality(S) + Cardinality(T) - Cardinality(S \cap T)
  BY FS_Union
<1>3. /\ Cardinality(S) \in Nat /\ Cardinality(T) \in Nat
      /\ Cardinality(S \cup T) \in Nat /\ Cardinality(S \cap T) \in Nat
  BY <1>1, FS_CardinalityType
<1> QED BY <1>1, <1>2, <1>3

\* What Min chooses: a set of natural numbers that is not empty has a least
\* element.
LEMMA MinimoNatural ==
  ASSUME NEW T, T \subseteq Nat, T # {}
  PROVE  \E x \in T : \A y \in T : x <= y
<1>1. \E x \in T : \A y \in T : ~ (<<y, x>> \in OpToRel(<, Nat))
  BY NatLessThanWellFounded, WFMin
<1>2. \A x, y \in T : ~ (<<y, x>> \in OpToRel(<, Nat)) => x <= y
  BY DEF OpToRel
<1> QED BY <1>1, <1>2

\* Where list_remove finds what it is asked for: at the first position that
\* holds it.
LEMMA PrimeraPosicion ==
  ASSUME NEW S, NEW s \in Seq(S), NEW e, e \in ToSet(s)
  PROVE  \E k \in 1..Len(s) : /\ s[k] = e /\ \A j \in 1..(k - 1) : s[j] # e
                             /\ RemoveFirst(s, e) = RemoveAt(s, k)
<1> DEFINE I == {i \in 1..Len(s) : s[i] = e}
           k == Min(I)
<1>1. I # {}
  BY Elementos
<1>2. k \in I /\ \A y \in I : k <= y
  <2>1. I \subseteq Nat
    OBVIOUS
  <2>2. \E x \in I : \A y \in I : x <= y
    BY <1>1, <2>1, MinimoNatural
  <2> QED BY <2>2 DEF Min
<1>3. RemoveFirst(s, e) = RemoveAt(s, k)
  BY <1>1 DEF RemoveFirst, SelectInSeq
<1>4. k \in 1..Len(s) /\ s[k] = e
  BY <1>2
<1>5. \A j \in 1..(k - 1) : s[j] # e
  <2> SUFFICES ASSUME NEW j \in 1..(k - 1), s[j] = e PROVE FALSE
    OBVIOUS
  <2>1. Len(s) \in Nat /\ k \in Nat /\ k <= Len(s)
    BY <1>4
  <2>2. j \in 1..Len(s) /\ j < k
    BY <2>1
  <2>3. j \in I
    BY <2>2
  <2>4. k <= j
    BY <1>2, <2>3
  <2> QED BY <2>1, <2>2, <2>4
<1> QED BY <1>3, <1>4, <1>5

\* list_remove of what is not there.
LEMMA NadaQueQuitar ==
  ASSUME NEW S, NEW s \in Seq(S), NEW e, e \notin ToSet(s)
  PROVE  RemoveFirst(s, e) = s
<1>1. ~ \E i \in 1..Len(s) : s[i] = e
  BY Elementos
<1> QED BY <1>1 DEF RemoveFirst

\* list_remove of the first element equal to e: nothing comes in and, where
\* nothing is repeated, e and nothing else goes out.
LEMMA ElementosSinPrimero ==
  ASSUME NEW S, NEW s \in Seq(S), NEW e
  PROVE  /\ RemoveFirst(s, e) \in Seq(S)
         /\ Len(s) \in Nat
         /\ Len(RemoveFirst(s, e)) = IF e \in ToSet(s) THEN Len(s) - 1 ELSE Len(s)
         /\ ToSet(RemoveFirst(s, e)) \subseteq ToSet(s)
         /\ IsInjective(s) => /\ ToSet(RemoveFirst(s, e)) = ToSet(s) \ {e}
                              /\ IsInjective(RemoveFirst(s, e))
<1>1. CASE e \notin ToSet(s)
  BY <1>1, NadaQueQuitar
<1>2. CASE e \in ToSet(s)
  <2>1. PICK k \in 1..Len(s) : s[k] = e /\ RemoveFirst(s, e) = RemoveAt(s, k)
    BY <1>2, PrimeraPosicion
  <2>4. /\ RemoveAt(s, k) \in Seq(S) /\ Len(s) \in Nat
        /\ Len(RemoveAt(s, k)) = Len(s) - 1
        /\ \A j \in 1..(Len(s) - 1) : RemoveAt(s, k)[j] = IF j < k THEN s[j] ELSE s[j + 1]
    BY QuitarPosicion
  <2>5. ToSet(RemoveAt(s, k)) \subseteq ToSet(s)
    <3>1. \A x : x \in ToSet(RemoveAt(s, k)) => \E j \in 1..(Len(s) - 1) : RemoveAt(s, k)[j] = x
      BY <2>4, Elementos
    <3>2. \A x : (\E j \in 1..Len(s) : s[j] = x) => x \in ToSet(s)
      BY Elementos
    <3>3. \A j \in 1..(Len(s) - 1) : j \in 1..Len(s) /\ j + 1 \in 1..Len(s)
      BY <2>4
    <3> QED BY <2>4, <3>1, <3>2, <3>3
  <2>6. IsInjective(s) => /\ ToSet(RemoveAt(s, k)) = ToSet(s) \ {s[k]}
                          /\ IsInjective(RemoveAt(s, k))
    BY ElementosQuita
  <2> QED BY <1>2, <2>1, <2>4, <2>5, <2>6
<1> QED BY <1>1, <1>2

\* list_remove of what is first in the queue leaves the rest.
LEMMA QuitarElPrimero ==
  ASSUME NEW S, NEW s \in Seq(S), s # <<>>
  PROVE  /\ Head(s) \in ToSet(s)
         /\ RemoveFirst(s, Head(s)) = Tail(s)
<1>1. Head(s) = s[1] /\ Len(s) \in Nat \ {0}
  BY HeadTailProperties, EmptySeq
<1>2. Head(s) \in ToSet(s)
  BY <1>1, Elementos
<1>3. PICK k \in 1..Len(s) : /\ s[k] = Head(s) /\ \A j \in 1..(k - 1) : s[j] # Head(s)
                             /\ RemoveFirst(s, Head(s)) = RemoveAt(s, k)
  BY <1>2, PrimeraPosicion
<1>4. k = 1
  BY <1>1, <1>3
<1>5. /\ RemoveAt(s, 1) \in Seq(S) /\ Len(RemoveAt(s, 1)) = Len(s) - 1
      /\ \A j \in 1..(Len(s) - 1) : RemoveAt(s, 1)[j] = IF j < 1 THEN s[j] ELSE s[j + 1]
  BY <1>1, QuitarPosicion, SMTT(30)
<1>6. /\ Tail(s) \in Seq(S) /\ Len(Tail(s)) = Len(s) - 1
      /\ \A j \in 1..(Len(s) - 1) : Tail(s)[j] = s[j + 1]
  BY HeadTailProperties
<1>7. RemoveAt(s, 1) = Tail(s)
  <2>1. \A j \in 1..(Len(s) - 1) : RemoveAt(s, 1)[j] = Tail(s)[j]
    BY <1>1, <1>5, <1>6
  <2> HIDE DEF RemoveAt
  <2> QED BY <1>5, <1>6, <2>1, SeqEqual
<1> QED BY <1>2, <1>3, <1>4, <1>7

\* recv takes the first message; the others stay in their order.
LEMMA MensajeRecibido ==
  ASSUME NEW S, NEW s \in Seq(S), s # <<>>
  PROVE  /\ Head(s) \in S /\ Head(s) = s[1] /\ Head(s) \in ToSet(s)
         /\ Tail(s) \in Seq(S) /\ Len(s) \in Nat \ {0} /\ Len(Tail(s)) = Len(s) - 1
         /\ \A j \in 1..(Len(s) - 1) : Tail(s)[j] = s[j + 1]
         /\ ToSet(Tail(s)) \subseteq ToSet(s)
<1> DEFINE t == Tail(s)
<1>1. /\ Head(s) \in S /\ Head(s) = s[1]
      /\ t \in Seq(S) /\ Len(t) = Len(s) - 1 /\ Len(s) \in Nat \ {0}
      /\ \A j \in 1..(Len(s) - 1) : t[j] = s[j + 1]
  BY HeadTailProperties, EmptySeq
<1> HIDE DEF t
<1>2. \A x : x \in ToSet(t) <=> \E j \in 1..(Len(s) - 1) : t[j] = x
  BY <1>1, Elementos
<1>3. \A x : x \in ToSet(s) <=> \E j \in 1..Len(s) : s[j] = x
  BY Elementos
<1>4. Head(s) \in ToSet(s)
  BY <1>1, <1>3
<1>5. ToSet(t) \subseteq ToSet(s)
  <2>1. ASSUME NEW j \in 1..(Len(s) - 1) PROVE t[j] \in ToSet(s)
    <3>1. j + 1 \in 1..Len(s) /\ t[j] = s[j + 1]
      BY <1>1
    <3> QED BY <1>3, <3>1
  <2> QED BY <1>2, <2>1
<1> QED BY <1>1, <1>4, <1>5 DEF t

\* send puts one message at the end.
LEMMA Enviado ==
  ASSUME NEW S, NEW s \in Seq(S), NEW m \in S
  PROVE  /\ s \o <<m>> = Append(s, m)
         /\ Append(s, m) \in Seq(S)
         /\ Len(s) \in Nat /\ Len(Append(s, m)) = Len(s) + 1
         /\ \A j \in 1..Len(s) : Append(s, m)[j] = s[j]
         /\ Append(s, m)[Len(s) + 1] = m
         /\ ToSet(Append(s, m)) = ToSet(s) \cup {m}
BY AppendIsConcat, AppendProperties, ElementosAgrega

\* Two messages sent one after the other.
LEMMA EnviadosDos ==
  ASSUME NEW S, NEW s \in Seq(S), NEW a \in S, NEW b \in S
  PROVE  /\ s \o <<a, b>> = Append(Append(s, a), b)
         /\ Append(Append(s, a), b) \in Seq(S)
         /\ Len(s) \in Nat /\ Len(Append(Append(s, a), b)) = Len(s) + 2
         /\ \A j \in 1..Len(s) : Append(Append(s, a), b)[j] = s[j]
         /\ Append(Append(s, a), b)[Len(s) + 1] = a
         /\ Append(Append(s, a), b)[Len(s) + 2] = b
         /\ ToSet(Append(Append(s, a), b)) = ToSet(s) \cup {a, b}
<1> DEFINE t == Append(s, a)
           u == Append(t, b)
           v == <<a, b>>
<1>1. /\ t \in Seq(S) /\ Len(s) \in Nat /\ Len(t) = Len(s) + 1
      /\ \A j \in 1..Len(s) : t[j] = s[j]
      /\ t[Len(s) + 1] = a /\ ToSet(t) = ToSet(s) \cup {a}
  BY Enviado
<1> HIDE DEF t
<1>2. /\ u \in Seq(S) /\ Len(u) = Len(t) + 1
      /\ \A j \in 1..Len(t) : u[j] = t[j]
      /\ u[Len(t) + 1] = b /\ ToSet(u) = ToSet(t) \cup {b}
  BY <1>1, Enviado
<1> HIDE DEF u
<1>3. v \in Seq(S) /\ Len(v) = 2 /\ v[1] = a /\ v[2] = b
  OBVIOUS
<1> HIDE DEF v
<1>4. /\ s \o v \in Seq(S) /\ Len(s \o v) = Len(s) + Len(v)
      /\ \A j \in 1..(Len(s) + Len(v)) : (s \o v)[j] = IF j <= Len(s) THEN s[j] ELSE v[j - Len(s)]
  BY <1>3, ConcatProperties
<1>5. Len(u) = Len(s) + 2 /\ Len(s \o v) = Len(s) + 2
  BY <1>1, <1>2, <1>3, <1>4
<1>6. /\ \A j \in 1..Len(s) : u[j] = s[j]
      /\ u[Len(s) + 1] = a /\ u[Len(s) + 2] = b
  <2>1. Len(s) + 1 \in 1..Len(t) /\ \A j \in 1..Len(s) : j \in 1..Len(t)
    BY <1>1
  <2> QED BY <1>1, <1>2, <2>1
<1>7. \A j \in 1..(Len(s) + 2) : (s \o v)[j] = u[j]
  <2> SUFFICES ASSUME NEW j \in 1..(Len(s) + 2) PROVE (s \o v)[j] = u[j]
    OBVIOUS
  <2>1. CASE j \in 1..Len(s)
    BY <1>1, <1>3, <1>4, <1>6, <2>1
  <2>2. CASE j = Len(s) + 1
    BY <1>1, <1>3, <1>4, <1>6, <2>2
  <2>3. CASE j = Len(s) + 2
    BY <1>1, <1>3, <1>4, <1>6, <2>3
  <2>4. \/ j \in 1..Len(s) \/ j = Len(s) + 1 \/ j = Len(s) + 2
    BY <1>1
  <2> QED BY <2>1, <2>2, <2>3, <2>4
<1>8. s \o v = u
  BY <1>2, <1>4, <1>5, <1>7, SeqEqual
<1>9. ToSet(u) = ToSet(s) \cup {a, b}
  BY <1>1, <1>2
<1> QED BY <1>1, <1>2, <1>5, <1>6, <1>8, <1>9 DEF t, u, v

(***************************************************************************)
(* Sequences without repetitions, and how often an element is in one.      *)
(***************************************************************************)
\* A queue where nobody is twice is no longer than there are processes.
LEMMA InyectivaCorta ==
  ASSUME NEW S, IsFiniteSet(S), NEW s \in Seq(S), IsInjective(s)
  PROVE  Len(s) <= Cardinality(S)
<1>1. Len(s) \in Nat /\ DOMAIN s = 1..Len(s) /\ s \in [1..Len(s) -> S]
  OBVIOUS
<1>2. IsFiniteSet(1..Len(s)) /\ Cardinality(1..Len(s)) = Len(s)
  BY <1>1, FS_Interval
<1>3. Cardinality(S) \in Nat
  BY FS_CardinalityType
<1>4. SUFFICES ASSUME Cardinality(S) < Len(s) PROVE FALSE
  BY <1>1, <1>3
<1>5. \E x, y \in 1..Len(s) : x # y /\ s[x] = s[y]
  BY <1>1, <1>2, <1>4, FS_PigeonHole
<1> QED BY <1>1, <1>5 DEF IsInjective

\* The positions of s, from d on, that hold e.
Veces(s, d, e) == {k \in d..Len(s) : s[k] = e}

LEMMA VecesFinitas ==
  ASSUME NEW S, NEW s \in Seq(S), NEW d \in Nat, NEW e
  PROVE  /\ IsFiniteSet(Veces(s, d, e)) /\ Cardinality(Veces(s, d, e)) \in Nat
         /\ d > Len(s) => Veces(s, d, e) = {}
         /\ Veces(s, d, e) # {} <=> Cardinality(Veces(s, d, e)) > 0
<1>1. Len(s) \in Nat
  OBVIOUS
<1>2. IsFiniteSet(d..Len(s)) /\ Veces(s, d, e) \subseteq d..Len(s)
  BY <1>1, FS_Interval DEF Veces
<1>3. IsFiniteSet(Veces(s, d, e))
  BY <1>2, FS_Subset
<1>4. Cardinality(Veces(s, d, e)) \in Nat /\ (Cardinality(Veces(s, d, e)) = 0 <=> Veces(s, d, e) = {})
  BY <1>3, FS_CardinalityType, FS_EmptySet
<1>5. d > Len(s) => Veces(s, d, e) = {}
  BY <1>1 DEF Veces
<1> QED BY <1>3, <1>4, <1>5

\* One more at the end.
LEMMA VecesAgrega ==
  ASSUME NEW S, NEW s \in Seq(S), NEW d \in Nat \ {0}, d <= Len(s) + 1, NEW x \in S, NEW e
  PROVE  Cardinality(Veces(Append(s, x), d, e)) =
           Cardinality(Veces(s, d, e)) + (IF x = e THEN 1 ELSE 0)
<1>1. /\ Append(s, x) \in Seq(S) /\ Len(s) \in Nat /\ Len(Append(s, x)) = Len(s) + 1
      /\ \A j \in 1..Len(s) : Append(s, x)[j] = s[j]
      /\ Append(s, x)[Len(s) + 1] = x
  BY Enviado
<1>2. Veces(Append(s, x), d, e) = Veces(s, d, e) \cup (IF x = e THEN {Len(s) + 1} ELSE {})
  <2>1. ASSUME NEW k
        PROVE  k \in Veces(Append(s, x), d, e) <=>
                 k \in Veces(s, d, e) \/ (x = e /\ k = Len(s) + 1)
    <3>1. CASE k \in d..Len(s) /\ k # 0
      <4>1. k \in 1..Len(s) /\ k \in d..(Len(s) + 1) /\ k # Len(s) + 1
        BY <1>1, <3>1
      <4> QED BY <1>1, <3>1, <4>1 DEF Veces
    <3> QED BY <1>1 DEF Veces
  <2> QED BY <2>1
<1>3. Len(s) + 1 \notin Veces(s, d, e)
  BY <1>1 DEF Veces
<1>4. IsFiniteSet(Veces(s, d, e)) /\ Cardinality(Veces(s, d, e)) \in Nat
  BY VecesFinitas
<1>5. CASE x = e
  <2>1. Veces(Append(s, x), d, e) = Veces(s, d, e) \cup {Len(s) + 1}
    BY <1>2, <1>5
  <2>2. Cardinality(Veces(Append(s, x), d, e)) = Cardinality(Veces(s, d, e)) + 1
    BY <1>3, <1>4, <2>1, FS_AddElement
  <2> QED BY <1>5, <2>2
<1>6. CASE x # e
  <2>1. Veces(Append(s, x), d, e) = Veces(s, d, e)
    BY <1>2, <1>6
  <2> QED BY <1>4, <1>6, <2>1
<1> QED BY <1>5, <1>6

\* What was first is looked at no more.
LEMMA VecesAvanza ==
  ASSUME NEW S, NEW s \in Seq(S), NEW d \in Nat \ {0}, d <= Len(s), NEW e
  PROVE  Cardinality(Veces(s, d + 1, e)) =
           Cardinality(Veces(s, d, e)) - (IF s[d] = e THEN 1 ELSE 0)
<1>1. Len(s) \in Nat
  OBVIOUS
<1>2. Veces(s, d + 1, e) = Veces(s, d, e) \ {d}
  BY <1>1 DEF Veces
<1>3. d \in Veces(s, d, e) <=> s[d] = e
  BY <1>1 DEF Veces
<1>4. IsFiniteSet(Veces(s, d, e)) /\ Cardinality(Veces(s, d, e)) \in Nat
  BY VecesFinitas
<1> QED BY <1>2, <1>3, <1>4, FS_RemoveElement

\* The first x is taken out of the list.
LEMMA VecesSaca ==
  ASSUME NEW S, NEW s \in Seq(S), NEW x \in ToSet(s), NEW e
  PROVE  Cardinality(Veces(RemoveFirst(s, x), 1, e)) =
           Cardinality(Veces(s, 1, e)) - (IF x = e THEN 1 ELSE 0)
<1>1. PICK k \in 1..Len(s) : s[k] = x /\ RemoveFirst(s, x) = RemoveAt(s, k)
  BY PrimeraPosicion
<1> DEFINE t == RemoveAt(s, k)
           A == Veces(s, 1, e) \ {k}
           B == Veces(t, 1, e)
           f == [j \in B |-> IF j < k THEN j ELSE j + 1]
<1>2. /\ t \in Seq(S) /\ Len(s) \in Nat /\ Len(t) = Len(s) - 1
      /\ \A j \in 1..(Len(s) - 1) : t[j] = IF j < k THEN s[j] ELSE s[j + 1]
  BY QuitarPosicion
<1> HIDE DEF t
<1>3. IsFiniteSet(Veces(s, 1, e)) /\ IsFiniteSet(B) /\ Cardinality(B) \in Nat
      /\ Cardinality(Veces(s, 1, e)) \in Nat
  BY <1>2, VecesFinitas
<1>4. f \in [B -> A]
  <2> SUFFICES ASSUME NEW j \in B PROVE (IF j < k THEN j ELSE j + 1) \in A
    OBVIOUS
  <2>1. j \in 1..(Len(s) - 1) /\ t[j] = e
    BY <1>2 DEF Veces
  <2> QED BY <1>2, <2>1 DEF Veces
<1>5. \A i, j \in B : f[i] = f[j] => i = j
  <2>1. B \subseteq Int
    BY <1>2 DEF Veces
  <2>2. k \in Int
    OBVIOUS
  <2> QED BY <2>1, <2>2
<1>6. \A a \in A : \E j \in B : f[j] = a
  <2> SUFFICES ASSUME NEW a \in A PROVE \E j \in B : f[j] = a
    OBVIOUS
  <2>1. a \in 1..Len(s) /\ s[a] = e /\ a # k
    BY DEF Veces
  <2>2. CASE a < k
    <3>1. a \in 1..(Len(s) - 1) /\ t[a] = e
      BY <1>2, <2>1, <2>2
    <3>2. a \in B
      BY <1>2, <3>1 DEF Veces
    <3>3. f[a] = a
      BY <2>2, <3>2
    <3> QED BY <3>2, <3>3
  <2>3. CASE a > k
    <3>1. a - 1 \in 1..(Len(s) - 1) /\ ~(a - 1 < k) /\ (a - 1) + 1 = a
      BY <1>2, <2>1, <2>3
    <3>2. t[a - 1] = e
      BY <1>2, <2>1, <3>1
    <3>3. a - 1 \in B
      BY <1>2, <3>1, <3>2 DEF Veces
    <3>4. f[a - 1] = a
      BY <3>1, <3>3
    <3> QED BY <3>3, <3>4
  <2> QED BY <1>2, <2>1, <2>2, <2>3
<1>7. f \in Bijection(B, A)
  <2>1. DOMAIN f = B
    OBVIOUS
  <2> HIDE DEF f, A, B
  <2>2. f \in Injection(B, A)
    BY <1>4, <1>5, <2>1 DEF Injection, IsInjective
  <2>3. f \in Surjection(B, A)
    BY <1>4, <1>6 DEF Surjection
  <2> QED BY <2>2, <2>3 DEF Bijection
<1>8. Cardinality(A) = Cardinality(B)
  <2>1. ExistsBijection(B, A)
    BY <1>7 DEF ExistsBijection
  <2> QED BY <1>3, <2>1, FS_Bijection
<1>9. k \in Veces(s, 1, e) <=> x = e
  BY <1>1 DEF Veces
<1>10. Cardinality(A) = IF x = e THEN Cardinality(Veces(s, 1, e)) - 1 ELSE Cardinality(Veces(s, 1, e))
  BY <1>3, <1>9, FS_RemoveElement
<1> QED BY <1>1, <1>3, <1>8, <1>10 DEF t
=============================================================================
