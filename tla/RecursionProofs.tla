-------------------------- MODULE RecursionProofs --------------------------
(***************************************************************************)
(* What three programs compute by recursion, and what follows from it.     *)
(*                                                                         *)
(* The server of 20:20251028 with a thread for each connection: however    *)
(* the calls of its threads follow one another, as long as no two overlap, *)
(* the file system stays sound and a figure only grows until a Delete of   *)
(* it, or of none.  escribir and the text of a file are recursive.         *)
(*                                                                         *)
(* The key exchange of extra_credit: modPow is the power it stands for,    *)
(* for any modulus, and both objects end with the same secret.             *)
(*                                                                         *)
(* The subnetting of extra_credit: the doubling of Subnet and the halving  *)
(* of calcMask meet at the same power of two, and the addresses, sums of   *)
(* sizes, take one stretch of the base network without a gap.              *)
(*                                                                         *)
(* Induction is a fact about sets of numbers here (LEMMA Induccion), which *)
(* the first lemmas prove.                                                 *)
(***************************************************************************)
EXTENDS Servidor20, DiffieHellman, Subredes, FiniteSetTheorems, SequenceTheorems, TLAPS

Inodos == [nombre : Figuras, bloques : Seq(Bloques20)]

Tipos20(s) ==
  s \in [directorio : Seq(Inodos), bitmap : SUBSET Bloques20,
         unidad : [Bloques20 -> Seq(Bytes)], perdidos : SUBSET Bloques20]

\* Each file has a block, and no block twice.
BloquesBien(s) ==
  \A i \in DOMAIN s.directorio :
    /\ BloquesDe(s, i) # <<>> /\ Len(BloquesDe(s, i)) <= Directos
    /\ \A j, k \in DOMAIN BloquesDe(s, i) : j # k => BloquesDe(s, i)[j] # BloquesDe(s, i)[k]

\* Nothing is larger than the room it has.
EnSuLugar(s) ==
  /\ Len(s.directorio) <= TDIRECTORIO
  /\ \A b \in Bloques20 : Len(s.unidad[b]) <= TBLOQUE

\* What every call of the file system keeps.
Bueno20(s) ==
  /\ Tipos20(s) /\ BloquesBien(s) /\ EnSuLugar(s)
  /\ SinRepetir(s) /\ BitmapJusto(s) /\ LibresEnBlanco(s) /\ LlenosMenosElUltimo(s)

\* The figures of s are in t, with their text or a longer one.
Crece(s, t) ==
  \A n \in Nombres20(s) : n \in Nombres20(t) /\ IsPrefix(Texto20(s, n), Texto20(t, n))

\* What a thread may have read, Nada included: nothing comes after a figure that
\* is missing.
Leidos ==
  {p \in [accion : {"", "List", "Request", "Submit", "Delete"},
          figura : Figuras \cup {Vacio}, texto : Seq(Bytes)] :
     p.figura = Vacio => p.texto = <<>>}
PedidosLeidos == pedido \in [Clientes -> Leidos]

\* Where a connection may be.
Puestos == {"no", "en cola", "leyendo", "responder", "cerrada", "cortada"} \cup Llamadas

\* The file system is sound whatever becomes of the process.
InvServidor20 == Bueno20(fs) /\ PedidosLeidos /\ hilo \in [Clientes -> Puestos]
-----------------------------------------------------------------------------
(***************************************************************************)
(* Numbers, and induction over them as a fact about sets.                  *)
(***************************************************************************)
\* A set of numbers that has any has a least one.
LEMMA Minimo20 ==
  ASSUME NEW S \in SUBSET Nat, S # {}
  PROVE  Min(S) \in S /\ \A k \in S : Min(S) <= k
<1>1. PICK n \in S : TRUE
  OBVIOUS
<1> DEFINE T == {0 .. k : k \in S \cap (0 .. n)}
<1>2. T \subseteq SUBSET (0 .. n) /\ 0 .. n \in T
  OBVIOUS
<1>3. IsWellFoundedOn(StrictSubsetOrdering(0 .. n), SUBSET (0 .. n))
  <2>1. IsFiniteSet(0 .. n)
    BY FS_Interval
  <2>2. FiniteSubsetsOf(0 .. n) = SUBSET (0 .. n)
    BY <2>1, FS_FiniteSubsetsOfFinite
  <2>3. QED BY <2>2, FS_StrictSubsetOrderingWellFounded
<1>4. PICK z \in T : \A w \in T : ~ (<<w, z>> \in StrictSubsetOrdering(0 .. n))
  <2> HIDE DEF T
  <2> QED BY <1>2, <1>3, WFMin
<1>5. PICK m \in S \cap (0 .. n) : z = 0 .. m
  OBVIOUS
<1>6. ASSUME NEW k \in S PROVE m <= k
  <2>1. CASE k > n
    BY <2>1
  <2>2. CASE k <= n /\ k < m
    <3>1. 0 .. k \subseteq 0 .. m /\ m \in 0 .. m /\ m \notin 0 .. k
      BY <2>2
    <3>2. 0 .. k \in T
      BY <2>2
    <3>3. <<0 .. k, z>> \in StrictSubsetOrdering(0 .. n)
      BY <1>2, <1>5, <3>1, <3>2 DEF StrictSubsetOrdering
    <3>4. QED BY <1>4, <3>2, <3>3
  <2>3. QED BY <2>1, <2>2
<1>7. QED BY <1>6 DEF Min

\* Induction: a set with 0 and the successor of each of its numbers has all.
LEMMA Induccion ==
  ASSUME NEW S \in SUBSET Nat, 0 \in S, \A k \in S : k + 1 \in S
  PROVE  S = Nat
<1> SUFFICES ASSUME Nat \ S # {} PROVE FALSE
  OBVIOUS
<1> DEFINE m == Min(Nat \ S)
<1>1. m \in Nat \ S /\ \A k \in Nat \ S : m <= k
  BY Minimo20
<1> HIDE DEF m
<1>2. m - 1 \in Nat /\ m - 1 < m
  BY <1>1
<1>3. m - 1 \in S
  BY <1>1, <1>2
<1>4. QED BY <1>1, <1>2, <1>3
-----------------------------------------------------------------------------
(***************************************************************************)
(* The text of a file.                                                     *)
(***************************************************************************)
\* FlattenSeq computes what its equation says: the function exists.
LEMMA Aplanado ==
  ASSUME NEW B, NEW ss \in Seq(Seq(B)), ss # <<>>
  PROVE  \E f \in [1 .. Len(ss) -> Seq(B)] :
           /\ f[1] = ss[1]
           /\ \A i \in 2 .. Len(ss) : f[i] = f[i - 1] \o ss[i]
           /\ FlattenSeq(ss) = f[Len(ss)]
<1> DEFINE Ecuacion(f, m) == f = [i \in 1 .. m |-> IF i = 1 THEN ss[i] ELSE f[i - 1] \o ss[i]]
           Hay(m) == \E f \in [1 .. m -> Seq(B)] : Ecuacion(f, m)
           S == {m \in Nat : m <= Len(ss) => Hay(m)}
<1>1. Hay(0)
  <2> DEFINE f == [i \in 1 .. 0 |-> <<>>]
  <2>1. f \in [1 .. 0 -> Seq(B)] /\ Ecuacion(f, 0)
    OBVIOUS
  <2>2. QED BY <2>1
<1>2. ASSUME NEW m \in Nat, m + 1 <= Len(ss), Hay(m) PROVE Hay(m + 1)
  <2>1. PICK f \in [1 .. m -> Seq(B)] : Ecuacion(f, m)
    BY <1>2
  <2> DEFINE x == IF m = 0 THEN ss[1] ELSE f[m] \o ss[m + 1]
             g == [i \in 1 .. m + 1 |-> IF i = m + 1 THEN x ELSE f[i]]
  <2>2. x \in Seq(B)
    <3>1. m + 1 \in 1 .. Len(ss) /\ (m # 0 => m \in 1 .. m)
      BY <1>2
    <3>2. ss[m + 1] \in Seq(B) /\ (m # 0 => f[m] \in Seq(B))
      BY <3>1
    <3>3. QED BY <3>2
  <2>3. g \in [1 .. m + 1 -> Seq(B)]
    <3> HIDE DEF x
    <3> QED BY <2>2
  <2>4. ASSUME NEW i \in 1 .. m + 1
        PROVE  g[i] = IF i = 1 THEN ss[i] ELSE g[i - 1] \o ss[i]
    <3>1. CASE i = m + 1
      BY <3>1
    <3>2. CASE i # m + 1
      <4>1. i \in 1 .. m /\ g[i] = f[i] /\ (i # 1 => g[i - 1] = f[i - 1])
        BY <3>2
      <4>2. f[i] = IF i = 1 THEN ss[i] ELSE f[i - 1] \o ss[i]
        BY <2>1, <4>1
      <4>3. QED BY <4>1, <4>2
    <3>3. QED BY <3>1, <3>2
  <2>5. Ecuacion(g, m + 1)
    <3> DEFINE h == [i \in 1 .. m + 1 |-> IF i = 1 THEN ss[i] ELSE g[i - 1] \o ss[i]]
    <3>1. \A i \in 1 .. m + 1 : g[i] = h[i]
      BY <2>4
    <3>2. g = [i \in 1 .. m + 1 |-> g[i]]
      OBVIOUS
    <3> HIDE DEF g
    <3>3. g = h
      BY <3>1, <3>2
    <3>4. QED BY <3>3
  <2> HIDE DEF g, Ecuacion
  <2>6. QED BY <2>3, <2>5
<1> HIDE DEF Hay
<1>3. Hay(Len(ss))
  <2>1. S \in SUBSET Nat /\ 0 \in S /\ \A m \in S : m + 1 \in S
    BY <1>1, <1>2
  <2>2. Len(ss) \in Nat
    OBVIOUS
  <2> HIDE DEF S
  <2>3. S = Nat
    BY <2>1, Induccion
  <2>4. Len(ss) \in S
    BY <2>2, <2>3
  <2>5. QED BY <2>4 DEF S
<1> HIDE DEF S
<1> DEFINE f == CHOOSE f : Ecuacion(f, Len(ss))
<1>4. Ecuacion(f, Len(ss))
  BY <1>3 DEF Hay
<1>5. \A i \in 1 .. Len(ss) : f[i] = IF i = 1 THEN ss[i] ELSE f[i - 1] \o ss[i]
  BY <1>4
<1>6. DOMAIN f = 1 .. Len(ss) /\ f = [i \in DOMAIN f |-> f[i]]
  BY <1>4
<1>7. FlattenSeq(ss) = f[Len(ss)]
  <2>1. Len(ss) # 0
    OBVIOUS
  <2>2. QED BY <2>1 DEF FlattenSeq
<1> HIDE DEF f, Ecuacion
<1> DEFINE R == {m \in Nat : m \in 1 .. Len(ss) => f[m] \in Seq(B)}
<1>8. ASSUME NEW m \in Nat, m \in 1 .. Len(ss) => f[m] \in Seq(B), m + 1 \in 1 .. Len(ss)
      PROVE  f[m + 1] \in Seq(B)
  <2>1. CASE m = 0
    <3>1. f[1] = ss[1] /\ ss[1] \in Seq(B)
      BY <1>5
    <3>2. QED BY <2>1, <3>1
  <2>2. CASE m # 0
    <3>1. m \in 1 .. Len(ss)
      BY <1>8, <2>2
    <3>2. f[m] \in Seq(B) /\ ss[m + 1] \in Seq(B)
      BY <1>8, <3>1
    <3>3. f[m + 1] = f[m] \o ss[m + 1]
      <4>1. m + 1 # 1 /\ (m + 1) - 1 = m
        BY <2>2
      <4>2. QED BY <1>5, <1>8, <4>1
    <3>4. QED BY <3>2, <3>3
  <2>3. QED BY <2>1, <2>2
<1>9. \A i \in 1 .. Len(ss) : f[i] \in Seq(B)
  <2>1. R \in SUBSET Nat /\ 0 \in R /\ \A m \in R : m + 1 \in R
    BY <1>8
  <2>2. 1 .. Len(ss) \subseteq Nat
    OBVIOUS
  <2> HIDE DEF R
  <2>3. R = Nat
    BY <2>1, Induccion
  <2>4. QED BY <2>2, <2>3 DEF R
<1>10. f \in [1 .. Len(ss) -> Seq(B)]
  BY <1>6, <1>9
<1>11. f[1] = ss[1] /\ \A i \in 2 .. Len(ss) : f[i] = f[i - 1] \o ss[i]
  <2>1. 1 \in 1 .. Len(ss) /\ \A i \in 2 .. Len(ss) : i \in 1 .. Len(ss) /\ i # 1
    OBVIOUS
  <2>2. QED BY <1>5, <2>1
<1>12. QED BY <1>7, <1>10, <1>11

\* One more piece at the end.
LEMMA AplanadoMas ==
  ASSUME NEW B, NEW ss \in Seq(Seq(B)), NEW t \in Seq(B)
  PROVE  /\ FlattenSeq(ss) \in Seq(B)
         /\ FlattenSeq(Append(ss, t)) = FlattenSeq(ss) \o t
<1> DEFINE tt == Append(ss, t)
<1>1. /\ tt \in Seq(Seq(B)) /\ tt # <<>> /\ Len(tt) = Len(ss) + 1 /\ tt[Len(ss) + 1] = t
      /\ \A i \in 1 .. Len(ss) : tt[i] = ss[i]
  BY AppendProperties
<1> HIDE DEF tt
<1>2. PICK g \in [1 .. Len(tt) -> Seq(B)] :
           /\ g[1] = tt[1]
           /\ \A i \in 2 .. Len(tt) : g[i] = g[i - 1] \o tt[i]
           /\ FlattenSeq(tt) = g[Len(tt)]
  BY <1>1, Aplanado
<1>3. CASE ss = <<>>
  <2>1. FlattenSeq(ss) = <<>>
    BY <1>3 DEF FlattenSeq
  <2>2. FlattenSeq(tt) = t
    BY <1>1, <1>2, <1>3
  <2>3. <<>> \o t = t
    OBVIOUS
  <2>4. QED BY <2>1, <2>2, <2>3 DEF tt
<1>4. CASE ss # <<>>
  <2>1. PICK f \in [1 .. Len(ss) -> Seq(B)] :
             /\ f[1] = ss[1]
             /\ \A i \in 2 .. Len(ss) : f[i] = f[i - 1] \o ss[i]
             /\ FlattenSeq(ss) = f[Len(ss)]
    BY <1>4, Aplanado
  <2> DEFINE R == {m \in Nat : m \in 1 .. Len(ss) => f[m] = g[m]}
  <2>2. ASSUME NEW m \in Nat, m \in 1 .. Len(ss) => f[m] = g[m], m + 1 \in 1 .. Len(ss)
        PROVE  f[m + 1] = g[m + 1]
    <3>1. CASE m = 0
      BY <1>1, <1>2, <1>4, <2>1, <3>1
    <3>2. CASE m # 0
      <4>1. f[m] = g[m] /\ m + 1 \in 2 .. Len(ss) /\ m + 1 \in 2 .. Len(tt) /\ (m + 1) - 1 = m
        BY <1>1, <2>2, <3>2
      <4>2. f[m + 1] = f[m] \o ss[m + 1]
        BY <2>1, <4>1
      <4>3. g[m + 1] = g[m] \o tt[m + 1]
        BY <1>2, <4>1
      <4>4. tt[m + 1] = ss[m + 1]
        BY <1>1, <2>2
      <4>5. QED BY <4>1, <4>2, <4>3, <4>4
    <3>3. QED BY <3>1, <3>2
  <2>3. R \in SUBSET Nat /\ 0 \in R /\ \A m \in R : m + 1 \in R
    <3>1. \A m \in R : m + 1 \in R
      <4>1. SUFFICES ASSUME NEW m \in R PROVE m + 1 \in R
        OBVIOUS
      <4>2. m + 1 \in Nat /\ m \in Nat
        OBVIOUS
      <4>3. QED BY <2>2, <4>2
    <3>2. 0 \in R /\ R \in SUBSET Nat
      OBVIOUS
    <3>3. QED BY <3>1, <3>2
  <2>4. Len(ss) \in 1 .. Len(ss) /\ Len(ss) \in Nat
    BY <1>4
  <2>5. Len(ss) \in R
    <3> HIDE DEF R
    <3>1. R = Nat
      BY <2>3, Induccion
    <3>2. QED BY <2>4, <3>1
  <2>6. f[Len(ss)] = g[Len(ss)] /\ f[Len(ss)] \in Seq(B)
    BY <2>1, <2>4, <2>5
  <2>7. g[Len(ss) + 1] = g[Len(ss)] \o tt[Len(ss) + 1]
    <3>1. Len(ss) + 1 \in 2 .. Len(tt) /\ (Len(ss) + 1) - 1 = Len(ss)
      BY <1>1, <2>4
    <3>2. QED BY <1>2, <3>1
  <2>8. QED BY <1>1, <1>2, <2>1, <2>6, <2>7 DEF tt
<1>5. QED BY <1>3, <1>4
-----------------------------------------------------------------------------
(***************************************************************************)
(* Prefixes.                                                               *)
(***************************************************************************)
\* A prefix, element by element.
LEMMA Prefijo ==
  ASSUME NEW B, NEW s \in Seq(B), NEW t \in Seq(B)
  PROVE  IsPrefix(s, t) <=> Len(s) <= Len(t) /\ \A i \in 1 .. Len(s) : s[i] = t[i]
<1>1. CASE Len(s) <= Len(t)
  <2>1. /\ SubSeq(s, 1, Len(s)) \in Seq(B) /\ SubSeq(t, 1, Len(s)) \in Seq(B)
        /\ Len(SubSeq(s, 1, Len(s))) = Len(s) /\ Len(SubSeq(t, 1, Len(s))) = Len(s)
        /\ \A i \in 1 .. Len(s) : /\ SubSeq(s, 1, Len(s))[i] = s[i]
                                  /\ SubSeq(t, 1, Len(s))[i] = t[i]
    BY <1>1, SubSeqProperties
  <2>2. SubSeq(s, 1, Len(s)) = SubSeq(t, 1, Len(s)) <=> \A i \in 1 .. Len(s) : s[i] = t[i]
    BY <2>1, SeqEqual
  <2>3. QED BY <1>1, <2>2 DEF IsPrefix
<1>2. QED BY <1>1 DEF IsPrefix

\* A sequence is a prefix of itself and of what is put after it, and a prefix
\* of a prefix is one.
LEMMA Prefijos ==
  ASSUME NEW B, NEW s \in Seq(B), NEW t \in Seq(B), NEW u \in Seq(B)
  PROVE  /\ IsPrefix(s, s)
         /\ IsPrefix(s, t) /\ IsPrefix(t, u) => IsPrefix(s, u)
         /\ IsPrefix(s, s \o t)
         /\ \A c \in B : IsPrefix(s \o t, s \o Append(t, c))
<1>1. IsPrefix(s, s)
  BY Prefijo
<1>2. IsPrefix(s, t) /\ IsPrefix(t, u) => IsPrefix(s, u)
  BY Prefijo
<1>3. ASSUME NEW x \in Seq(B), NEW y \in Seq(B) PROVE IsPrefix(x, x \o y)
  <2>1. /\ x \o y \in Seq(B) /\ Len(x \o y) = Len(x) + Len(y)
        /\ \A i \in 1 .. Len(x) : (x \o y)[i] = x[i]
    OBVIOUS
  <2>2. Len(x) <= Len(x \o y)
    BY <2>1
  <2> DEFINE z == x \o y
  <2>3. z \in Seq(B) /\ Len(x) <= Len(z) /\ \A i \in 1 .. Len(x) : x[i] = z[i]
    BY <2>1, <2>2
  <2> HIDE DEF z
  <2>4. IsPrefix(x, z)
    BY <2>3, Prefijo
  <2>5. QED BY <2>4 DEF z
<1>4. ASSUME NEW c \in B PROVE IsPrefix(s \o t, s \o Append(t, c))
  <2>1. s \o Append(t, c) = (s \o t) \o <<c>> /\ s \o t \in Seq(B) /\ <<c>> \in Seq(B)
    OBVIOUS
  <2>2. QED BY <1>3, <2>1
<1>5. QED BY <1>1, <1>2, <1>3, <1>4
-----------------------------------------------------------------------------
(***************************************************************************)
(* What a sound file system has.                                           *)
(***************************************************************************)
\* The sizes.
LEMMA Tamanos ==
  /\ TBLOQUE \in Nat \ {0} /\ TUNIDAD \in Nat \ {0} /\ TDIRECTORIO \in Nat \ {0}
  /\ Directos \in Nat \ {0}
BY FileSystem20Valido

\* The text of the file in a slot.
TextoEn(s, i) == FlattenSeq([j \in DOMAIN BloquesDe(s, i) |-> s.unidad[BloquesDe(s, i)[j]]])

\* A slot, its blocks and its text.
LEMMA Slot20 ==
  ASSUME NEW s, Bueno20(s), NEW i \in DOMAIN s.directorio
  PROVE  /\ s.directorio \in Seq(Inodos) /\ DOMAIN s.directorio = 1 .. Len(s.directorio)
         /\ s.directorio[i] \in Inodos /\ s.directorio[i].nombre \in Figuras
         /\ BloquesDe(s, i) \in Seq(Bloques20) /\ Len(BloquesDe(s, i)) \in Nat \ {0}
         /\ DOMAIN BloquesDe(s, i) = 1 .. Len(BloquesDe(s, i))
         /\ Last(BloquesDe(s, i)) = BloquesDe(s, i)[Len(BloquesDe(s, i))]
         /\ Last(BloquesDe(s, i)) \in BloquesEnUso(s, i)
         /\ \A j \in DOMAIN BloquesDe(s, i) : BloquesDe(s, i)[j] \in BloquesEnUso(s, i)
         /\ BloquesEnUso(s, i) \subseteq s.bitmap /\ BloquesEnUso(s, i) \subseteq Bloques20
<1>1. s.directorio \in Seq(Inodos) /\ s.directorio[i] \in Inodos
  BY DEF Bueno20, Tipos20
<1>2. BloquesDe(s, i) \in Seq(Bloques20) /\ BloquesDe(s, i) # <<>>
  BY <1>1 DEF Bueno20, BloquesBien, BloquesDe, Inodos
<1>3. /\ Len(BloquesDe(s, i)) \in Nat \ {0}
      /\ DOMAIN BloquesDe(s, i) = 1 .. Len(BloquesDe(s, i))
  BY <1>2
<1>4. /\ \A j \in DOMAIN BloquesDe(s, i) : BloquesDe(s, i)[j] \in BloquesEnUso(s, i)
      /\ BloquesEnUso(s, i) \subseteq Bloques20
  BY <1>2 DEF BloquesEnUso, ToSet
<1>5. Len(BloquesDe(s, i)) \in DOMAIN BloquesDe(s, i)
  BY <1>3
<1>6. BloquesEnUso(s, i) \subseteq s.bitmap
  BY DEF Bueno20, BitmapJusto
<1>7. s.directorio[i].nombre \in Figuras /\ DOMAIN s.directorio = 1 .. Len(s.directorio)
  BY <1>1 DEF Inodos
<1>8. QED BY <1>1, <1>2, <1>3, <1>4, <1>5, <1>6, <1>7 DEF Last

\* A name leads to its only slot.
LEMMA Encontrado ==
  ASSUME NEW s, Bueno20(s), NEW i \in DOMAIN s.directorio
  PROVE  /\ nombreExiste(s, s.directorio[i].nombre)
         /\ buscarArchivoPorNombre(s, s.directorio[i].nombre) = i
         /\ Texto20(s, s.directorio[i].nombre) = TextoEn(s, i)
<1> DEFINE n == s.directorio[i].nombre
<1>0. n # Vacio /\ i \in 1 .. TDIRECTORIO
  <2>1. n \in Figuras /\ i \in 1 .. Len(s.directorio) /\ Len(s.directorio) \in Nat
    BY Slot20
  <2>2. Len(s.directorio) <= TDIRECTORIO
    BY DEF Bueno20, EnSuLugar
  <2> QED BY <2>1, <2>2, Tamanos, Servidor20Valido
<1>1. Lugares20(s, n) = {i}
  <2>1. \A j : NombreEn(s, j) = n <=> j \in DOMAIN s.directorio /\ s.directorio[j].nombre = n
    BY <1>0 DEF NombreEn
  <2>2. \A j \in DOMAIN s.directorio : s.directorio[j].nombre = n => j = i
    BY DEF Bueno20, SinRepetir
  <2> HIDE DEF n
  <2> QED BY <1>0, <2>1, <2>2 DEF n, Lugares20
<1>2. i \in Nat
  BY Slot20
<1>3. Min({i}) = i
  BY <1>2, Minimo20
<1>4. buscarArchivoPorNombre(s, n) = i /\ nombreExiste(s, n)
  BY <1>1, <1>3 DEF buscarArchivoPorNombre, nombreExiste
<1>5. QED BY <1>4 DEF Texto20, TextoEn

\* A name that is found is in a slot.
LEMMA Hallado ==
  ASSUME NEW s, Bueno20(s), NEW n, n \in Nombres20(s) \/ (nombreExiste(s, n) /\ n # Vacio)
  PROVE  /\ nombreExiste(s, n) /\ n \in Nombres20(s)
         /\ buscarArchivoPorNombre(s, n) \in DOMAIN s.directorio
         /\ s.directorio[buscarArchivoPorNombre(s, n)].nombre = n
         /\ Texto20(s, n) = TextoEn(s, buscarArchivoPorNombre(s, n))
<1>1. PICK i \in DOMAIN s.directorio : s.directorio[i].nombre = n
  BY DEF nombreExiste, Lugares20, NombreEn, Nombres20
<1>2. QED BY <1>1, Encontrado DEF Nombres20

\* The blocks of a file as the pieces of its text.
LEMMA Trozos20 ==
  ASSUME NEW s, Bueno20(s), NEW i \in DOMAIN s.directorio
  PROVE  /\ [j \in DOMAIN BloquesDe(s, i) |-> s.unidad[BloquesDe(s, i)[j]]] \in Seq(Seq(Bytes))
         /\ TextoEn(s, i) \in Seq(Bytes)
<1> DEFINE w == [j \in DOMAIN BloquesDe(s, i) |-> s.unidad[BloquesDe(s, i)[j]]]
<1>1. \A b \in Bloques20 : s.unidad[b] \in Seq(Bytes)
  BY DEF Bueno20, Tipos20
<1>2. \A j \in DOMAIN BloquesDe(s, i) : s.unidad[BloquesDe(s, i)[j]] \in Seq(Bytes)
  BY <1>1, Slot20
<1>3. w \in [1 .. Len(BloquesDe(s, i)) -> Seq(Bytes)]
  BY <1>2, Slot20
<1> HIDE DEF w
<1>4. w \in Seq(Seq(Bytes))
  <2>1. Len(BloquesDe(s, i)) \in Nat
    BY Slot20
  <2>2. QED BY <1>3, <2>1
<1>5. FlattenSeq(w) \in Seq(Bytes)
  <2>1. <<>> \in Seq(Bytes)
    OBVIOUS
  <2>2. QED BY <1>4, <2>1, AplanadoMas
<1>6. QED BY <1>4, <1>5 DEF w, TextoEn

\* The first free block, of a unit that has one.
LEMMA Libre20 ==
  ASSUME NEW s, Bueno20(s), Libres20(s) # {}
  PROVE  /\ buscarBloqueLibre(s) \in Libres20(s) /\ buscarBloqueLibre(s) \in Bloques20
         /\ buscarBloqueLibre(s) \notin s.bitmap /\ s.unidad[buscarBloqueLibre(s)] = <<>>
         /\ \A i \in DOMAIN s.directorio : buscarBloqueLibre(s) \notin BloquesEnUso(s, i)
<1>1. Libres20(s) \in SUBSET Nat
  BY FileSystem20Valido DEF Libres20, Bloques20
<1>2. buscarBloqueLibre(s) \in Libres20(s)
  BY <1>1, Minimo20 DEF buscarBloqueLibre
<1>3. buscarBloqueLibre(s) \in Bloques20 /\ buscarBloqueLibre(s) \notin s.bitmap
  BY <1>2 DEF Libres20
<1>4. s.unidad[buscarBloqueLibre(s)] = <<>>
  BY <1>2 DEF Bueno20, LibresEnBlanco
<1>5. QED BY <1>2, <1>3, <1>4, Slot20
\* The text of a figure is made of characters.
LEMMA Escrito20 ==
  ASSUME NEW s, Bueno20(s), NEW n \in Nombres20(s)
  PROVE  Texto20(s, n) \in Seq(Bytes)
<1> DEFINE i == buscarArchivoPorNombre(s, n)
<1>1. i \in DOMAIN s.directorio /\ Texto20(s, n) = TextoEn(s, i)
  BY Hallado
<1> HIDE DEF i
<1>2. QED BY <1>1, Trozos20
-----------------------------------------------------------------------------
(***************************************************************************)
(* The calls.                                                              *)
(***************************************************************************)
\* What the other figures keep when a call leaves their slots and blocks.
LEMMA Ajeno ==
  ASSUME NEW s, Bueno20(s), NEW t, Bueno20(t),
         NEW i \in DOMAIN s.directorio, NEW k \in DOMAIN t.directorio,
         t.directorio[k] = s.directorio[i],
         \A b \in BloquesEnUso(s, i) : t.unidad[b] = s.unidad[b]
  PROVE  LET n == s.directorio[i].nombre
         IN n \in Nombres20(t) /\ Texto20(t, n) = Texto20(s, n)
<1>1. BloquesDe(t, k) = BloquesDe(s, i)
  BY DEF BloquesDe
<1>2. \A j \in DOMAIN BloquesDe(s, i) :
        t.unidad[BloquesDe(s, i)[j]] = s.unidad[BloquesDe(s, i)[j]]
  BY Slot20
<1>3. TextoEn(t, k) = TextoEn(s, i)
  <2>1. [j \in DOMAIN BloquesDe(t, k) |-> t.unidad[BloquesDe(t, k)[j]]]
          = [j \in DOMAIN BloquesDe(s, i) |-> s.unidad[BloquesDe(s, i)[j]]]
    BY <1>1, <1>2
  <2>2. QED BY <2>1 DEF TextoEn
<1>4. QED BY <1>3, Encontrado DEF Nombres20

\* A figure that stays is one of those that grow.
LEMMA Igual20 ==
  ASSUME NEW s, Bueno20(s)
  PROVE  Crece(s, s)
<1> SUFFICES ASSUME NEW n \in Nombres20(s) PROVE IsPrefix(Texto20(s, n), Texto20(s, n))
  BY DEF Crece
<1>1. Texto20(s, n) \in Seq(Bytes)
  BY Escrito20
<1>2. QED BY <1>1, Prefijos

\* To grow and grow again is to grow.
LEMMA CreceMas ==
  ASSUME NEW s, Bueno20(s), NEW t, Bueno20(t), NEW u, Bueno20(u), Crece(s, t), Crece(t, u)
  PROVE  Crece(s, u)
<1> SUFFICES ASSUME NEW n \in Nombres20(s)
             PROVE  n \in Nombres20(u) /\ IsPrefix(Texto20(s, n), Texto20(u, n))
  BY DEF Crece
<1>1. /\ n \in Nombres20(t) /\ IsPrefix(Texto20(s, n), Texto20(t, n))
      /\ n \in Nombres20(u) /\ IsPrefix(Texto20(t, n), Texto20(u, n))
  BY DEF Crece
<1>2. /\ Texto20(s, n) \in Seq(Bytes) /\ Texto20(t, n) \in Seq(Bytes)
      /\ Texto20(u, n) \in Seq(Bytes)
  BY <1>1, Escrito20
<1>3. QED BY <1>1, <1>2, Prefijos

\* crearInodo takes a blank block and a slot of its own for a new name.
LEMMA CreaBien ==
  ASSUME NEW s, Bueno20(s), NEW n \in Figuras
  PROVE  Bueno20(crearInodo(s, n)) /\ Crece(s, crearInodo(s, n))
<1> DEFINE b == buscarBloqueLibre(s)
           x == [nombre |-> n, bloques |-> <<b>>]
           t == [s EXCEPT !.directorio = Append(@, x), !.bitmap = @ \cup {b}]
           L == Len(s.directorio)
<1>1. CASE nombreExiste(s, n) \/ L = TDIRECTORIO \/ Libres20(s) = {}
  BY <1>1, Igual20 DEF crearInodo
<1>2. CASE ~ (nombreExiste(s, n) \/ L = TDIRECTORIO \/ Libres20(s) = {})
  <2>0. crearInodo(s, n) = t
    BY <1>2 DEF crearInodo
  <2>1. /\ b \in Bloques20 /\ b \notin s.bitmap /\ s.unidad[b] = <<>>
        /\ \A i \in DOMAIN s.directorio : b \notin BloquesEnUso(s, i)
    BY <1>2, Libre20
  <2>2. /\ s \in [directorio : Seq(Inodos), bitmap : SUBSET Bloques20,
                  unidad : [Bloques20 -> Seq(Bytes)], perdidos : SUBSET Bloques20]
        /\ L \in Nat /\ DOMAIN s.directorio = 1 .. L /\ L <= TDIRECTORIO
    BY DEF Bueno20, Tipos20, EnSuLugar
  <2> HIDE DEF b
  <2>3. x \in Inodos /\ x.nombre = n /\ x.bloques = <<b>>
    BY <2>1 DEF Inodos
  <2>4. /\ t.directorio = Append(s.directorio, x) /\ t.bitmap = s.bitmap \cup {b}
        /\ t.unidad = s.unidad /\ t.perdidos = s.perdidos
        /\ t \in [directorio : Seq(Inodos), bitmap : SUBSET Bloques20,
                  unidad : [Bloques20 -> Seq(Bytes)], perdidos : SUBSET Bloques20]
    <3> HIDE DEF x
    <3>1. Append(s.directorio, x) \in Seq(Inodos)
      BY <2>2, <2>3
    <3>2. QED BY <2>1, <2>2, <3>1
  <2> HIDE DEF x, t
  <2>5. /\ Len(t.directorio) = L + 1 /\ DOMAIN t.directorio = 1 .. L + 1
        /\ t.directorio[L + 1] = x
        /\ \A i \in 1 .. L : t.directorio[i] = s.directorio[i]
    BY <2>2, <2>3, <2>4, AppendProperties
  <2>6. \A i \in 1 .. L : /\ BloquesDe(t, i) = BloquesDe(s, i)
                          /\ BloquesEnUso(t, i) = BloquesEnUso(s, i)
    BY <2>5 DEF BloquesDe, BloquesEnUso
  <2>7. BloquesDe(t, L + 1) = <<b>> /\ BloquesEnUso(t, L + 1) = {b}
    <3>1. BloquesDe(t, L + 1) = <<b>>
      BY <2>3, <2>5 DEF BloquesDe
    <3>2. QED BY <3>1 DEF BloquesEnUso, ToSet
  <2>8. Libres20(t) = Libres20(s) \ {b}
    BY <2>4 DEF Libres20
  <2>9. Tipos20(t)
    BY <2>4 DEF Tipos20
  <2>10. BloquesBien(t)
    <3>1. ASSUME NEW i \in 1 .. L + 1
          PROVE  /\ BloquesDe(t, i) # <<>> /\ Len(BloquesDe(t, i)) <= Directos
                 /\ \A j, k \in DOMAIN BloquesDe(t, i) :
                      j # k => BloquesDe(t, i)[j] # BloquesDe(t, i)[k]
      <4>1. CASE i = L + 1
        <5>1. Len(<<b>>) = 1 /\ DOMAIN <<b>> = {1} /\ <<b>> # <<>>
          OBVIOUS
        <5>2. BloquesDe(t, i) = <<b>>
          BY <4>1, <2>7
        <5>3. QED BY <5>1, <5>2, Tamanos
      <4>2. CASE i # L + 1
        BY <4>2, <2>2, <2>6 DEF Bueno20, BloquesBien
      <4>3. QED BY <4>1, <4>2
    <3>2. QED BY <2>5, <3>1 DEF BloquesBien
  <2>11. EnSuLugar(t)
    <3>1. L + 1 <= TDIRECTORIO
      BY <1>2, <2>2, FileSystem20Valido
    <3>2. QED BY <2>4, <2>5, <3>1 DEF Bueno20, EnSuLugar
  <2>12. SinRepetir(t)
    <3>1. ASSUME NEW i \in 1 .. L + 1, NEW j \in 1 .. L + 1, i # j
          PROVE  /\ t.directorio[i].nombre # t.directorio[j].nombre
                 /\ BloquesEnUso(t, i) \cap BloquesEnUso(t, j) = {}
      <4>1. \A k \in 1 .. L : s.directorio[k].nombre # n
        BY <1>2, <2>2, Encontrado
      <4>a. /\ t.directorio[L + 1].nombre = n /\ BloquesEnUso(t, L + 1) = {b}
            /\ \A k \in 1 .. L : /\ t.directorio[k].nombre # n
                                /\ b \notin BloquesEnUso(t, k)
        BY <2>1, <2>2, <2>3, <2>5, <2>6, <2>7, <4>1
      <4>2. CASE i = L + 1
        <5>1. j \in 1 .. L
          BY <2>2, <3>1, <4>2
        <5>2. QED BY <4>a, <4>2, <5>1
      <4>3. CASE j = L + 1
        <5>1. i \in 1 .. L
          BY <2>2, <3>1, <4>3
        <5>2. QED BY <4>a, <4>3, <5>1
      <4>4. CASE i # L + 1 /\ j # L + 1
        <5>1. i \in 1 .. L /\ j \in 1 .. L
          BY <2>2, <4>4
        <5>2. /\ t.directorio[i] = s.directorio[i] /\ t.directorio[j] = s.directorio[j]
              /\ BloquesEnUso(t, i) = BloquesEnUso(s, i)
              /\ BloquesEnUso(t, j) = BloquesEnUso(s, j)
          BY <2>5, <2>6, <5>1
        <5>3. i \in DOMAIN s.directorio /\ j \in DOMAIN s.directorio
          BY <2>2, <5>1
        <5>4. QED BY <3>1, <5>2, <5>3 DEF Bueno20, SinRepetir
      <4>5. QED BY <4>2, <4>3, <4>4
    <3>2. QED BY <2>5, <3>1 DEF SinRepetir
  <2>13. BitmapJusto(t)
    <3>1. UNION {BloquesEnUso(t, i) : i \in 1 .. L + 1}
            = (UNION {BloquesEnUso(s, i) : i \in 1 .. L}) \cup {b}
      <4>1. \A i \in 1 .. L + 1 : i \in 1 .. L \/ i = L + 1
        BY <2>2
      <4>2. 1 .. L \subseteq 1 .. L + 1 /\ L + 1 \in 1 .. L + 1
        BY <2>2
      <4>3. QED BY <2>6, <2>7, <4>1, <4>2
    <3>2. s.bitmap = s.perdidos \cup UNION {BloquesEnUso(s, i) : i \in 1 .. L}
      BY <2>2 DEF Bueno20, BitmapJusto
    <3>3. t.bitmap = t.perdidos \cup UNION {BloquesEnUso(t, i) : i \in 1 .. L + 1}
      BY <2>4, <3>1, <3>2
    <3>4. ASSUME NEW i \in 1 .. L + 1 PROVE BloquesEnUso(t, i) \cap t.perdidos = {}
      <4>1. i \in 1 .. L \/ i = L + 1
        BY <2>2
      <4>2. i \in 1 .. L => BloquesEnUso(s, i) \cap s.perdidos = {}
        BY <2>2 DEF Bueno20, BitmapJusto
      <4>3. b \notin s.perdidos
        BY <2>1, <3>2
      <4> QED BY <2>4, <2>6, <2>7, <4>1, <4>2, <4>3
    <3> QED BY <2>5, <3>3, <3>4 DEF BitmapJusto
  <2>14. LibresEnBlanco(t)
    BY <2>4, <2>8 DEF Bueno20, LibresEnBlanco
  <2>15. LlenosMenosElUltimo(t)
    <3>1. ASSUME NEW i \in 1 .. L + 1, NEW j \in 1 .. Len(BloquesDe(t, i)) - 1
          PROVE  Len(t.unidad[BloquesDe(t, i)[j]]) = TBLOQUE
      <4>1. CASE i = L + 1
        <5>1. Len(<<b>>) = 1
          OBVIOUS
        <5>2. BloquesDe(t, i) = <<b>>
          BY <4>1, <2>7
        <5>3. QED BY <3>1, <5>1, <5>2
      <4>2. CASE i # L + 1
        <5>1. i \in 1 .. L
          BY <2>2, <4>2
        <5>2. i \in DOMAIN s.directorio /\ BloquesDe(t, i) = BloquesDe(s, i)
          BY <2>2, <2>6, <5>1
        <5>3. QED BY <2>4, <3>1, <5>2 DEF Bueno20, LlenosMenosElUltimo
      <4>3. QED BY <4>1, <4>2
    <3>2. QED BY <2>5, <3>1 DEF LlenosMenosElUltimo
  <2>16. Bueno20(t)
    BY <2>9, <2>10, <2>11, <2>12, <2>13, <2>14, <2>15 DEF Bueno20
  <2>17. ASSUME NEW m \in Nombres20(s)
         PROVE  m \in Nombres20(t) /\ IsPrefix(Texto20(s, m), Texto20(t, m))
    <3>1. PICK i \in 1 .. L : s.directorio[i].nombre = m
      BY <2>2 DEF Nombres20
    <3>2. i \in DOMAIN s.directorio /\ i \in DOMAIN t.directorio
      BY <2>2, <2>5
    <3>3. m \in Nombres20(t) /\ Texto20(t, m) = Texto20(s, m)
      BY <2>4, <2>5, <2>16, <3>1, <3>2, Ajeno
    <3>4. Texto20(s, m) \in Seq(Bytes)
      BY Escrito20
    <3>5. QED BY <3>3, <3>4, Prefijos
  <2>18. QED BY <2>0, <2>16, <2>17 DEF Crece
<1>3. QED BY <1>1, <1>2

\* A character at the end of the last block, which has room.
LEMMA AgregaCabe ==
  ASSUME NEW s, Bueno20(s), NEW i \in DOMAIN s.directorio, NEW c \in Bytes,
         Len(s.unidad[Last(BloquesDe(s, i))]) # TBLOQUE
  PROVE  LET t == [s EXCEPT !.unidad[Last(BloquesDe(s, i))] = Append(@, c)]
         IN Bueno20(t) /\ Crece(s, t)
<1> DEFINE b == Last(BloquesDe(s, i))
           y == Append(s.unidad[b], c)
           t == [s EXCEPT !.unidad[b] = Append(@, c)]
<1>1. b \in Bloques20 /\ b \in s.bitmap /\ b \in BloquesEnUso(s, i)
  BY Slot20
<1>2. s \in [directorio : Seq(Inodos), bitmap : SUBSET Bloques20,
             unidad : [Bloques20 -> Seq(Bytes)], perdidos : SUBSET Bloques20]
  BY DEF Bueno20, Tipos20
<1>3. y \in Seq(Bytes) /\ Len(y) = Len(s.unidad[b]) + 1 /\ Len(s.unidad[b]) \in Nat
  BY <1>1, <1>2, AppendProperties
<1>4. t.unidad = [s.unidad EXCEPT ![b] = y] /\ t.directorio = s.directorio
      /\ t.bitmap = s.bitmap /\ t.perdidos = s.perdidos
      /\ t \in [directorio : Seq(Inodos), bitmap : SUBSET Bloques20,
                unidad : [Bloques20 -> Seq(Bytes)], perdidos : SUBSET Bloques20]
  <2> HIDE DEF b
  <2>1. t = [directorio |-> s.directorio, bitmap |-> s.bitmap,
             unidad |-> [s.unidad EXCEPT ![b] = y], perdidos |-> s.perdidos]
    <3> DEFINE z == [s.unidad EXCEPT ![b] = y]
    <3>1. z = [s.unidad EXCEPT ![b] = Append(@, c)]
      BY <1>1, <1>2
    <3>2. t = [s EXCEPT !.unidad = z]
      BY <3>1
    <3> HIDE DEF z, t
    <3>3. t = [directorio |-> s.directorio, bitmap |-> s.bitmap, unidad |-> z,
               perdidos |-> s.perdidos]
      BY <1>2, <3>2
    <3>4. QED BY <3>3 DEF z
  <2> HIDE DEF y, t
  <2>2. QED BY <1>1, <1>2, <1>3, <2>1
<1>5. t.unidad[b] = y /\ \A x \in Bloques20 : x # b => t.unidad[x] = s.unidad[x]
  <2> HIDE DEF b, y, t
  <2>1. QED BY <1>1, <1>2, <1>4
<1>6. Len(s.unidad[b]) <= TBLOQUE /\ Len(s.unidad[b]) # TBLOQUE
  BY <1>1 DEF Bueno20, EnSuLugar
<1> HIDE DEF y, t
<1>7. \A k : BloquesDe(t, k) = BloquesDe(s, k) /\ BloquesEnUso(t, k) = BloquesEnUso(s, k)
  BY <1>4 DEF BloquesDe, BloquesEnUso
<1>8. Tipos20(t)
  BY <1>4 DEF Tipos20
<1>9. BloquesBien(t)
  BY <1>4, <1>7 DEF Bueno20, BloquesBien
<1>10. EnSuLugar(t)
  <2>1. ASSUME NEW x \in Bloques20 PROVE Len(t.unidad[x]) <= TBLOQUE
    <3>1. CASE x = b
      <4> HIDE DEF b
      <4>1. QED BY <1>3, <1>5, <1>6, <3>1, Tamanos
    <3>2. CASE x # b
      BY <1>5, <3>2 DEF Bueno20, EnSuLugar
    <3>3. QED BY <3>1, <3>2
  <2>2. QED BY <1>4, <2>1 DEF Bueno20, EnSuLugar
<1>11. SinRepetir(t)
  BY <1>4, <1>7 DEF Bueno20, SinRepetir
<1>12. BitmapJusto(t)
  BY <1>4, <1>7 DEF Bueno20, BitmapJusto
<1>13. LibresEnBlanco(t)
  <2> HIDE DEF b
  <2>1. ASSUME NEW x \in Libres20(t) PROVE t.unidad[x] = <<>>
    <3>1. x \in Bloques20 /\ x \in Libres20(s) /\ x # b
      BY <1>1, <1>4 DEF Libres20
    <3>2. QED BY <1>5, <3>1 DEF Bueno20, LibresEnBlanco
  <2>2. QED BY <2>1 DEF LibresEnBlanco
<1>14. ASSUME NEW k \in DOMAIN s.directorio, NEW j \in 1 .. Len(BloquesDe(s, k)) - 1
       PROVE  BloquesDe(s, k)[j] # b /\ BloquesDe(s, k)[j] \in Bloques20
  <2>1. /\ j \in DOMAIN BloquesDe(s, k) /\ j # Len(BloquesDe(s, k))
        /\ Len(BloquesDe(s, k)) \in DOMAIN BloquesDe(s, k)
    BY Slot20
  <2>2. BloquesDe(s, k)[j] \in BloquesEnUso(s, k) /\ BloquesDe(s, k)[j] \in Bloques20
    BY <2>1, Slot20
  <2>3. CASE k = i
    <3>1. BloquesDe(s, k)[j] # BloquesDe(s, k)[Len(BloquesDe(s, k))]
      BY <2>1 DEF Bueno20, BloquesBien
    <3>2. QED BY <2>2, <2>3, <3>1, Slot20
  <2>4. CASE k # i
    <3>1. BloquesEnUso(s, k) \cap BloquesEnUso(s, i) = {}
      BY <2>4 DEF Bueno20, SinRepetir
    <3>2. QED BY <1>1, <2>2, <3>1
  <2>5. QED BY <2>3, <2>4
<1>15. LlenosMenosElUltimo(t)
  <2>1. ASSUME NEW k \in DOMAIN t.directorio, NEW j \in 1 .. Len(BloquesDe(t, k)) - 1
        PROVE  Len(t.unidad[BloquesDe(t, k)[j]]) = TBLOQUE
    <3>1. /\ k \in DOMAIN s.directorio /\ BloquesDe(t, k) = BloquesDe(s, k)
          /\ j \in 1 .. Len(BloquesDe(s, k)) - 1
      BY <1>4, <1>7
    <3>2. t.unidad[BloquesDe(t, k)[j]] = s.unidad[BloquesDe(s, k)[j]]
      BY <1>5, <1>14, <3>1
    <3>3. QED BY <3>1, <3>2 DEF Bueno20, LlenosMenosElUltimo
  <2>2. QED BY <2>1 DEF LlenosMenosElUltimo
<1>16. Bueno20(t)
  BY <1>8, <1>9, <1>10, <1>11, <1>12, <1>13, <1>15 DEF Bueno20
<1>17. IsPrefix(TextoEn(s, i), TextoEn(t, i))
  <2> DEFINE m == Len(BloquesDe(s, i))
             v == [j \in 1 .. m |-> s.unidad[BloquesDe(s, i)[j]]]
             w == [j \in 1 .. m |-> t.unidad[BloquesDe(t, i)[j]]]
             u == [j \in 1 .. m - 1 |-> s.unidad[BloquesDe(s, i)[j]]]
  <2>1. /\ m \in Nat \ {0} /\ DOMAIN BloquesDe(s, i) = 1 .. m /\ b = BloquesDe(s, i)[m]
        /\ DOMAIN BloquesDe(t, i) = 1 .. m /\ BloquesDe(t, i) = BloquesDe(s, i)
    BY <1>7, Slot20
  <2>2. \A j \in 1 .. m : BloquesDe(s, i)[j] \in Bloques20
    BY <2>1, Slot20
  <2>3. \A x \in Bloques20 : s.unidad[x] \in Seq(Bytes)
    BY <1>2
  <2>4. TextoEn(s, i) = FlattenSeq(v) /\ TextoEn(t, i) = FlattenSeq(w)
    BY <2>1 DEF TextoEn
  <2>5. u \in Seq(Seq(Bytes)) /\ Len(u) = m - 1
    <3>1. \A j \in 1 .. m - 1 : s.unidad[BloquesDe(s, i)[j]] \in Seq(Bytes)
      BY <2>1, <2>2, <2>3
    <3>2. u \in [1 .. m - 1 -> Seq(Bytes)] /\ m - 1 \in Nat
      BY <2>1, <3>1
    <3> HIDE DEF u, m
    <3>3. QED BY <3>2
  <2>6. s.unidad[b] \in Seq(Bytes)
    BY <1>1, <2>3
  <2>7. v = Append(u, s.unidad[b])
    <3>1. \A j \in 1 .. m : v[j] = Append(u, s.unidad[b])[j]
      <4>1. SUFFICES ASSUME NEW j \in 1 .. m PROVE v[j] = Append(u, s.unidad[b])[j]
        OBVIOUS
      <4>2. CASE j = m
        <5>1. v[j] = s.unidad[b]
          BY <2>1, <4>2
        <5>2. Append(u, s.unidad[b])[m - 1 + 1] = s.unidad[b] /\ m - 1 + 1 = m
          <6> HIDE DEF u, m, b
          <6>1. QED BY <2>1, <2>5, <2>6, AppendProperties
        <5>3. QED BY <4>2, <5>1, <5>2
      <4>3. CASE j # m
        <5>1. j \in 1 .. m - 1
          <6> HIDE DEF u, m, b
          <6>1. QED BY <2>1, <4>3
        <5>2. Append(u, s.unidad[b])[j] = u[j]
          <6> HIDE DEF u, m, b
          <6>1. QED BY <2>1, <2>5, <2>6, <5>1, AppendProperties
        <5>3. v[j] = u[j]
          BY <5>1, <2>1
        <5>4. QED BY <5>2, <5>3
      <4>4. QED BY <4>2, <4>3
    <3>2. Append(u, s.unidad[b]) \in Seq(Seq(Bytes)) /\ Len(Append(u, s.unidad[b])) = m
      <4> HIDE DEF u, m, b
      <4>1. QED BY <2>1, <2>5, <2>6, AppendProperties
    <3>3. v \in Seq(Seq(Bytes)) /\ Len(v) = m
      <4>1. v \in [1 .. m -> Seq(Bytes)] /\ m \in Nat
        BY <2>1, <2>2, <2>3
      <4> HIDE DEF v, m
      <4>2. QED BY <4>1
    <3> HIDE DEF v, u, m, b
    <3>4. QED BY <3>1, <3>2, <3>3, SeqEqual
  <2>8. w = Append(u, y)
    <3>1. \A j \in 1 .. m : w[j] = Append(u, y)[j]
      <4>1. SUFFICES ASSUME NEW j \in 1 .. m PROVE w[j] = Append(u, y)[j]
        OBVIOUS
      <4>2. CASE j = m
        <5>1. w[j] = y
          BY <1>5, <2>1, <4>2
        <5>2. Append(u, y)[m - 1 + 1] = y /\ m - 1 + 1 = m
          <6> HIDE DEF u, m, b
          <6>1. QED BY <1>3, <2>1, <2>5, AppendProperties
        <5>3. QED BY <4>2, <5>1, <5>2
      <4>3. CASE j # m
        <5>1. j \in 1 .. m - 1
          <6> HIDE DEF u, m, b
          <6>1. QED BY <2>1, <4>3
        <5>2. Append(u, y)[j] = u[j]
          <6> HIDE DEF u, m, b
          <6>1. QED BY <1>3, <2>1, <2>5, <5>1, AppendProperties
        <5>3. w[j] = t.unidad[BloquesDe(s, i)[j]] /\ u[j] = s.unidad[BloquesDe(s, i)[j]]
          BY <5>1, <2>1
        <5>4. t.unidad[BloquesDe(s, i)[j]] = s.unidad[BloquesDe(s, i)[j]]
          BY <1>5, <1>14, <5>1
        <5>5. QED BY <5>2, <5>3, <5>4
      <4>4. QED BY <4>2, <4>3
    <3>2. Append(u, y) \in Seq(Seq(Bytes)) /\ Len(Append(u, y)) = m
      <4> HIDE DEF u, m, b
      <4>1. QED BY <1>3, <2>1, <2>5, AppendProperties
    <3>3. w \in Seq(Seq(Bytes)) /\ Len(w) = m
      <4>0. \A x \in Bloques20 : t.unidad[x] \in Seq(Bytes)
        BY <1>4
      <4>1. w \in [1 .. m -> Seq(Bytes)] /\ m \in Nat
        BY <2>1, <2>2, <4>0
      <4> HIDE DEF w, m
      <4>2. QED BY <4>1
    <3> HIDE DEF w, u, m, b
    <3>4. QED BY <3>1, <3>2, <3>3, SeqEqual
  <2> HIDE DEF u, v, w, m, b
  <2>9. /\ FlattenSeq(u) \in Seq(Bytes)
        /\ FlattenSeq(v) = FlattenSeq(u) \o s.unidad[b]
        /\ FlattenSeq(w) = FlattenSeq(u) \o y
    BY <1>3, <2>5, <2>6, <2>7, <2>8, AplanadoMas
  <2>10. QED BY <2>4, <2>6, <2>9, Prefijos DEF y
<1>18. ASSUME NEW n \in Nombres20(s)
       PROVE  n \in Nombres20(t) /\ IsPrefix(Texto20(s, n), Texto20(t, n))
  <2>1. PICK k \in DOMAIN s.directorio : s.directorio[k].nombre = n
    BY DEF Nombres20
  <2>2. k \in DOMAIN t.directorio /\ t.directorio[k] = s.directorio[k]
    BY <1>4
  <2>3. CASE k = i
    <3>1. Texto20(s, n) = TextoEn(s, i) /\ Texto20(t, n) = TextoEn(t, i)
      BY <1>16, <2>1, <2>2, <2>3, Encontrado
    <3>2. QED BY <1>17, <2>1, <2>2, <3>1 DEF Nombres20
  <2>4. CASE k # i
    <3>1. \A x \in BloquesEnUso(s, k) : t.unidad[x] = s.unidad[x]
      <4>1. BloquesEnUso(s, k) \cap BloquesEnUso(s, i) = {}
        BY <2>4 DEF Bueno20, SinRepetir
      <4>2. BloquesEnUso(s, k) \subseteq Bloques20
        BY Slot20
      <4>3. QED BY <1>1, <1>5, <4>1, <4>2
    <3>2. n \in Nombres20(t) /\ Texto20(t, n) = Texto20(s, n)
      BY <1>16, <2>1, <2>2, <3>1, Ajeno
    <3>3. QED BY <3>2, Escrito20, Prefijos
  <2>5. QED BY <2>3, <2>4
<1>19. QED BY <1>16, <1>18 DEF Crece, t

\* A character at the beginning of a new block, after one that is full.
LEMMA AgregaBloque ==
  ASSUME NEW s, Bueno20(s), NEW i \in DOMAIN s.directorio, NEW c \in Bytes,
         Len(s.unidad[Last(BloquesDe(s, i))]) = TBLOQUE, PuedeTomar(s, i)
  PROVE  LET r == Tomar(s, i)
             t == [r EXCEPT !.unidad[Last(BloquesDe(r, i))] =
                     <<c>> \o (IF @ = <<>> THEN <<>> ELSE Tail(@))]
         IN Bueno20(t) /\ Crece(s, t)
<1> DEFINE b == buscarBloqueLibre(s)
           old == BloquesDe(s, i)
           x == [s.directorio[i] EXCEPT !.bloques = Append(@, b)]
           d == [s.directorio EXCEPT ![i] = x]
           r == Tomar(s, i)
           t == [r EXCEPT !.unidad[Last(BloquesDe(r, i))] =
                   <<c>> \o (IF @ = <<>> THEN <<>> ELSE Tail(@))]
<1>1. /\ b \in Bloques20 /\ b \notin s.bitmap /\ s.unidad[b] = <<>>
      /\ \A k \in DOMAIN s.directorio : b \notin BloquesEnUso(s, k)
  BY Libre20 DEF PuedeTomar
<1>2. s \in [directorio : Seq(Inodos), bitmap : SUBSET Bloques20,
             unidad : [Bloques20 -> Seq(Bytes)], perdidos : SUBSET Bloques20]
  BY DEF Bueno20, Tipos20
<1> DEFINE L == Len(s.directorio)
           m == Len(old)
<1>3. /\ s.directorio[i] \in Inodos /\ L \in Nat /\ DOMAIN s.directorio = 1 .. L
      /\ old \in Seq(Bloques20) /\ m \in Nat \ {0} /\ m < Directos /\ DOMAIN old = 1 .. m
      /\ old = s.directorio[i].bloques
  <2>1. s.directorio[i] \in Inodos /\ L \in Nat /\ DOMAIN s.directorio = 1 .. L
    BY <1>2, Slot20
  <2>2. old \in Seq(Bloques20) /\ m \in Nat \ {0} /\ m < Directos /\ DOMAIN old = 1 .. m
    BY Slot20 DEF PuedeTomar
  <2>3. QED BY <2>1, <2>2 DEF BloquesDe
<1> HIDE DEF old
<1>4. /\ Append(old, b) \in Seq(Bloques20) /\ Len(Append(old, b)) = m + 1
      /\ Append(old, b)[m + 1] = b /\ \A j \in 1 .. m : Append(old, b)[j] = old[j]
      /\ DOMAIN Append(old, b) = 1 .. m + 1
  <2> HIDE DEF b
  <2>1. Append(old, b) \in Seq(Bloques20) /\ Len(Append(old, b)) = m + 1
    BY <1>1, <1>3, AppendProperties
  <2>2. Append(old, b)[m + 1] = b /\ \A j \in 1 .. m : Append(old, b)[j] = old[j]
    BY <1>1, <1>3, AppendProperties
  <2>3. QED BY <2>1, <2>2
<1>5. x \in Inodos /\ x.nombre = s.directorio[i].nombre /\ x.bloques = Append(old, b)
  <2> HIDE DEF b
  <2>1. QED BY <1>3, <1>4 DEF Inodos
<1>6. d \in Seq(Inodos) /\ Len(d) = L /\ DOMAIN d = 1 .. L /\ d[i] = x
      /\ \A k \in 1 .. L : k # i => d[k] = s.directorio[k]
  <2> HIDE DEF x
  <2>1. s.directorio \in Seq(Inodos) /\ i \in 1 .. L
    BY <1>2, <1>3
  <2>2. QED BY <1>3, <1>5, <2>1
<1>7. r = [directorio |-> d, bitmap |-> s.bitmap \cup {b}, unidad |-> s.unidad,
           perdidos |-> s.perdidos]
  <2>1. d = [s.directorio EXCEPT ![i].bloques = Append(@, b)]
    <3> HIDE DEF b
    <3>1. QED BY <1>2, <1>3
  <2>2. r = [s EXCEPT !.bitmap = @ \cup {b}, !.directorio = d]
    BY <2>1 DEF Tomar
  <2> HIDE DEF d, r, b
  <2>3. QED BY <1>2, <2>2
<1>8. BloquesDe(r, i) = Append(old, b) /\ Last(BloquesDe(r, i)) = b
  <2> HIDE DEF r, d, x, b
  <2>1. BloquesDe(r, i) = Append(old, b)
    BY <1>5, <1>6, <1>7 DEF BloquesDe
  <2>2. QED BY <1>4, <2>1 DEF Last
<1>9. /\ t = [directorio |-> d, bitmap |-> s.bitmap \cup {b},
              unidad |-> [s.unidad EXCEPT ![b] = <<c>>], perdidos |-> s.perdidos]
  <2> DEFINE z == [s.unidad EXCEPT ![b] = <<c>>]
  <2>1. z = [r.unidad EXCEPT ![Last(BloquesDe(r, i))] =
               <<c>> \o (IF @ = <<>> THEN <<>> ELSE Tail(@))]
    <3> HIDE DEF r, d, b
    <3>1. r.unidad = s.unidad
      BY <1>7
    <3>2. <<c>> \o (IF s.unidad[b] = <<>> THEN <<>> ELSE Tail(s.unidad[b])) = <<c>>
      BY <1>1
    <3>3. QED BY <1>1, <1>2, <1>8, <3>1, <3>2
  <2>2. t = [r EXCEPT !.unidad = z]
    BY <2>1
  <2> HIDE DEF z, t, r, d, b
  <2>3. t = [directorio |-> d, bitmap |-> s.bitmap \cup {b}, unidad |-> z,
             perdidos |-> s.perdidos]
    BY <1>7, <2>2
  <2>4. QED BY <2>3 DEF z
<1> HIDE DEF t, r, d, x, b
<1>10. /\ t.directorio = d /\ t.bitmap = s.bitmap \cup {b} /\ t.unidad[b] = <<c>>
       /\ \A y \in Bloques20 : y # b => t.unidad[y] = s.unidad[y]
       /\ t.perdidos = s.perdidos
       /\ t \in [directorio : Seq(Inodos), bitmap : SUBSET Bloques20,
                 unidad : [Bloques20 -> Seq(Bytes)], perdidos : SUBSET Bloques20]
  <2>1. <<c>> \in Seq(Bytes)
    OBVIOUS
  <2>2. QED BY <1>1, <1>2, <1>6, <1>9, <2>1
<1>11. BloquesDe(t, i) = Append(old, b) /\ BloquesEnUso(t, i) = BloquesEnUso(s, i) \cup {b}
  <2>1. BloquesDe(t, i) = Append(old, b)
    BY <1>5, <1>6, <1>10 DEF BloquesDe
  <2>2. {Append(old, b)[j] : j \in 1 .. m + 1} = {old[j] : j \in 1 .. m} \cup {b}
    <3>1. \A j \in 1 .. m + 1 : j \in 1 .. m \/ j = m + 1
      BY <1>3
    <3>2. 1 .. m \subseteq 1 .. m + 1 /\ m + 1 \in 1 .. m + 1
      BY <1>3
    <3>3. QED BY <1>4, <3>1, <3>2
  <2>3. BloquesDe(s, i) = old
    BY DEF old
  <2>4. BloquesEnUso(s, i) = {old[j] : j \in 1 .. m}
    BY <1>3, <2>3 DEF BloquesEnUso, ToSet
  <2>5. BloquesEnUso(t, i) = {Append(old, b)[j] : j \in 1 .. m + 1}
    BY <1>4, <2>1 DEF BloquesEnUso, ToSet
  <2>6. QED BY <2>1, <2>2, <2>4, <2>5
<1>12. \A k \in 1 .. L : k # i => /\ BloquesDe(t, k) = BloquesDe(s, k)
                                 /\ BloquesEnUso(t, k) = BloquesEnUso(s, k)
  BY <1>6, <1>10 DEF BloquesDe, BloquesEnUso
<1>13. Tipos20(t)
  BY <1>10 DEF Tipos20
<1>14. \A j \in 1 .. m : old[j] # b /\ old[j] \in Bloques20
  <2>1. \A j \in 1 .. m : old[j] \in BloquesEnUso(s, i)
    BY <1>3, Slot20 DEF old
  <2>2. QED BY <1>1, <1>3, <2>1
<1>15. BloquesBien(t)
  <2>1. ASSUME NEW k \in 1 .. L
        PROVE  /\ BloquesDe(t, k) # <<>> /\ Len(BloquesDe(t, k)) <= Directos
               /\ \A j, l \in DOMAIN BloquesDe(t, k) :
                    j # l => BloquesDe(t, k)[j] # BloquesDe(t, k)[l]
    <3>1. CASE k = i
      <4>1. BloquesDe(t, k) = Append(old, b)
        BY <1>11, <3>1
      <4>2. Append(old, b) # <<>> /\ Len(Append(old, b)) <= Directos
        BY <1>3, <1>4, Tamanos
      <4>3. \A j, l \in 1 .. m : j # l => old[j] # old[l]
        BY <1>3 DEF Bueno20, BloquesBien, old
      <4>4. ASSUME NEW j \in 1 .. m + 1, NEW l \in 1 .. m + 1, j # l
            PROVE  Append(old, b)[j] # Append(old, b)[l]
        <5>1. \A z \in 1 .. m + 1 : z \in 1 .. m \/ z = m + 1
          BY <1>3
        <5>2. QED BY <1>4, <1>14, <4>3, <4>4, <5>1
      <4>5. QED BY <1>4, <4>1, <4>2, <4>4
    <3>2. CASE k # i
      BY <1>3, <1>12, <3>2 DEF Bueno20, BloquesBien
    <3>3. QED BY <3>1, <3>2
  <2>2. QED BY <1>6, <1>10, <2>1 DEF BloquesBien
<1>16. EnSuLugar(t)
  <2>1. ASSUME NEW y \in Bloques20 PROVE Len(t.unidad[y]) <= TBLOQUE
    <3>1. CASE y = b
      <4>1. Len(<<c>>) = 1
        OBVIOUS
      <4>2. t.unidad[y] = <<c>>
        BY <1>10, <3>1
      <4>3. QED BY <4>1, <4>2, Tamanos
    <3>2. CASE y # b
      BY <1>10, <3>2 DEF Bueno20, EnSuLugar
    <3>3. QED BY <3>1, <3>2
  <2>2. QED BY <1>6, <1>10, <2>1 DEF Bueno20, EnSuLugar
<1>17. SinRepetir(t)
  <2>1. \A k \in 1 .. L : t.directorio[k].nombre = s.directorio[k].nombre
    BY <1>5, <1>6, <1>10
  <2>2. ASSUME NEW k \in 1 .. L, NEW l \in 1 .. L, k # l
        PROVE  BloquesEnUso(t, k) \cap BloquesEnUso(t, l) = {}
    <3>1. BloquesEnUso(s, k) \cap BloquesEnUso(s, l) = {}
      BY <1>3, <2>2 DEF Bueno20, SinRepetir
    <3>2. b \notin BloquesEnUso(s, k) /\ b \notin BloquesEnUso(s, l)
      BY <1>1, <1>3
    <3>3. CASE k = i
      <4>1. BloquesEnUso(t, k) = BloquesEnUso(s, k) \cup {b}
            /\ BloquesEnUso(t, l) = BloquesEnUso(s, l)
        BY <1>11, <1>12, <2>2, <3>3
      <4>2. QED BY <3>1, <3>2, <4>1
    <3>4. CASE l = i
      <4>1. BloquesEnUso(t, l) = BloquesEnUso(s, l) \cup {b}
            /\ BloquesEnUso(t, k) = BloquesEnUso(s, k)
        BY <1>11, <1>12, <2>2, <3>4
      <4>2. QED BY <3>1, <3>2, <4>1
    <3>5. CASE k # i /\ l # i
      BY <1>12, <3>1, <3>5
    <3>6. QED BY <3>3, <3>4, <3>5
  <2>3. QED BY <1>3, <1>6, <1>10, <2>1, <2>2 DEF Bueno20, SinRepetir
<1>18. BitmapJusto(t)
  <2>1. UNION {BloquesEnUso(t, k) : k \in 1 .. L}
          = (UNION {BloquesEnUso(s, k) : k \in 1 .. L}) \cup {b}
    <3>1. i \in 1 .. L
      BY <1>3
    <3>2. QED BY <1>11, <1>12, <3>1
  <2>2. /\ s.bitmap = s.perdidos \cup UNION {BloquesEnUso(s, k) : k \in 1 .. L}
        /\ \A k \in 1 .. L : BloquesEnUso(s, k) \cap s.perdidos = {}
    BY <1>3 DEF Bueno20, BitmapJusto
  <2>3. b \notin s.perdidos
    BY <1>1, <2>2
  <2>4. \A k \in 1 .. L : BloquesEnUso(t, k) \cap t.perdidos = {}
    BY <1>10, <1>11, <1>12, <2>2, <2>3
  <2>5. t.bitmap = t.perdidos \cup UNION {BloquesEnUso(t, k) : k \in 1 .. L}
    BY <1>10, <2>1, <2>2
  <2>6. DOMAIN t.directorio = 1 .. L
    BY <1>6, <1>10
  <2> QED BY <2>4, <2>5, <2>6 DEF BitmapJusto
<1>19. LibresEnBlanco(t)
  <2>1. ASSUME NEW y \in Libres20(t) PROVE t.unidad[y] = <<>>
    <3>1. y \in Bloques20 /\ y \in Libres20(s) /\ y # b
      BY <1>10 DEF Libres20
    <3>2. QED BY <1>10, <3>1 DEF Bueno20, LibresEnBlanco
  <2>2. QED BY <2>1 DEF LibresEnBlanco
<1>20. LlenosMenosElUltimo(t)
  <2>1. ASSUME NEW k \in 1 .. L, NEW j \in 1 .. Len(BloquesDe(t, k)) - 1
        PROVE  Len(t.unidad[BloquesDe(t, k)[j]]) = TBLOQUE
    <3>1. CASE k = i
      <4>1. j \in 1 .. m /\ BloquesDe(t, k)[j] = old[j]
        <5>1. Len(BloquesDe(t, k)) = m + 1
          BY <1>4, <1>11, <3>1
        <5>2. j \in 1 .. m
          BY <1>3, <5>1
        <5>3. QED BY <1>4, <1>11, <3>1, <5>2
      <4>2. t.unidad[old[j]] = s.unidad[old[j]]
        BY <1>10, <1>14, <4>1
      <4>3. CASE j = m
        <5>1. Last(BloquesDe(s, i)) = old[m]
          BY Slot20 DEF old
        <5>2. QED BY <4>1, <4>2, <4>3, <5>1
      <4>4. CASE j # m
        <5>1. j \in 1 .. m - 1
          BY <1>3, <4>1, <4>4
        <5>2. Len(s.unidad[old[j]]) = TBLOQUE
          BY <5>1 DEF Bueno20, LlenosMenosElUltimo, old
        <5>3. QED BY <4>1, <4>2, <5>2
      <4>5. QED BY <4>3, <4>4
    <3>2. CASE k # i
      <4>1. BloquesDe(t, k) = BloquesDe(s, k) /\ k \in DOMAIN s.directorio
        BY <1>3, <1>12, <3>2
      <4>2. j \in DOMAIN BloquesDe(s, k)
        BY <4>1, Slot20
      <4>3. BloquesDe(s, k)[j] \in Bloques20 /\ BloquesDe(s, k)[j] # b
        BY <1>1, <4>1, <4>2, Slot20
      <4>4. Len(s.unidad[BloquesDe(s, k)[j]]) = TBLOQUE
        <5>1. LlenosMenosElUltimo(s)
          BY DEF Bueno20
        <5>2. j \in 1 .. Len(BloquesDe(s, k)) - 1
          BY <4>1
        <5>3. QED BY <4>1, <5>1, <5>2 DEF LlenosMenosElUltimo
      <4>5. t.unidad[BloquesDe(s, k)[j]] = s.unidad[BloquesDe(s, k)[j]]
        BY <1>10, <4>3
      <4>6. QED BY <4>1, <4>4, <4>5
    <3>3. QED BY <3>1, <3>2
  <2>2. QED BY <1>6, <1>10, <2>1 DEF LlenosMenosElUltimo
<1>21. Bueno20(t)
  BY <1>13, <1>15, <1>16, <1>17, <1>18, <1>19, <1>20 DEF Bueno20
<1>22. IsPrefix(TextoEn(s, i), TextoEn(t, i))
  <2> DEFINE v == [j \in 1 .. m |-> s.unidad[BloquesDe(s, i)[j]]]
             w == [j \in 1 .. m + 1 |-> t.unidad[BloquesDe(t, i)[j]]]
  <2>1. TextoEn(s, i) = FlattenSeq(v) /\ TextoEn(t, i) = FlattenSeq(w)
    <3>1. DOMAIN BloquesDe(s, i) = 1 .. m /\ DOMAIN BloquesDe(t, i) = 1 .. m + 1
      BY <1>3, <1>4, <1>11 DEF old
    <3>2. QED BY <3>1 DEF TextoEn
  <2>2. v \in Seq(Seq(Bytes)) /\ Len(v) = m
    <3>1. v \in Seq(Seq(Bytes))
      BY <1>3, Trozos20 DEF old
    <3> HIDE DEF v
    <3>2. v \in [1 .. m -> Seq(Bytes)]
      <4>1. DOMAIN v = 1 .. m
        BY DEF v
      <4>2. QED BY <3>1, <4>1
    <3>3. QED BY <1>3, <3>1, <3>2
  <2>3. <<c>> \in Seq(Bytes)
    OBVIOUS
  <2>4. w = Append(v, <<c>>)
    <3>1. \A j \in 1 .. m + 1 : w[j] = Append(v, <<c>>)[j]
      <4>1. SUFFICES ASSUME NEW j \in 1 .. m + 1 PROVE w[j] = Append(v, <<c>>)[j]
        OBVIOUS
      <4>2. CASE j = m + 1
        <5>1. w[j] = <<c>>
          BY <1>4, <1>10, <1>11, <4>2
        <5>2. Append(v, <<c>>)[m + 1] = <<c>>
          <6> HIDE DEF v, m
          <6>1. QED BY <2>2, <2>3, AppendProperties
        <5>3. QED BY <4>2, <5>1, <5>2
      <4>3. CASE j # m + 1
        <5>1. j \in 1 .. m
          BY <1>3, <4>3
        <5>2. Append(v, <<c>>)[j] = v[j]
          <6> HIDE DEF v, m
          <6>1. QED BY <2>2, <2>3, <5>1, AppendProperties
        <5>3. w[j] = t.unidad[old[j]] /\ v[j] = s.unidad[old[j]]
          BY <1>4, <1>11, <5>1 DEF old
        <5>4. t.unidad[old[j]] = s.unidad[old[j]]
          BY <1>10, <1>14, <5>1
        <5>5. QED BY <5>2, <5>3, <5>4
      <4>4. QED BY <4>2, <4>3
    <3>2. Append(v, <<c>>) \in Seq(Seq(Bytes)) /\ Len(Append(v, <<c>>)) = m + 1
      <4> HIDE DEF v, m
      <4>1. QED BY <2>2, <2>3, AppendProperties
    <3>3. w \in Seq(Seq(Bytes)) /\ Len(w) = m + 1
      <4>0. \A j \in 1 .. m + 1 : w[j] \in Seq(Bytes)
        <5>1. \A y \in Bloques20 : t.unidad[y] \in Seq(Bytes)
          BY <1>10
        <5>2. \A j \in 1 .. m + 1 : BloquesDe(t, i)[j] \in Bloques20
          BY <1>4, <1>11
        <5>3. QED BY <5>1, <5>2
      <4>1. w \in [1 .. m + 1 -> Seq(Bytes)]
        <5>1. w = [j \in 1 .. m + 1 |-> w[j]]
          OBVIOUS
        <5> HIDE DEF w, m
        <5>2. QED BY <4>0, <5>1
      <4>a. m + 1 \in Nat
        BY <1>3
      <4> HIDE DEF w, m
      <4>2. QED BY <4>1, <4>a
    <3> HIDE DEF v, w, m
    <3>4. QED BY <3>1, <3>2, <3>3, SeqEqual
  <2> HIDE DEF v, w, m
  <2>5. /\ FlattenSeq(v) \in Seq(Bytes)
        /\ FlattenSeq(w) = FlattenSeq(v) \o <<c>>
    BY <2>2, <2>3, <2>4, AplanadoMas
  <2>6. IsPrefix(FlattenSeq(v), FlattenSeq(v) \o <<c>>)
    BY <2>3, <2>5, Prefijos
  <2>7. QED BY <2>1, <2>5, <2>6
<1>23. ASSUME NEW n \in Nombres20(s)
       PROVE  n \in Nombres20(t) /\ IsPrefix(Texto20(s, n), Texto20(t, n))
  <2>1. PICK k \in DOMAIN s.directorio : s.directorio[k].nombre = n
    BY DEF Nombres20
  <2>2. k \in DOMAIN t.directorio /\ k \in 1 .. L /\ t.directorio[k].nombre = n
    BY <1>3, <1>5, <1>6, <1>10, <2>1
  <2>3. CASE k = i
    <3>1. Texto20(s, n) = TextoEn(s, i) /\ Texto20(t, n) = TextoEn(t, i)
      BY <1>21, <2>1, <2>2, <2>3, Encontrado
    <3>2. QED BY <1>22, <2>2, <3>1 DEF Nombres20
  <2>4. CASE k # i
    <3>1. t.directorio[k] = s.directorio[k]
      BY <1>6, <1>10, <2>2, <2>4
    <3>2. \A y \in BloquesEnUso(s, k) : t.unidad[y] = s.unidad[y]
      BY <1>1, <1>10, Slot20
    <3>3. n \in Nombres20(t) /\ Texto20(t, n) = Texto20(s, n)
      BY <1>21, <2>1, <2>2, <3>1, <3>2, Ajeno
    <3>4. QED BY <3>3, Escrito20, Prefijos
  <2>5. QED BY <2>3, <2>4
<1>24. QED BY <1>21, <1>23 DEF Crece, t, r

\* agregar, whatever comes of it.
LEMMA AgregaBien ==
  ASSUME NEW s, Bueno20(s), NEW n, n # Vacio, NEW c \in Bytes
  PROVE  Bueno20(agregar(s, n, c)) /\ Crece(s, agregar(s, n, c))
<1> DEFINE i == buscarArchivoPorNombre(s, n)
<1>1. CASE ~nombreExiste(s, n)
  <2>1. agregar(s, n, c) = s
    BY <1>1 DEF agregar
  <2>2. QED BY <2>1, Igual20
<1>2. CASE nombreExiste(s, n)
  <2>1. i \in DOMAIN s.directorio
    BY <1>2, Hallado
  <2>2. CASE Len(s.unidad[Last(BloquesDe(s, i))]) # TBLOQUE
    <3>1. agregar(s, n, c) = [s EXCEPT !.unidad[Last(BloquesDe(s, i))] = Append(@, c)]
      BY <1>2, <2>2 DEF agregar
    <3> HIDE DEF i
    <3>2. QED BY <2>1, <2>2, <3>1, AgregaCabe
  <2>3. CASE Len(s.unidad[Last(BloquesDe(s, i))]) = TBLOQUE /\ ~PuedeTomar(s, i)
    <3>1. agregar(s, n, c) = s
      BY <1>2, <2>3 DEF agregar
    <3>2. QED BY <3>1, Igual20
  <2>4. CASE Len(s.unidad[Last(BloquesDe(s, i))]) = TBLOQUE /\ PuedeTomar(s, i)
    <3>1. agregar(s, n, c) =
            LET r == Tomar(s, i)
            IN [r EXCEPT !.unidad[Last(BloquesDe(r, i))] =
                  <<c>> \o (IF @ = <<>> THEN <<>> ELSE Tail(@))]
      BY <1>2, <2>4 DEF agregar
    <3> HIDE DEF i
    <3>2. QED BY <2>1, <2>4, <3>1, AgregaBloque
  <2>5. QED BY <2>2, <2>3, <2>4
<1>3. QED BY <1>1, <1>2

\* escribir computes what its equation says: the function exists.
LEMMA Escrituras ==
  ASSUME NEW s, NEW n, NEW d, Len(d) \in Nat
  PROVE  \E e : /\ e[0] = s
                /\ \A k \in 1 .. Len(d) : e[k] = agregar(e[k - 1], n, d[k])
                /\ escribir(s, n, d) = e[Len(d)]
<1> DEFINE Ecuacion(e, m) ==
             e = [k \in 0 .. m |-> IF k = 0 THEN s ELSE agregar(e[k - 1], n, d[k])]
           Hay(m) == \E e : Ecuacion(e, m)
           S == {m \in Nat : Hay(m)}
<1>1. Hay(0)
  <2> DEFINE e == [k \in 0 .. 0 |-> s]
  <2>1. e = [k \in 0 .. 0 |-> IF k = 0 THEN s ELSE agregar(e[k - 1], n, d[k])]
    <3>1. \A k \in 0 .. 0 : k = 0
      OBVIOUS
    <3>2. QED BY <3>1
  <2> HIDE DEF e
  <2>2. QED BY <2>1
<1>2. ASSUME NEW m \in Nat, Hay(m) PROVE Hay(m + 1)
  <2>1. PICK e : Ecuacion(e, m)
    BY <1>2
  <2>2. \A k \in 0 .. m : e[k] = IF k = 0 THEN s ELSE agregar(e[k - 1], n, d[k])
    BY <2>1
  <2> DEFINE x == agregar(e[m], n, d[m + 1])
             g == [k \in 0 .. m + 1 |-> IF k = m + 1 THEN x ELSE e[k]]
  <2>3. ASSUME NEW k \in 0 .. m + 1
        PROVE  g[k] = IF k = 0 THEN s ELSE agregar(g[k - 1], n, d[k])
    <3>1. CASE k = m + 1
      <4>1. k # 0 /\ k - 1 = m /\ k - 1 \in 0 .. m + 1 /\ k - 1 # m + 1
        BY <3>1
      <4>2. g[k] = x /\ g[k - 1] = e[m]
        BY <3>1, <4>1
      <4> HIDE DEF g
      <4>3. QED BY <3>1, <4>1, <4>2
    <3>2. CASE k # m + 1
      <4>1. k \in 0 .. m /\ (k # 0 => k - 1 \in 0 .. m)
        BY <3>2
      <4>2. g[k] = e[k] /\ (k # 0 => g[k - 1] = e[k - 1])
        BY <4>1
      <4> HIDE DEF g
      <4>3. QED BY <2>2, <4>1, <4>2
    <3>3. QED BY <3>1, <3>2
  <2>4. Ecuacion(g, m + 1)
    <3> DEFINE h == [k \in 0 .. m + 1 |-> IF k = 0 THEN s ELSE agregar(g[k - 1], n, d[k])]
    <3>1. \A k \in 0 .. m + 1 : g[k] = h[k]
      BY <2>3
    <3>2. g = [k \in 0 .. m + 1 |-> g[k]]
      OBVIOUS
    <3> HIDE DEF g
    <3>3. g = h
      BY <3>1, <3>2
    <3>4. QED BY <3>3
  <2> HIDE DEF g, Ecuacion
  <2>5. QED BY <2>4
<1> HIDE DEF Hay
<1>3. Hay(Len(d))
  <2>1. S \in SUBSET Nat /\ 0 \in S /\ \A m \in S : m + 1 \in S
    BY <1>1, <1>2
  <2> HIDE DEF S
  <2>2. S = Nat
    BY <2>1, Induccion
  <2>3. QED BY <2>2 DEF S
<1> DEFINE e == CHOOSE e : Ecuacion(e, Len(d))
<1>4. Ecuacion(e, Len(d))
  BY <1>3 DEF Hay
<1>5. escribir(s, n, d) = e[Len(d)]
  BY DEF escribir
<1> HIDE DEF e
<1>6. \A k \in 0 .. Len(d) : e[k] = IF k = 0 THEN s ELSE agregar(e[k - 1], n, d[k])
  BY <1>4
<1>7. e[0] = s
  BY <1>6
<1>8. \A k \in 1 .. Len(d) : e[k] = agregar(e[k - 1], n, d[k])
  <2>1. \A k \in 1 .. Len(d) : k \in 0 .. Len(d) /\ k # 0
    OBVIOUS
  <2>2. QED BY <1>6, <2>1
<1>9. QED BY <1>5, <1>7, <1>8

\* escribir, of any text.
LEMMA EscribeBien ==
  ASSUME NEW s, Bueno20(s), NEW n, NEW d \in Seq(Bytes), n = Vacio => d = <<>>
  PROVE  Bueno20(escribir(s, n, d)) /\ Crece(s, escribir(s, n, d))
<1>1. Len(d) \in Nat /\ \A k \in 1 .. Len(d) : d[k] \in Bytes
  OBVIOUS
<1>2. PICK e : /\ e[0] = s
               /\ \A k \in 1 .. Len(d) : e[k] = agregar(e[k - 1], n, d[k])
               /\ escribir(s, n, d) = e[Len(d)]
  BY <1>1, Escrituras
<1> DEFINE Va(k) == Bueno20(e[k]) /\ Crece(s, e[k])
           S == {k \in Nat : k <= Len(d) => Va(k)}
<1>3. Va(0)
  BY <1>2, Igual20
<1>4. ASSUME NEW k \in Nat, Va(k), k + 1 <= Len(d) PROVE Va(k + 1)
  <2>1. k + 1 \in 1 .. Len(d) /\ (k + 1) - 1 = k
    BY <1>4
  <2>2. /\ e[k + 1] = agregar(e[k], n, d[k + 1]) /\ d[k + 1] \in Bytes
        /\ n # Vacio
    BY <1>1, <1>2, <2>1
  <2>3. Bueno20(e[k + 1]) /\ Crece(e[k], e[k + 1])
    BY <1>4, <2>2, AgregaBien
  <2>4. QED BY <1>4, <2>3, CreceMas
<1> HIDE DEF Va
<1>5. S \in SUBSET Nat /\ 0 \in S /\ \A k \in S : k + 1 \in S
  BY <1>3, <1>4, <1>1
<1> HIDE DEF S
<1>6. S = Nat
  BY <1>5, Induccion
<1>7. Va(Len(d))
  BY <1>1, <1>6 DEF S
<1>8. QED BY <1>2, <1>7 DEF Va

\* An empty name is always found, or the directory is full.
LEMMA CreaVacio ==
  ASSUME NEW s, Bueno20(s)
  PROVE  crearInodo(s, Vacio) = s
<1> DEFINE L == Len(s.directorio)
<1>1. L \in Nat /\ L <= TDIRECTORIO /\ DOMAIN s.directorio = 1 .. L
  BY DEF Bueno20, Tipos20, EnSuLugar
<1>2. CASE L = TDIRECTORIO
  BY <1>2 DEF crearInodo
<1>3. CASE L # TDIRECTORIO
  <2>1. L + 1 \in 1 .. TDIRECTORIO /\ L + 1 \notin DOMAIN s.directorio
    BY <1>1, <1>3, Tamanos
  <2>2. L + 1 \in Lugares20(s, Vacio)
    BY <2>1 DEF Lugares20, NombreEn
  <2> QED BY <2>2 DEF crearInodo, nombreExiste
<1> QED BY <1>2, <1>3

\* eliminar blanks and frees the blocks of one figure, and moves the last
\* slot into its place; with an empty name the last figure goes, and its blocks
\* are lost.  Every other figure is as it was.
LEMMA EliminaBien ==
  ASSUME NEW s, Bueno20(s), NEW n, ~SinUltimo(s, n)
  PROVE  LET t == eliminar(s, n)
         IN /\ Bueno20(t)
            /\ \A q \in Nombres20(s) :
                 q # n /\ ~(n = Vacio /\ q = Last(s.directorio).nombre)
                   => q \in Nombres20(t) /\ IsPrefix(Texto20(s, q), Texto20(t, q))
<1> DEFINE i == buscarArchivoPorNombre(s, n)
           t == eliminar(s, n)
           L == Len(s.directorio)
           d == Hueco(s.directorio, i)
           o == IF i \in DOMAIN s.directorio THEN i ELSE L
           U == BloquesEnUso(s, o)
           V == Liberados(s, i)
           p(j) == IF j = i THEN L ELSE j
<1>1. CASE ~nombreExiste(s, n)
  BY <1>1, Igual20 DEF eliminar, Crece
<1>2. CASE nombreExiste(s, n)
  <2>0. n = Vacio => i \in Nat /\ i \notin DOMAIN s.directorio
    <3> SUFFICES ASSUME n = Vacio PROVE i \in Nat /\ i \notin DOMAIN s.directorio
      OBVIOUS
    <3>1. i \in Lugares20(s, n) /\ i \in Nat
      <4>1. Lugares20(s, n) \in SUBSET Nat /\ Lugares20(s, n) # {}
        BY <1>2, Tamanos DEF Lugares20, nombreExiste
      <4> QED BY <4>1, Minimo20 DEF buscarArchivoPorNombre
    <3>2. NombreEn(s, i) = Vacio
      BY <3>1 DEF Lugares20
    <3> HIDE DEF i
    <3>3. i \in DOMAIN s.directorio => s.directorio[i].nombre \in Figuras
      BY Slot20
    <3> QED BY <3>1, <3>2, <3>3, Servidor20Valido DEF NombreEn
  <2>1. /\ o \in DOMAIN s.directorio
        /\ s.directorio[o].nombre = n \/ (n = Vacio /\ s.directorio[o] = Last(s.directorio))
        /\ i \in DOMAIN s.directorio \/ (n = Vacio /\ o = L)
        /\ i \in Nat
    <3>1. CASE n # Vacio
      <4>1. i \in DOMAIN s.directorio /\ s.directorio[i].nombre = n
        BY <1>2, <3>1, Hallado
      <4>2. i \in Nat
        BY <4>1 DEF Bueno20, Tipos20
      <4> QED BY <4>1, <4>2
    <3>2. CASE n = Vacio
      <4>1. L \in DOMAIN s.directorio /\ Last(s.directorio) = s.directorio[L]
        <5>1. s.directorio \in Seq(Inodos) /\ s.directorio # <<>>
          BY <1>2 DEF SinUltimo, Bueno20, Tipos20
        <5> QED BY <5>1 DEF Last
      <4> HIDE DEF i
      <4> QED BY <2>0, <3>2, <4>1
    <3> QED BY <3>1, <3>2
  <2>2. /\ s \in [directorio : Seq(Inodos), bitmap : SUBSET Bloques20,
                  unidad : [Bloques20 -> Seq(Bytes)], perdidos : SUBSET Bloques20]
        /\ L \in Nat /\ DOMAIN s.directorio = 1 .. L
    BY <2>1, Slot20 DEF Bueno20, Tipos20
  <2>3. /\ t.directorio = d /\ t.bitmap = s.bitmap \ V
        /\ t.unidad = [b \in Bloques20 |-> IF b \in V THEN <<>> ELSE s.unidad[b]]
        /\ t.perdidos = s.perdidos \cup (U \ V) /\ V \subseteq U
        /\ t = [directorio |-> t.directorio, bitmap |-> t.bitmap, unidad |-> t.unidad,
                perdidos |-> t.perdidos]
    <3>1. /\ t = [directorio |-> d, bitmap |-> s.bitmap \ V,
                  unidad |-> [b \in Bloques20 |-> IF b \in V THEN <<>> ELSE s.unidad[b]],
                  perdidos |-> IF i \in DOMAIN s.directorio THEN s.perdidos
                               ELSE s.perdidos \cup BloquesEnUso(s, Len(s.directorio))]
      BY <1>2 DEF eliminar
    <3>2. V = IF i \in DOMAIN s.directorio THEN U ELSE {}
      BY DEF Liberados
    <3> HIDE DEF t, i, d, V
    <3> QED BY <3>1, <3>2
  <2> HIDE DEF i, t, V
  <2>4. /\ \A j \in 1 .. L - 1 : p(j) \in 1 .. L /\ p(j) # o /\ d[j] = s.directorio[p(j)]
        /\ \A j, k \in 1 .. L - 1 : j # k => p(j) # p(k)
        /\ \A k \in 1 .. L : k # o => \E j \in 1 .. L - 1 : p(j) = k
        /\ L - 1 \in Nat
    <3>1. /\ o \in 1 .. L /\ L - 1 \in Nat /\ i \in Nat
          /\ o = i \/ (o = L /\ i \notin 1 .. L)
      BY <2>1, <2>2
    <3>2. \A j \in 1 .. L - 1 : p(j) \in 1 .. L /\ p(j) # o
      BY <2>2, <3>1
    <3>3. \A j \in 1 .. L - 1 : d[j] = s.directorio[p(j)]
      BY <3>1 DEF Hueco
    <3>4. \A j, k \in 1 .. L - 1 : j # k => p(j) # p(k)
      BY <2>2, <3>1
    <3>5. ASSUME NEW k \in 1 .. L, k # o PROVE \E j \in 1 .. L - 1 : p(j) = k
      <4>1. CASE k = L
        <5>1. i \in 1 .. L - 1 /\ p(i) = k
          BY <2>2, <3>1, <3>5, <4>1
        <5>2. QED BY <5>1
      <4>2. CASE k # L
        <5>1. k \in 1 .. L - 1 /\ p(k) = k
          BY <2>2, <3>1, <3>5, <4>2
        <5>2. QED BY <5>1
      <4>3. QED BY <4>1, <4>2
    <3>6. QED BY <3>1, <3>2, <3>3, <3>4, <3>5
  <2>5. d \in Seq(Inodos) /\ Len(d) = L - 1 /\ DOMAIN d = 1 .. L - 1
    <3>1. \A k \in 1 .. L : s.directorio[k] \in Inodos
      BY <2>2
    <3>2. \A j \in 1 .. L - 1 : d[j] \in Inodos
      BY <2>4, <3>1
    <3>3. d = [j \in 1 .. L - 1 |-> d[j]]
      BY DEF Hueco
    <3> HIDE DEF d, L
    <3>4. d \in [1 .. L - 1 -> Inodos]
      BY <3>2, <3>3
    <3>5. QED BY <2>4, <3>4
  <2> HIDE DEF d
  <2>6. U \subseteq Bloques20
    BY <2>1, Slot20
  <2>7. Tipos20(t)
    <3>1. t.unidad \in [Bloques20 -> Seq(Bytes)]
      <4>1. \A b \in Bloques20 : (IF b \in V THEN <<>> ELSE s.unidad[b]) \in Seq(Bytes)
        BY <2>2
      <4>2. QED BY <2>3, <4>1
    <3>2. /\ t.bitmap \in SUBSET Bloques20 /\ t.directorio \in Seq(Inodos)
          /\ t.perdidos \in SUBSET Bloques20
      BY <2>2, <2>3, <2>5, <2>6
    <3>3. QED BY <2>3, <3>1, <3>2 DEF Tipos20
  <2>8. \A j \in 1 .. L - 1 : /\ t.directorio[j] = s.directorio[p(j)]
                             /\ BloquesDe(t, j) = BloquesDe(s, p(j))
                             /\ BloquesEnUso(t, j) = BloquesEnUso(s, p(j))
                             /\ p(j) \in DOMAIN s.directorio
    BY <2>2, <2>3, <2>4 DEF BloquesDe, BloquesEnUso
  <2>9. \A k \in 1 .. L : k # o => BloquesEnUso(s, k) \cap U = {}
    BY <2>1, <2>2 DEF Bueno20, SinRepetir
  <2>10. /\ \A b \in Bloques20 \ V : t.unidad[b] = s.unidad[b]
         /\ \A b \in V : t.unidad[b] = <<>>
    BY <2>3, <2>6
  <2> HIDE DEF p
  <2>11. DOMAIN t.directorio = 1 .. L - 1 /\ Len(t.directorio) = L - 1
    BY <2>3, <2>5
  <2>12. BloquesBien(t)
    BY <2>8, <2>11 DEF Bueno20, BloquesBien
  <2>13. EnSuLugar(t)
    <3>1. Len(<<>>) = 0
      OBVIOUS
    <3>2. L <= TDIRECTORIO /\ \A b \in Bloques20 : Len(s.unidad[b]) <= TBLOQUE
      BY DEF Bueno20, EnSuLugar
    <3>3. L - 1 <= TDIRECTORIO
      BY <2>2, <3>2, Tamanos
    <3>4. \A b \in Bloques20 : Len(t.unidad[b]) <= TBLOQUE
      <4>1. SUFFICES ASSUME NEW b \in Bloques20 PROVE Len(t.unidad[b]) <= TBLOQUE
        OBVIOUS
      <4>2. CASE b \in V
        BY <2>10, <3>1, <4>2, Tamanos
      <4>3. CASE b \notin V
        BY <2>10, <3>2, <4>3
      <4>4. QED BY <4>2, <4>3
    <3>5. QED BY <2>11, <3>3, <3>4 DEF EnSuLugar
  <2>14. SinRepetir(t)
    <3>1. ASSUME NEW j \in 1 .. L - 1, NEW k \in 1 .. L - 1, j # k
          PROVE  /\ t.directorio[j].nombre # t.directorio[k].nombre
                 /\ BloquesEnUso(t, j) \cap BloquesEnUso(t, k) = {}
      <4>1. p(j) # p(k) /\ p(j) \in DOMAIN s.directorio /\ p(k) \in DOMAIN s.directorio
        BY <2>4, <2>8, <3>1
      <4>2. /\ s.directorio[p(j)].nombre # s.directorio[p(k)].nombre
            /\ BloquesEnUso(s, p(j)) \cap BloquesEnUso(s, p(k)) = {}
        BY <4>1 DEF Bueno20, SinRepetir
      <4>3. QED BY <2>8, <4>2
    <3>2. QED BY <2>11, <3>1 DEF SinRepetir
  <2>15. BitmapJusto(t)
    <3>0. /\ s.bitmap = s.perdidos \cup UNION {BloquesEnUso(s, k) : k \in 1 .. L}
          /\ \A k \in 1 .. L : BloquesEnUso(s, k) \cap s.perdidos = {}
          /\ o \in 1 .. L
      BY <2>1, <2>2 DEF Bueno20, BitmapJusto
    <3>1. ASSUME NEW b \in s.bitmap, b \notin s.perdidos, b \notin U
          PROVE  \E j \in 1 .. L - 1 : b \in BloquesEnUso(t, j)
      <4>1. PICK k \in 1 .. L : b \in BloquesEnUso(s, k)
        BY <3>0, <3>1
      <4>2. k # o
        BY <3>1, <4>1
      <4>3. QED BY <2>4, <2>8, <4>1, <4>2
    <3>2. ASSUME NEW j \in 1 .. L - 1, NEW b \in BloquesEnUso(t, j)
          PROVE  b \in s.bitmap /\ b \notin U /\ b \notin s.perdidos
      <4>1. b \in BloquesEnUso(s, p(j)) /\ p(j) \in 1 .. L /\ p(j) # o
        BY <2>4, <2>8
      <4>2. QED BY <2>2, <2>9, <3>0, <4>1, Slot20
    <3>3. U \subseteq s.bitmap /\ U \cap s.perdidos = {} /\ s.perdidos \subseteq s.bitmap
      BY <3>0
    <3> HIDE DEF U
    <3>4. t.bitmap = t.perdidos \cup UNION {BloquesEnUso(t, j) : j \in 1 .. L - 1}
      BY <2>3, <3>1, <3>2, <3>3
    <3>5. \A j \in 1 .. L - 1 : BloquesEnUso(t, j) \cap t.perdidos = {}
      BY <2>3, <3>2
    <3> QED BY <2>11, <3>4, <3>5 DEF BitmapJusto
  <2>16. LibresEnBlanco(t)
    <3>1. ASSUME NEW b \in Libres20(t) PROVE t.unidad[b] = <<>>
      <4>1. b \in Bloques20 /\ (b \in V \/ b \in Libres20(s))
        BY <2>3 DEF Libres20
      <4>2. b \in Libres20(s) => s.unidad[b] = <<>>
        BY DEF Bueno20, LibresEnBlanco
      <4>3. CASE b \in V
        BY <2>10, <4>3
      <4>4. CASE b \notin V
        BY <2>10, <4>1, <4>2, <4>4
      <4>5. QED BY <4>3, <4>4
    <3>2. QED BY <3>1 DEF LibresEnBlanco
  <2>17. ASSUME NEW j \in 1 .. L - 1, NEW b \in BloquesEnUso(s, p(j))
         PROVE  t.unidad[b] = s.unidad[b]
    <3>1. p(j) \in 1 .. L /\ p(j) # o /\ p(j) \in DOMAIN s.directorio
      BY <2>4, <2>8
    <3>2. b \in Bloques20 /\ b \notin U
      BY <2>9, <3>1, Slot20
    <3>3. QED BY <2>3, <2>10, <3>2
  <2>18. LlenosMenosElUltimo(t)
    <3>1. ASSUME NEW j \in 1 .. L - 1, NEW k \in 1 .. Len(BloquesDe(t, j)) - 1
          PROVE  Len(t.unidad[BloquesDe(t, j)[k]]) = TBLOQUE
      <4>1. BloquesDe(t, j) = BloquesDe(s, p(j)) /\ p(j) \in DOMAIN s.directorio
        BY <2>8
      <4>2. k \in DOMAIN BloquesDe(s, p(j)) /\ k \in 1 .. Len(BloquesDe(s, p(j))) - 1
        BY <4>1, Slot20
      <4>3. t.unidad[BloquesDe(s, p(j))[k]] = s.unidad[BloquesDe(s, p(j))[k]]
        BY <2>17, <4>1, <4>2, Slot20
      <4>4. QED BY <4>1, <4>2, <4>3 DEF Bueno20, LlenosMenosElUltimo
    <3>2. QED BY <2>11, <3>1 DEF LlenosMenosElUltimo
  <2>19. Bueno20(t)
    BY <2>7, <2>12, <2>13, <2>14, <2>15, <2>16, <2>18 DEF Bueno20
  <2>20. ASSUME NEW q \in Nombres20(s),
                q # n /\ ~(n = Vacio /\ q = Last(s.directorio).nombre)
         PROVE  q \in Nombres20(t) /\ IsPrefix(Texto20(s, q), Texto20(t, q))
    <3>1. PICK k \in 1 .. L : s.directorio[k].nombre = q
      BY <2>2 DEF Nombres20
    <3>2. PICK j \in 1 .. L - 1 : p(j) = k
      BY <2>1, <2>4, <2>20, <3>1
    <3>3. q \in Nombres20(t) /\ Texto20(t, q) = Texto20(s, q)
      BY <2>2, <2>8, <2>11, <2>17, <2>19, <3>1, <3>2, Ajeno
    <3>4. QED BY <3>3, Escrito20, Prefijos
  <2>21. QED BY <2>19, <2>20 DEF t
<1>3. QED BY <1>1, <1>2

\* main, the first time or again.
LEMMA ArrancaBien ==
  ASSUME NEW s \in Arranques
  PROVE  Bueno20(s)
<1>1. Bueno20(FSNuevo)
  <2> DEFINE u == [b \in Bloques20 |-> <<>>]
  <2>1. u \in [Bloques20 -> Seq(Bytes)] /\ \A b \in Bloques20 : u[b] = <<>>
    <3>1. <<>> \in Seq(Bytes)
      OBVIOUS
    <3>2. QED BY <3>1
  <2> HIDE DEF u
  <2>2. FSNuevo = [directorio |-> <<>>, bitmap |-> {}, unidad |-> u, perdidos |-> {}]
    BY DEF FSNuevo, u
  <2>3. /\ FSNuevo.directorio = <<>> /\ FSNuevo.bitmap = {} /\ FSNuevo.unidad = u
        /\ FSNuevo.perdidos = {}
        /\ Tipos20(FSNuevo)
    BY <2>1, <2>2 DEF Tipos20
  <2>4. Len(<<>>) = 0 /\ DOMAIN FSNuevo.directorio = {}
    BY <2>3
  <2>5. BloquesBien(FSNuevo) /\ SinRepetir(FSNuevo) /\ LlenosMenosElUltimo(FSNuevo)
    BY <2>4 DEF BloquesBien, SinRepetir, LlenosMenosElUltimo
  <2>6. BitmapJusto(FSNuevo)
    BY <2>3, <2>4 DEF BitmapJusto
  <2>7. LibresEnBlanco(FSNuevo)
    BY <2>1, <2>3 DEF LibresEnBlanco, Libres20
  <2>8. EnSuLugar(FSNuevo)
    BY <2>1, <2>3, <2>4, Tamanos DEF EnSuLugar
  <2>9. QED BY <2>3, <2>5, <2>6, <2>7, <2>8 DEF Bueno20
<1>2. PICK t \in SinFin(cat) : s = escribir(crearInodo(FSNuevo, Gato), Gato, t)
  BY DEF Arranques
<1>3. t \in Seq(Bytes)
  BY Servidor20Valido DEF SinFin
<1>4. QED BY <1>1, <1>2, <1>3, CreaBien, EscribeBien, Servidor20Valido

\* Who has asked nothing.
LEMMA NadaLeida == Nada \in Leidos
<1> DEFINE R == [accion : {"", "List", "Request", "Submit", "Delete"},
                 figura : Figuras \cup {Vacio}, texto : Seq(Bytes)]
<1>1. Gato \in Figuras /\ Gato # Vacio
  BY Servidor20Valido
<1>2. Nada \in R /\ Nada.figura # Vacio
  BY <1>1 DEF Nada
<1>3. Leidos = {p \in R : p.figura = Vacio => p.texto = <<>>}
  BY DEF Leidos
<1> HIDE DEF R
<1> QED BY <1>2, <1>3

\* What the server reads of a request is a request.
LEMMA Pedido20 ==
  ASSUME NEW p \in Pedidos, NEW m \in Mensajes(p), NEW k \in 0 .. Len(m.texto),
         NEW l \in Leido(m, k)
  PROVE  l \in Leidos
<1>1. p \in [accion : {"List", "Request", "Submit", "Delete"}, figura : Figuras, texto : Seq(Bytes)]
  BY Servidor20Valido
<1>2. m \in [accion : {"List", "Request", "Submit", "Delete"}, figura : Figuras, texto : Seq(Bytes)]
  <2>1. CASE p.accion = "Submit"
    <3>1. PICK t \in SinFin(p.texto) : m = [p EXCEPT !.texto = t]
      BY <2>1 DEF Mensajes
    <3>2. t \in Seq(Bytes)
      BY <1>1, Servidor20Valido DEF SinFin
    <3> QED BY <1>1, <3>1, <3>2
  <2>2. CASE p.accion # "Submit"
    BY <1>1, <2>2 DEF Mensajes
  <2> QED BY <2>1, <2>2
<1>3. Vacio \notin Figuras /\ Trozos[m.figura] \subseteq Figuras /\ Gato \in Figuras
  BY <1>2, Servidor20Valido
<1>4. CASE l = [m EXCEPT !.texto = SubSeq(@, 1, k)]
  <2>1. SubSeq(m.texto, 1, k) \in Seq(Bytes)
    BY <1>2, SubSeqProperties
  <2> QED BY <1>2, <1>3, <1>4, <2>1 DEF Leidos
<1>5. CASE l = Nada
  BY <1>5, NadaLeida
<1>6. ASSUME NEW f \in Trozos[m.figura] \cup {Vacio}, l = [m EXCEPT !.figura = f, !.texto = <<>>]
      PROVE  l \in Leidos
  <2>1. f \in Figuras \cup {Vacio} /\ <<>> \in Seq(Bytes)
    BY <1>3
  <2> QED BY <1>2, <1>6, <2>1 DEF Leidos
<1> QED BY <1>4, <1>5, <1>6 DEF Leido

\* Which steps touch the file system.
LEMMA Pasos20 ==
  ASSUME [Next]_vars
  PROVE  \/ fs' = fs
         \/ \E c \in Clientes : Crear(c) \/ Escribir(c) \/ Eliminar(c)
         \/ Arrancar
<1>1. CASE UNCHANGED vars
  BY <1>1 DEF vars, servidorVars
<1>2. CASE \E c \in Clientes, p \in Pedidos : processRequest(c, p)
  BY <1>2 DEF processRequest, servidorVars
<1>3. ASSUME NEW c \in Clientes,
             \/ connectToServer(c) \/ connectToServerFalla(c)
             \/ processRequestFalla(c) \/ ColgarSinPedir(c) \/ Leer(c)
      PROVE  fs' = fs
  BY <1>3 DEF connectToServer, connectToServerFalla, processRequestFalla, ColgarSinPedir,
              Leer, LeerRespuesta, LeerCortada, servidorVars
<1>4. ASSUME NEW c \in Clientes,
             \/ AcceptConnection(c) \/ LeerPedido(c) \/ Entrar(c) \/ Listar(c)
             \/ LeerFigura(c) \/ LeerNada(c) \/ Contestar(c) \/ EliminarNada(c)
      PROVE  fs' = fs
  BY <1>4 DEF AcceptConnection, LeerPedido, Entrar, Listar, LeerFigura, LeerNada, Contestar,
              EliminarNada, Volver, Morir, servidorVars
<1>5. QED BY <1>1, <1>2, <1>3, <1>4 DEF Next, Hilo

\* The file system after a step, and the figures it had.
LEMMA PasoFS ==
  ASSUME InvServidor20, [Next]_vars
  PROVE  /\ Bueno20(fs')
         /\ proceso = "vivo" =>
              \A n \in Nombres20(fs) :
                \/ n \in Nombres20(fs') /\ IsPrefix(Texto20(fs, n), Texto20(fs', n))
                \/ \E c \in Clientes :
                     /\ hilo[c] = "eliminar" /\ hilo'[c] # "eliminar"
                     /\ \/ pedido[c].figura = n
                        \/ pedido[c].figura = Vacio /\ n = Last(fs.directorio).nombre
<1>0. /\ Bueno20(fs) /\ hilo \in [Clientes -> Puestos] /\ Vacio \notin Figuras
      /\ \A c \in Clientes : /\ pedido[c].figura \in Figuras \cup {Vacio}
                             /\ pedido[c].texto \in Seq(Bytes)
                             /\ pedido[c].figura = Vacio => pedido[c].texto = <<>>
  BY Servidor20Valido DEF InvServidor20, PedidosLeidos, Leidos
<1>1. CASE fs' = fs
  BY <1>0, <1>1, Igual20 DEF Crece
<1>2. ASSUME NEW c \in Clientes, Crear(c) PROVE Bueno20(fs') /\ Crece(fs, fs')
  <2>1. fs' = crearInodo(fs, pedido[c].figura)
    BY <1>2 DEF Crear, Volver
  <2>2. CASE pedido[c].figura \in Figuras
    BY <1>0, <2>1, <2>2, CreaBien
  <2>3. CASE pedido[c].figura = Vacio
    <3>1. crearInodo(fs, Vacio) = fs
      BY <1>0, CreaVacio
    <3> QED BY <1>0, <2>1, <2>3, <3>1, Igual20
  <2> QED BY <1>0, <2>2, <2>3
<1>3. ASSUME NEW c \in Clientes, Escribir(c) PROVE Bueno20(fs') /\ Crece(fs, fs')
  <2>1. fs' = escribir(fs, pedido[c].figura, pedido[c].texto)
    BY <1>3 DEF Escribir, Volver
  <2>2. QED BY <1>0, <2>1, EscribeBien
<1>4. ASSUME NEW c \in Clientes, Eliminar(c)
      PROVE  /\ Bueno20(fs')
             /\ \A n \in Nombres20(fs) :
                  \/ n \in Nombres20(fs') /\ IsPrefix(Texto20(fs, n), Texto20(fs', n))
                  \/ \E e \in Clientes :
                       /\ hilo[e] = "eliminar" /\ hilo'[e] # "eliminar"
                       /\ \/ pedido[e].figura = n
                          \/ pedido[e].figura = Vacio /\ n = Last(fs.directorio).nombre
  <2>1. fs' = eliminar(fs, pedido[c].figura) /\ ~SinUltimo(fs, pedido[c].figura)
    BY <1>4 DEF Eliminar, Volver
  <2>2. hilo[c] = "eliminar" /\ hilo'[c] = "leerUnidad"
    BY <1>0, <1>4 DEF Eliminar, Volver, Ir
  <2>3. "leerUnidad" # "eliminar"
    OBVIOUS
  <2>4. /\ Bueno20(fs')
        /\ \A n \in Nombres20(fs) :
             \/ n \in Nombres20(fs') /\ IsPrefix(Texto20(fs, n), Texto20(fs', n))
             \/ n = pedido[c].figura
             \/ pedido[c].figura = Vacio /\ n = Last(fs.directorio).nombre
    BY <1>0, <2>1, EliminaBien
  <2>5. QED BY <2>2, <2>3, <2>4
<1>5. CASE Arrancar
  <2>1. fs' \in Arranques /\ proceso = "muerto"
    BY <1>5 DEF Arrancar
  <2>2. Bueno20(fs')
    BY <2>1, ArrancaBien
  <2>3. QED BY <2>1, <2>2
<1>6. QED BY <1>1, <1>2, <1>3, <1>4, <1>5, Pasos20 DEF Crece

\* The requests and the places of the threads after a step.
LEMMA PasoTipos ==
  ASSUME InvServidor20, [Next]_vars
  PROVE  PedidosLeidos' /\ hilo' \in [Clientes -> Puestos]
<1>0. hilo \in [Clientes -> Puestos] /\ pedido \in [Clientes -> Leidos]
  BY DEF InvServidor20, PedidosLeidos
<1>1. Nada \in Leidos
  BY NadaLeida
<1>2. ASSUME UNCHANGED vars PROVE pedido' = pedido /\ hilo' = hilo
  BY <1>0, <1>2 DEF vars, clienteVars
<1>3. ASSUME NEW c \in Clientes, NEW p \in Pedidos, processRequest(c, p)
      PROVE  pedido' \in [Clientes -> Leidos] /\ hilo' = hilo
  <2>1. PICK m \in Mensajes(p) : \E k \in 0 .. Len(m.texto) :
          \E l \in Leido(m, k) : pedido' = [pedido EXCEPT ![c] = l]
    BY <1>3 DEF processRequest
  <2>b. PICK k \in 0 .. Len(m.texto) :
          \E l \in Leido(m, k) : pedido' = [pedido EXCEPT ![c] = l]
    BY <2>1
  <2>2. PICK l \in Leido(m, k) : pedido' = [pedido EXCEPT ![c] = l]
    BY <2>b
  <2>a. l \in Leidos
    BY Pedido20
  <2>3. hilo' = hilo
    BY <1>3 DEF processRequest
  <2>4. QED BY <1>0, <2>a, <2>2, <2>3
<1>4. ASSUME NEW c \in Clientes,
             \/ connectToServer(c) \/ connectToServerFalla(c)
             \/ processRequestFalla(c) \/ ColgarSinPedir(c) \/ Leer(c)
      PROVE  pedido' \in [Clientes -> Leidos] /\ hilo' \in [Clientes -> Puestos]
  BY <1>0, <1>1, <1>4
     DEF connectToServer, connectToServerFalla, processRequestFalla, ColgarSinPedir,
         Leer, LeerRespuesta, LeerCortada, Ir, Puestos
<1>5. ASSUME NEW c \in Clientes, Hilo(c) PROVE pedido' = pedido
  BY <1>5 DEF Hilo, AcceptConnection, LeerPedido, Entrar, Crear, Escribir, Eliminar, Listar,
              LeerFigura, LeerNada, EliminarNada, Contestar, Volver, Morir, clienteVars
<1>6. ASSUME NEW c \in Clientes, Hilo(c) PROVE hilo' \in [Clientes -> Puestos]
  <2>1. \A e \in Clientes : Finales(e) \subseteq Puestos
    <3>1. SUFFICES ASSUME NEW e \in Clientes PROVE Finales(e) \subseteq Puestos
      OBVIOUS
    <3>2. {"no"} \subseteq Puestos /\ {"cortada"} \subseteq Puestos /\ {"cerrada"} \subseteq Puestos
      BY DEF Puestos
    <3>3. Finales(e) = {"no"} \/ Finales(e) \subseteq {"cerrada", "cortada"}
      BY DEF Finales
    <3> QED BY <3>2, <3>3
  <2>2. CASE LeerPedido(c)
    BY <1>0, <2>2 DEF LeerPedido, Ir, Puestos, Llamadas
  <2>3. CASE LeerNada(c)
    <3>1. hilo' \in [Clientes -> {"no", "cerrada", "cortada"}]
      BY <2>3 DEF LeerNada, Morir
    <3> QED BY <3>1 DEF Puestos
  <2>4. CASE Contestar(c)
    BY <1>0, <2>1, <2>4 DEF Contestar, Ir
  <2>5. CASE AcceptConnection(c) \/ Entrar(c) \/ EliminarNada(c)
    BY <1>0, <2>5 DEF AcceptConnection, Entrar, EliminarNada, Ir, Puestos
  <2>6. CASE Crear(c) \/ Escribir(c) \/ Eliminar(c) \/ Listar(c) \/ LeerFigura(c)
    BY <1>0, <2>6 DEF Crear, Escribir, Eliminar, Listar, LeerFigura, Volver, Ir,
                         Puestos, Llamadas
  <2>7. QED BY <1>6, <2>2, <2>3, <2>4, <2>5, <2>6 DEF Hilo
<1>7. ASSUME Arrancar PROVE pedido' = pedido /\ hilo' = hilo
  BY <1>0, <1>7 DEF Arrancar, clienteVars
<1>8. pedido' \in [Clientes -> Leidos] /\ hilo' \in [Clientes -> Puestos]
  BY <1>0, <1>2, <1>3, <1>4, <1>5, <1>6, <1>7 DEF Next
<1>9. QED BY <1>8 DEF PedidosLeidos
-----------------------------------------------------------------------------
\* The invariant holds at the start and every step keeps it.
LEMMA InvInicial20 == Init => InvServidor20
<1> SUFFICES ASSUME Init PROVE InvServidor20
  OBVIOUS
<1>1. Bueno20(fs)
  BY ArrancaBien DEF Init
<1>2. PedidosLeidos /\ hilo \in [Clientes -> Puestos]
  <2>1. Nada \in Leidos
    BY NadaLeida
  <2>2. QED BY <2>1 DEF Init, PedidosLeidos, Puestos
<1>3. QED BY <1>1, <1>2 DEF InvServidor20

\* Whatever becomes of the process, the file system is sound: what Crear,
\* Escribir and Eliminar of any threads leave, and what main starts with.
THEOREM Inductivo20 == Spec => []InvServidor20
<1>1. InvServidor20 /\ [Next]_vars => InvServidor20'
  BY PasoFS, PasoTipos DEF InvServidor20
<1>2. QED BY <1>1, InvInicial20, PTL DEF Spec

\* As long as no two calls overlap, no name and no block is in two slots, the
\* bitmap marks the blocks in use and those of the figures that a Delete without
\* a figure dropped, the free ones are blank, and only the last block of a file
\* has room (FileSystem.cpp of the week, under its server, whole requests or cut).
THEOREM UnidadSiempreSana == Spec => []UnidadSana
<1>1. InvServidor20 => UnidadSana
  BY DEF InvServidor20, Bueno20, UnidadSana
<1>2. QED BY <1>1, Inductivo20, PTL

\* Only a Delete of a figure makes it shorter or takes it away, or a Delete of
\* none when it is the last; whatever the other threads ask, and wherever their
\* requests are cut, the rest of the figures keep their text.
THEOREM SoloUnDelete == Spec => SoloCrece
<1>1. InvServidor20 /\ [Next]_vars =>
        [proceso = "vivo" /\ proceso' = "vivo" =>
           \A n \in Nombres20(fs) :
             \/ n \in Nombres20(fs') /\ IsPrefix(Texto20(fs, n), Texto20(fs', n))
             \/ \E c \in Clientes :
                  /\ hilo[c] = "eliminar" /\ hilo'[c] # "eliminar"
                  /\ \/ pedido[c].figura = n
                     \/ pedido[c].figura = Vacio /\ n = Last(fs.directorio).nombre]_vars
  BY PasoFS
<1>2. QED BY <1>1, Inductivo20, PTL DEF Spec, SoloCrece
-----------------------------------------------------------------------------
(***************************************************************************)
(* Rests of a division, for any modulus.                                   *)
(***************************************************************************)
\* Only the rest is left of a multiple and less than the modulus.
LEMMA RestoUnico ==
  ASSUME NEW M \in Nat \ {0}, NEW r \in 0 .. M - 1, NEW q \in Nat, NEW a \in Nat, a = M * q + r
  PROVE  a % M = r
OBVIOUS

\* A number is a multiple of the modulus and the rest.
LEMMA Division ==
  ASSUME NEW M \in Nat \ {0}, NEW a \in Nat
  PROVE  a % M \in Restos(M) /\ \E q \in Nat : a = M * q + (a % M)
<1> DEFINE Hay(k) == \E q \in Nat, r \in 0 .. M - 1 : k = M * q + r
           S == {k \in Nat : Hay(k)}
<1>1. Hay(0)
  <2>1. 0 = M * 0 + 0 /\ 0 \in 0 .. M - 1
    OBVIOUS
  <2>2. QED BY <2>1
<1>2. ASSUME NEW k \in Nat, Hay(k) PROVE Hay(k + 1)
  <2>1. PICK q \in Nat, r \in 0 .. M - 1 : k = M * q + r
    BY <1>2
  <2>2. CASE r < M - 1
    <3>1. r + 1 \in 0 .. M - 1 /\ k + 1 = M * q + (r + 1)
      BY <2>1, <2>2
    <3>2. QED BY <3>1
  <2>3. CASE r = M - 1
    <3>1. q + 1 \in Nat /\ 0 \in 0 .. M - 1
      OBVIOUS
    <3>2. M * (q + 1) = M * q + M
      OBVIOUS
    <3>3. k + 1 = M * (q + 1) + 0
      BY <2>1, <2>3, <3>2
    <3>4. QED BY <3>1, <3>3
  <2>4. QED BY <2>1, <2>2, <2>3
<1> HIDE DEF Hay
<1>3. S \in SUBSET Nat /\ 0 \in S /\ \A k \in S : k + 1 \in S
  BY <1>1, <1>2
<1> HIDE DEF S
<1>4. S = Nat
  BY <1>3, Induccion
<1>a. Hay(a)
  BY <1>4 DEF S
<1>5. PICK q \in Nat, r \in 0 .. M - 1 : a = M * q + r
  BY <1>a DEF Hay
<1>6. a % M = r
  BY <1>5, RestoUnico
<1>7. QED BY <1>5, <1>6 DEF Restos

\* Whole multiples of the modulus do not count.
LEMMA RestoSuma ==
  ASSUME NEW M \in Nat \ {0}, NEW a \in Nat, NEW q \in Nat
  PROVE  (M * q + a) % M = a % M
<1>1. PICK p \in Nat : a = M * p + (a % M)
  BY Division
<1> DEFINE r == a % M
<1>2. r \in 0 .. M - 1
  BY Division DEF Restos
<1> HIDE DEF r
<1>3. M * q + a = M * (q + p) + r
  <2>1. M * (q + p) = M * q + M * p
    OBVIOUS
  <2>2. M * q \in Nat /\ M * p \in Nat
    OBVIOUS
  <2>3. a = M * p + r
    BY <1>1 DEF r
  <2>4. QED BY <2>1, <2>2, <2>3, <1>2
<1>4. q + p \in Nat /\ M * q + a \in Nat
  OBVIOUS
<1> DEFINE z == M * q + a
           w == q + p
<1>5. z % M = r
  <2>1. z = M * w + r /\ w \in Nat /\ z \in Nat
    BY <1>3, <1>4
  <2> HIDE DEF z, w
  <2>2. QED BY <1>2, <2>1, RestoUnico
<1>6. QED BY <1>5 DEF r

\* A factor may be replaced by its rest.
LEMMA RestoProducto ==
  ASSUME NEW M \in Nat \ {0}, NEW a \in Nat, NEW b \in Nat
  PROVE  /\ ((a % M) * b) % M = (a * b) % M
         /\ (a * (b % M)) % M = (a * b) % M
<1>1. ASSUME NEW x \in Nat, NEW y \in Nat PROVE ((x % M) * y) % M = (x * y) % M
  <2> DEFINE r == x % M
  <2>1. PICK p \in Nat : x = M * p + r
    BY Division
  <2>2. r \in Nat
    BY Division DEF Restos
  <2> HIDE DEF r
  <2>3. x * y = M * (p * y) + r * y
    <3>1. (M * p + r) * y = (M * p) * y + r * y
      BY <2>2
    <3>2. (M * p) * y = M * (p * y)
      OBVIOUS
    <3>3. QED BY <2>1, <3>1, <3>2
  <2>4. p * y \in Nat /\ r * y \in Nat
    BY <2>2
  <2>5. (M * (p * y) + r * y) % M = (r * y) % M
    BY <2>4, RestoSuma
  <2>6. QED BY <2>3, <2>5 DEF r
<1>2. a % M \in Nat /\ b % M \in Nat
  BY Division DEF Restos
<1>3. (a * (b % M)) % M = ((b % M) * a) % M
  <2> DEFINE z == b % M
  <2> HIDE DEF z
  <2>1. z \in Nat
    BY <1>2 DEF z
  <2>2. a * z = z * a
    BY <2>1
  <2>3. QED BY <2>2 DEF z
<1>4. (b * a) % M = (a * b) % M
  <2>1. b * a = a * b
    OBVIOUS
  <2>2. QED BY <2>1
<1>5. QED BY <1>1, <1>3, <1>4
-----------------------------------------------------------------------------
(***************************************************************************)
(* Powers.                                                                 *)
(***************************************************************************)
\* The reference for any modulus.
Pot(M, x, n) ==
  LET p[k \in 0 .. n] == IF k = 0 THEN 1 ELSE (p[k - 1] * x) % M IN p[n]

\* The function of the reference exists, and has one product per step.
LEMMA PotFuncion ==
  ASSUME NEW M \in Nat \ {0}, NEW x \in Nat, NEW n \in Nat
  PROVE  \E p : /\ p[0] = 1
                /\ \A k \in 1 .. n : p[k] = (p[k - 1] * x) % M
                /\ Pot(M, x, n) = p[n]
<1> DEFINE Ecuacion(p, m) == p = [k \in 0 .. m |-> IF k = 0 THEN 1 ELSE (p[k - 1] * x) % M]
           Hay(m) == \E p : Ecuacion(p, m)
           S == {m \in Nat : Hay(m)}
<1>1. Hay(0)
  <2> DEFINE p == [k \in 0 .. 0 |-> 1]
  <2>1. p = [k \in 0 .. 0 |-> IF k = 0 THEN 1 ELSE (p[k - 1] * x) % M]
    <3>1. \A k \in 0 .. 0 : k = 0
      OBVIOUS
    <3>2. QED BY <3>1
  <2> HIDE DEF p
  <2>2. QED BY <2>1
<1>2. ASSUME NEW m \in Nat, Hay(m) PROVE Hay(m + 1)
  <2>1. PICK p : Ecuacion(p, m)
    BY <1>2
  <2>2. \A k \in 0 .. m : p[k] = IF k = 0 THEN 1 ELSE (p[k - 1] * x) % M
    BY <2>1
  <2> DEFINE y == (p[m] * x) % M
             g == [k \in 0 .. m + 1 |-> IF k = m + 1 THEN y ELSE p[k]]
  <2>3. ASSUME NEW k \in 0 .. m + 1
        PROVE  g[k] = IF k = 0 THEN 1 ELSE (g[k - 1] * x) % M
    <3>1. CASE k = m + 1
      <4>1. k # 0 /\ k - 1 = m /\ k - 1 \in 0 .. m + 1 /\ k - 1 # m + 1
        BY <3>1
      <4>2. g[k] = y /\ g[k - 1] = p[m]
        BY <3>1, <4>1
      <4> HIDE DEF g
      <4>3. QED BY <4>1, <4>2
    <3>2. CASE k # m + 1
      <4>1. k \in 0 .. m /\ (k # 0 => k - 1 \in 0 .. m)
        BY <3>2
      <4>2. g[k] = p[k] /\ (k # 0 => g[k - 1] = p[k - 1])
        BY <4>1
      <4> HIDE DEF g
      <4>3. QED BY <2>2, <4>1, <4>2
    <3>3. QED BY <3>1, <3>2
  <2>4. Ecuacion(g, m + 1)
    <3> DEFINE h == [k \in 0 .. m + 1 |-> IF k = 0 THEN 1 ELSE (g[k - 1] * x) % M]
    <3>1. \A k \in 0 .. m + 1 : g[k] = h[k]
      BY <2>3
    <3>2. g = [k \in 0 .. m + 1 |-> g[k]]
      OBVIOUS
    <3> HIDE DEF g
    <3>3. g = h
      BY <3>1, <3>2
    <3>4. QED BY <3>3
  <2> HIDE DEF g, Ecuacion
  <2>5. QED BY <2>4
<1> HIDE DEF Hay
<1>3. Hay(n)
  <2>1. S \in SUBSET Nat /\ 0 \in S /\ \A m \in S : m + 1 \in S
    BY <1>1, <1>2
  <2> HIDE DEF S
  <2>2. S = Nat
    BY <2>1, Induccion
  <2>3. QED BY <2>2 DEF S
<1> DEFINE p == CHOOSE p : Ecuacion(p, n)
<1>4. Ecuacion(p, n)
  BY <1>3 DEF Hay
<1>5. Pot(M, x, n) = p[n]
  BY DEF Pot
<1> HIDE DEF p
<1>6. \A k \in 0 .. n : p[k] = IF k = 0 THEN 1 ELSE (p[k - 1] * x) % M
  BY <1>4
<1>7. \A k \in 1 .. n : p[k] = (p[k - 1] * x) % M
  <2>1. \A k \in 1 .. n : k \in 0 .. n /\ k # 0
    OBVIOUS
  <2>2. QED BY <1>6, <2>1
<1>8. QED BY <1>5, <1>6, <1>7

\* The powers one after another.
LEMMA PotSigue ==
  ASSUME NEW M \in Nat \ {0, 1}, NEW x \in Nat, NEW n \in Nat
  PROVE  /\ Pot(M, x, 0) = 1
         /\ Pot(M, x, n) \in Restos(M)
         /\ Pot(M, x, n + 1) = (Pot(M, x, n) * x) % M
<1>1. PICK p : /\ p[0] = 1
               /\ \A k \in 1 .. n : p[k] = (p[k - 1] * x) % M
               /\ Pot(M, x, n) = p[n]
  BY PotFuncion
<1>2. PICK s : /\ s[0] = 1
               /\ \A k \in 1 .. n + 1 : s[k] = (s[k - 1] * x) % M
               /\ Pot(M, x, n + 1) = s[n + 1]
  <2>1. n + 1 \in Nat
    OBVIOUS
  <2>2. QED BY <2>1, PotFuncion
<1>3. Pot(M, x, 0) = 1
  <2>1. PICK z : z[0] = 1 /\ Pot(M, x, 0) = z[0]
    BY PotFuncion
  <2>2. QED BY <2>1
<1> DEFINE Va(k) == p[k] = s[k] /\ p[k] \in Restos(M)
           S == {k \in Nat : k <= n => Va(k)}
<1>4. Va(0)
  BY <1>1, <1>2 DEF Restos
<1>5. ASSUME NEW k \in Nat, Va(k), k + 1 <= n PROVE Va(k + 1)
  <2>1. k + 1 \in 1 .. n /\ k + 1 \in 1 .. n + 1 /\ (k + 1) - 1 = k
    BY <1>5
  <2>2. p[k + 1] = (p[k] * x) % M /\ s[k + 1] = (s[k] * x) % M
    BY <1>1, <1>2, <2>1
  <2>3. p[k] * x \in Nat
    BY <1>5 DEF Restos
  <2>4. (p[k] * x) % M \in Restos(M)
    BY <2>3, Division
  <2>5. QED BY <1>5, <2>2, <2>4
<1> HIDE DEF Va
<1>6. S \in SUBSET Nat /\ 0 \in S /\ \A k \in S : k + 1 \in S
  BY <1>4, <1>5
<1> HIDE DEF S
<1>7. S = Nat
  BY <1>6, Induccion
<1>8. p[n] = s[n] /\ p[n] \in Restos(M)
  BY <1>7 DEF S, Va
<1>9. s[n + 1] = (s[n] * x) % M
  <2>1. n + 1 \in 1 .. n + 1 /\ (n + 1) - 1 = n
    OBVIOUS
  <2>2. QED BY <1>2, <2>1
<1>10. QED BY <1>1, <1>2, <1>3, <1>8, <1>9

\* Exponents add.
LEMMA PotSuma ==
  ASSUME NEW M \in Nat \ {0, 1}, NEW x \in Nat, NEW m \in Nat, NEW n \in Nat
  PROVE  Pot(M, x, m + n) = (Pot(M, x, m) * Pot(M, x, n)) % M
<1> DEFINE P(k) == Pot(M, x, k)
           Va(k) == P(m + k) = (P(m) * P(k)) % M
           S == {k \in Nat : Va(k)}
<1>1. \A k \in Nat : P(k) \in Nat /\ P(k) < M /\ P(k + 1) = (P(k) * x) % M
  BY PotSigue DEF Restos
<1>2. P(0) = 1
  BY PotSigue
<1> HIDE DEF P
<1>3. Va(0)
  <2>1. P(m) \in 0 .. M - 1 /\ P(m) * 1 = P(m)
    BY <1>1
  <2>2. P(m) % M = P(m)
    BY <2>1
  <2>3. m + 0 = m
    OBVIOUS
  <2>4. QED BY <1>2, <2>1, <2>2, <2>3
<1>4. ASSUME NEW k \in Nat, Va(k) PROVE Va(k + 1)
  <2>1. m + (k + 1) = (m + k) + 1 /\ m + k \in Nat
    OBVIOUS
  <2>2. P(m + (k + 1)) = (P(m + k) * x) % M
    BY <1>1, <2>1
  <2>3. P(m) \in Nat /\ P(k) \in Nat /\ P(m) * P(k) \in Nat
    BY <1>1
  <2>4. (((P(m) * P(k)) % M) * x) % M = ((P(m) * P(k)) * x) % M
    BY <2>3, RestoProducto
  <2>5. (P(m) * P(k)) * x = P(m) * (P(k) * x) /\ P(k) * x \in Nat
    BY <2>3
  <2>6. (P(m) * ((P(k) * x) % M)) % M = (P(m) * (P(k) * x)) % M
    BY <2>3, <2>5, RestoProducto
  <2>7. P(k + 1) = (P(k) * x) % M
    BY <1>1
  <2>8. QED BY <1>4, <2>2, <2>4, <2>5, <2>6, <2>7
<1> HIDE DEF Va
<1>5. S \in SUBSET Nat /\ 0 \in S /\ \A k \in S : k + 1 \in S
  BY <1>3, <1>4
<1> HIDE DEF S
<1>6. S = Nat
  BY <1>5, Induccion
<1>7. QED BY <1>6 DEF S, Va, P

\* Exponents multiply: the order of two of them does not matter.
LEMMA PotDePot ==
  ASSUME NEW M \in Nat \ {0, 1}, NEW x \in Nat, NEW m \in Nat, NEW n \in Nat
  PROVE  Pot(M, Pot(M, x, m), n) = Pot(M, x, m * n)
<1> DEFINE y == Pot(M, x, m)
           Va(k) == Pot(M, y, k) = Pot(M, x, m * k)
           S == {k \in Nat : Va(k)}
<1>1. y \in Nat
  BY PotSigue DEF Restos
<1>2. Va(0)
  <2>1. m * 0 = 0
    OBVIOUS
  <2> HIDE DEF y
  <2>2. QED BY <1>1, <2>1, PotSigue
<1>3. ASSUME NEW k \in Nat, Va(k) PROVE Va(k + 1)
  <2>1. m * (k + 1) = m * k + m /\ m * k \in Nat
    OBVIOUS
  <2>2. Pot(M, x, m * k + m) = (Pot(M, x, m * k) * Pot(M, x, m)) % M
    BY <2>1, PotSuma
  <2>3. Pot(M, y, k + 1) = (Pot(M, y, k) * y) % M
    <3> HIDE DEF y
    <3>1. QED BY <1>1, PotSigue
  <2>4. QED BY <1>3, <2>1, <2>2, <2>3
<1> HIDE DEF Va
<1>4. S \in SUBSET Nat /\ 0 \in S /\ \A k \in S : k + 1 \in S
  BY <1>2, <1>3
<1> HIDE DEF S
<1>5. S = Nat
  BY <1>4, Induccion
<1>6. QED BY <1>5 DEF S, Va

\* A square as the base, and half the exponent.
LEMMA PotCuadrado ==
  ASSUME NEW M \in Nat \ {0, 1}, NEW x \in Restos(M), NEW h \in Nat
  PROVE  /\ Pot(M, x * x % M, h) = Pot(M, x, 2 * h)
         /\ Pot(M, x, 2 * h + 1) = (x * Pot(M, x, 2 * h)) % M
<1>1. x \in Nat /\ x < M
  BY DEF Restos
<1>2. Pot(M, x, 0) = 1 /\ Pot(M, x, 1) = x
  <2>1. Pot(M, x, 0) = 1 /\ Pot(M, x, 0 + 1) = (Pot(M, x, 0) * x) % M
    BY <1>1, PotSigue
  <2>2. 0 + 1 = 1 /\ 1 * x = x /\ x % M = x
    BY <1>1
  <2>3. QED BY <2>1, <2>2
<1>3. Pot(M, x, 2) = x * x % M
  <2>1. Pot(M, x, 1 + 1) = (Pot(M, x, 1) * x) % M
    BY <1>1, PotSigue
  <2>2. 1 + 1 = 2
    OBVIOUS
  <2>3. QED BY <1>2, <2>1, <2>2
<1>4. Pot(M, Pot(M, x, 2), h) = Pot(M, x, 2 * h)
  BY <1>1, PotDePot
<1>5. 2 * h \in Nat
  OBVIOUS
<1>6. Pot(M, x, 2 * h + 1) = (Pot(M, x, 2 * h) * x) % M /\ Pot(M, x, 2 * h) \in Nat
  BY <1>1, <1>5, PotSigue DEF Restos
<1>7. Pot(M, x, 2 * h) * x = x * Pot(M, x, 2 * h)
  BY <1>1, <1>6
<1>8. QED BY <1>3, <1>4, <1>6, <1>7

\* A halved exponent is less, and what is lost is its last bit.
LEMMA Mitad ==
  ASSUME NEW k \in Nat \ {0}
  PROVE  /\ k \div 2 \in Nat /\ k \div 2 < k /\ k % 2 \in {0, 1}
         /\ k % 2 = 0 => k = 2 * (k \div 2)
         /\ k % 2 = 1 => k = 2 * (k \div 2) + 1
OBVIOUS

\* One turn of the loop keeps the product of the result and the power.
LEMMA Vuelta ==
  ASSUME NEW M \in Nat \ {0, 1}, NEW r \in Restos(M), NEW x \in Restos(M), NEW k \in Nat \ {0}
  PROVE  LET s == IF k % 2 = 1 THEN (r * x) % M ELSE r
         IN /\ s \in Restos(M) /\ x * x % M \in Restos(M)
            /\ (s * Pot(M, x * x % M, k \div 2)) % M = (r * Pot(M, x, k)) % M
<1> DEFINE h == k \div 2
<1>1. h \in Nat /\ k % 2 \in {0, 1} /\ r \in Nat /\ x \in Nat
  BY Mitad DEF Restos
<1>2. x * x \in Nat /\ r * x \in Nat
  BY <1>1
<1>3. x * x % M \in Restos(M) /\ (r * x) % M \in Restos(M)
  BY <1>2, Division
<1> HIDE DEF h
<1>4. /\ Pot(M, x * x % M, h) = Pot(M, x, 2 * h)
      /\ Pot(M, x, 2 * h + 1) = (x * Pot(M, x, 2 * h)) % M
  BY <1>1, PotCuadrado
<1>5. CASE k % 2 = 0
  <2>1. k = 2 * h
    BY <1>5, Mitad DEF h
  <2>2. QED BY <1>3, <1>4, <1>5, <2>1 DEF h
<1>6. CASE k % 2 = 1
  <2>1. k = 2 * h + 1
    BY <1>6, Mitad DEF h
  <2> DEFINE y == Pot(M, x, 2 * h)
  <2>2. y \in Nat
    <3>1. 2 * h \in Nat
      BY <1>1
    <3>2. QED BY <1>1, <3>1, PotSigue DEF Restos
  <2> HIDE DEF y
  <2>3. (((r * x) % M) * y) % M = ((r * x) * y) % M
    BY <1>2, <2>2, RestoProducto
  <2>4. (r * ((x * y) % M)) % M = (r * (x * y)) % M
    <3>1. x * y \in Nat
      BY <1>1, <2>2
    <3>2. QED BY <1>1, <3>1, RestoProducto
  <2>5. (r * x) * y = r * (x * y)
    BY <1>1, <2>2
  <2>6. QED BY <1>3, <1>4, <1>6, <2>1, <2>3, <2>4, <2>5 DEF h, y
<1>7. QED BY <1>1, <1>5, <1>6

\* The base may be replaced by its rest.
LEMMA PotBase ==
  ASSUME NEW M \in Nat \ {0, 1}, NEW b \in Nat, NEW n \in Nat
  PROVE  Pot(M, b % M, n) = Pot(M, b, n)
<1> DEFINE y == b % M
           Va(k) == Pot(M, y, k) = Pot(M, b, k)
           S == {k \in Nat : Va(k)}
<1>1. y \in Nat
  BY Division DEF Restos
<1>2. Va(0)
  <2> HIDE DEF y
  <2>1. QED BY <1>1, PotSigue
<1>3. ASSUME NEW k \in Nat, Va(k) PROVE Va(k + 1)
  <2> DEFINE w == Pot(M, b, k)
  <2>1. w \in Nat
    BY PotSigue DEF Restos
  <2>2. Pot(M, y, k + 1) = (Pot(M, y, k) * y) % M /\ Pot(M, b, k + 1) = (w * b) % M
    <3> HIDE DEF y
    <3>1. QED BY <1>1, PotSigue
  <2> HIDE DEF w
  <2>3. (w * (b % M)) % M = (w * b) % M
    BY <2>1, RestoProducto
  <2>4. QED BY <1>3, <2>2, <2>3 DEF w
<1> HIDE DEF Va
<1>4. S \in SUBSET Nat /\ 0 \in S /\ \A k \in S : k + 1 \in S
  BY <1>2, <1>3
<1> HIDE DEF S
<1>5. S = Nat
  BY <1>4, Induccion
<1>6. QED BY <1>5 DEF S, Va

\* modPow squares and multiplies, and computes the power, for any modulus of
\* two or more (diffieHellman.cpp, modPow).
LEMMA ModPowEsPot ==
  ASSUME NEW M \in Nat \ {0, 1}, NEW b \in Nat, NEW e \in Nat
  PROVE  modPow(b, e, M) = Pot(M, b, e)
<1> DEFINE R == Restos(M)
           s(k, r, x) == IF k % 2 = 1 THEN (r * x) % M ELSE r
           Uno(f, k, r, x) == IF k = 0 THEN r ELSE f[k \div 2][s(k, r, x)][x * x % M]
           Ecuacion(f) == f = [k \in 0 .. e |-> [r \in R |-> [x \in R |-> Uno(f, k, r, x)]]]
           v(k, r, x) == (r * Pot(M, x, k)) % M
           W == [k \in 0 .. e |-> [r \in R |-> [x \in R |-> v(k, r, x)]]]
<1>1. ASSUME NEW k \in 0 .. e, k # 0, NEW r \in R, NEW x \in R
      PROVE  /\ k \div 2 \in 0 .. e /\ k \div 2 < k /\ s(k, r, x) \in R /\ x * x % M \in R
             /\ v(k \div 2, s(k, r, x), x * x % M) = v(k, r, x)
  <2>1. k \in Nat \ {0}
    BY <1>1
  <2>2. k \div 2 \in 0 .. e /\ k \div 2 < k
    BY <1>1, <2>1, Mitad
  <2>3. QED BY <2>1, <2>2, Vuelta
<1>2. ASSUME NEW r \in R, NEW x \in R PROVE v(0, r, x) = r
  <2>1. x \in Nat /\ r \in 0 .. M - 1
    BY DEF Restos
  <2>2. Pot(M, x, 0) = 1
    BY <2>1, PotSigue
  <2>3. r * 1 = r /\ r % M = r
    BY <2>1
  <2>4. QED BY <2>2, <2>3
<1> HIDE DEF s, v, R
<1>3. ASSUME NEW k \in 0 .. e, NEW r \in R, NEW x \in R PROVE v(k, r, x) = Uno(W, k, r, x)
  <2>1. CASE k = 0
    BY <1>2, <2>1
  <2>2. CASE k # 0
    <3>1. W[k \div 2][s(k, r, x)][x * x % M] = v(k \div 2, s(k, r, x), x * x % M)
      BY <1>1, <2>2
    <3>2. QED BY <1>1, <2>2, <3>1
  <2>3. QED BY <2>1, <2>2
<1>4. Ecuacion(W)
  <2> HIDE DEF Uno
  <2>1. QED BY <1>3
<1> DEFINE C == CHOOSE f : Ecuacion(f)
<1>5. Ecuacion(C)
  <2> HIDE DEF W, Ecuacion
  <2>1. QED BY <1>4
<1>6. modPow(b, e, M) = C[e][1][b % M]
  BY DEF modPow, s, R
<1> HIDE DEF W, C
<1>7. ASSUME NEW k \in 0 .. e, NEW r \in R, NEW x \in R PROVE C[k][r][x] = Uno(C, k, r, x)
  <2> DEFINE F == [q \in 0 .. e |-> [r1 \in R |-> [x1 \in R |-> Uno(C, q, r1, x1)]]]
  <2>1. C = F
    BY <1>5
  <2>2. F[k][r][x] = Uno(C, k, r, x)
    <3> HIDE DEF Uno
    <3>1. QED OBVIOUS
  <2> HIDE DEF F
  <2>3. QED BY <2>1, <2>2
<1> HIDE DEF Ecuacion
<1> DEFINE Va(k) == \A r \in R, x \in R : C[k][r][x] = v(k, r, x)
           S == {m \in Nat : \A k \in 0 .. e : k <= m => Va(k)}
<1>8. Va(0)
  <2>1. 0 \in 0 .. e
    OBVIOUS
  <2>2. QED BY <1>2, <1>7, <2>1
<1>9. ASSUME NEW k \in 0 .. e, k # 0, \A j \in 0 .. e : j < k => Va(j) PROVE Va(k)
  <2> SUFFICES ASSUME NEW r \in R, NEW x \in R PROVE C[k][r][x] = v(k, r, x)
    OBVIOUS
  <2>1. C[k][r][x] = C[k \div 2][s(k, r, x)][x * x % M]
    BY <1>7, <1>9
  <2>2. Va(k \div 2)
    BY <1>1, <1>9
  <2>3. /\ k \div 2 \in 0 .. e /\ s(k, r, x) \in R /\ x * x % M \in R
        /\ v(k \div 2, s(k, r, x), x * x % M) = v(k, r, x)
    BY <1>1, <1>9
  <2> DEFINE y == x * x % M
             z == s(k, r, x)
             h == k \div 2
  <2>4. C[h][z][y] = v(h, z, y)
    <3> HIDE DEF y, z, h
    <3>1. Va(h) /\ z \in R /\ y \in R
      BY <2>2, <2>3 DEF y, z, h
    <3>2. QED BY <3>1
  <2>5. QED BY <2>1, <2>3, <2>4
<1> HIDE DEF Va
<1>10. S \in SUBSET Nat /\ 0 \in S
  BY <1>8
<1>11. ASSUME NEW m \in S PROVE m + 1 \in S
  <2>1. m \in Nat /\ \A k \in 0 .. e : k <= m => Va(k)
    OBVIOUS
  <2>2. ASSUME NEW k \in 0 .. e, k <= m + 1 PROVE Va(k)
    <3>1. CASE k <= m
      BY <2>1, <3>1
    <3>2. CASE k = m + 1
      <4>1. k # 0 /\ \A j \in 0 .. e : j < k => j <= m
        BY <2>1, <3>2
      <4>2. QED BY <1>9, <2>1, <4>1
    <3>3. QED BY <2>1, <2>2, <3>1, <3>2
  <2>3. QED BY <2>1, <2>2
<1> HIDE DEF S
<1>12. S = Nat
  BY <1>10, <1>11, Induccion
<1>13. Va(e)
  BY <1>12 DEF S
<1>14. 1 \in R /\ b % M \in R
  BY Division DEF R, Restos
<1>15. modPow(b, e, M) = (1 * Pot(M, b % M, e)) % M
  BY <1>6, <1>13, <1>14 DEF Va, v
<1>16. Pot(M, b % M, e) = Pot(M, b, e) /\ Pot(M, b, e) \in 0 .. M - 1
  BY PotBase, PotSigue DEF Restos
<1> DEFINE y == Pot(M, b, e)
<1>17. (1 * y) % M = y
  <2>1. y \in 0 .. M - 1
    BY <1>16
  <2> HIDE DEF y
  <2>2. 1 * y = y /\ y % M = y
    BY <2>1
  <2>3. QED BY <2>2
<1>18. QED BY <1>15, <1>16, <1>17

\* The exponents of the two keys change places.
LEMMA Conmutan ==
  ASSUME NEW M \in Nat \ {0, 1}, NEW g \in Nat, NEW m \in Nat, NEW n \in Nat
  PROVE  Pot(M, Pot(M, g, m), n) = Pot(M, Pot(M, g, n), m)
<1>1. m * n = n * m
  OBVIOUS
<1>2. QED BY <1>1, PotDePot
-----------------------------------------------------------------------------
\* A public key is the power of the private one; a secret is the power of
\* the other's, and was made when both had theirs.
InvDiffie ==
  /\ primeModulus \in Nat \ {0, 1} /\ generator \in Nat
  /\ privateKey \in [Partes -> Nat] /\ publicKey \in [Partes -> Nat]
  /\ secreto \in [Partes -> Nat]
  /\ \A q \in Partes :
       /\ privateKey[q] # 0 => publicKey[q] = Pot(primeModulus, generator, privateKey[q])
       /\ privateKey[q] = 0 => publicKey[q] = 0
  /\ \A q, o \in Partes :
       q # o /\ secreto[q] # 0 =>
         /\ privateKey[q] # 0 /\ privateKey[o] # 0
         /\ secreto[q] = Pot(primeModulus, Pot(primeModulus, generator, privateKey[q]),
                             privateKey[o])

\* Nothing is made at first.
LEMMA DiffieInicial == DHInit => InvDiffie
<1> SUFFICES ASSUME DHInit PROVE InvDiffie
  OBVIOUS
<1>1. PICK d \in Parametros : primeModulus = d[1] /\ generator = d[2]
  BY DEF DHInit
<1>2. primeModulus \in Nat /\ primeModulus > 4 /\ generator \in 1 .. primeModulus - 1
  BY <1>1, DiffieValido
<1>3. QED BY <1>2 DEF DHInit, InvDiffie

\* A constructor makes the key of an object that had none, and no secret.
LEMMA DiffieConstruye ==
  ASSUME InvDiffie, NEW q \in Partes, Construir(q)
  PROVE  InvDiffie'
<1>1. PICK k \in 2 .. primeModulus - 2 :
        /\ privateKey' = [privateKey EXCEPT ![q] = k]
        /\ publicKey' = [publicKey EXCEPT ![q] = modPow(generator, k, primeModulus)]
  BY DEF Construir
<1>2. /\ privateKey[q] = 0 /\ primeModulus' = primeModulus /\ generator' = generator
      /\ secreto' = secreto
  BY DEF Construir
<1>3. primeModulus \in Nat \ {0, 1} /\ generator \in Nat /\ k \in Nat \ {0}
  BY DEF InvDiffie
<1> DEFINE y == Pot(primeModulus, generator, k)
<1>4. modPow(generator, k, primeModulus) = y /\ y \in Nat
  BY <1>3, ModPowEsPot, PotSigue DEF Restos
<1>5. publicKey' = [publicKey EXCEPT ![q] = y]
  BY <1>1, <1>4
<1>6. /\ privateKey' \in [Partes -> Nat] /\ publicKey' \in [Partes -> Nat]
      /\ privateKey'[q] = k /\ publicKey'[q] = y
      /\ \A o \in Partes : o # q => privateKey'[o] = privateKey[o] /\ publicKey'[o] = publicKey[o]
  <2> HIDE DEF y
  <2>1. QED BY <1>1, <1>3, <1>4, <1>5 DEF InvDiffie
<1>7. ASSUME NEW o \in Partes
      PROVE  /\ privateKey'[o] # 0 => publicKey'[o] = Pot(primeModulus, generator, privateKey'[o])
             /\ privateKey'[o] = 0 => publicKey'[o] = 0
  <2>1. CASE o = q
    BY <1>3, <1>6, <2>1
  <2>2. CASE o # q
    BY <1>6, <2>2 DEF InvDiffie
  <2>3. QED BY <2>1, <2>2
<1>8. ASSUME NEW a \in Partes, NEW o \in Partes, a # o, secreto[a] # 0
      PROVE  privateKey'[a] = privateKey[a] /\ privateKey'[o] = privateKey[o]
  <2>1. privateKey[a] # 0 /\ privateKey[o] # 0
    BY <1>8 DEF InvDiffie
  <2>2. QED BY <1>2, <1>6, <2>1
<1> HIDE DEF y
<1>9. QED BY <1>2, <1>6, <1>7, <1>8 DEF InvDiffie

\* An object raises the other's public key to its own private one.
LEMMA DiffieCompute ==
  ASSUME InvDiffie, NEW q \in Partes, computeSharedSecret(q)
  PROVE  InvDiffie'
<1>1. PICK otra \in Partes \ {q} :
        /\ publicKey[otra] # 0
        /\ secreto' = [secreto EXCEPT ![q] = modPow(publicKey[otra], privateKey[q], primeModulus)]
  BY DEF computeSharedSecret
<1>2. /\ privateKey[q] # 0 /\ secreto[q] = 0 /\ primeModulus' = primeModulus
      /\ generator' = generator /\ privateKey' = privateKey /\ publicKey' = publicKey
  BY DEF computeSharedSecret
<1>3. /\ primeModulus \in Nat \ {0, 1} /\ generator \in Nat
      /\ privateKey[q] \in Nat /\ privateKey[otra] \in Nat /\ publicKey[otra] \in Nat
      /\ privateKey[otra] # 0
      /\ publicKey[otra] = Pot(primeModulus, generator, privateKey[otra])
  BY <1>1 DEF InvDiffie
<1> DEFINE y == Pot(primeModulus, Pot(primeModulus, generator, privateKey[q]), privateKey[otra])
<1>4. modPow(publicKey[otra], privateKey[q], primeModulus) = y /\ y \in Nat
  <2>1. modPow(publicKey[otra], privateKey[q], primeModulus)
          = Pot(primeModulus, publicKey[otra], privateKey[q])
    BY <1>3, ModPowEsPot
  <2>2. Pot(primeModulus, Pot(primeModulus, generator, privateKey[otra]), privateKey[q]) = y
    BY <1>3, Conmutan
  <2>3. Pot(primeModulus, publicKey[otra], privateKey[q]) \in Nat
    <3>1. Pot(primeModulus, publicKey[otra], privateKey[q]) \in Restos(primeModulus)
      BY ONLY <1>3, PotSigue
    <3>2. Restos(primeModulus) \subseteq Nat
      BY <1>3 DEF Restos
    <3>3. QED BY <3>1, <3>2
  <2>4. QED BY <1>3, <2>1, <2>2, <2>3
<1>5. \A o \in Partes : o # q => o = otra
  BY DiffieValido
<1>6. /\ secreto' \in [Partes -> Nat] /\ secreto'[q] = y
      /\ \A o \in Partes : o # q => secreto'[o] = secreto[o]
  <2> HIDE DEF y
  <2>1. QED BY <1>1, <1>4 DEF InvDiffie
<1>7. ASSUME NEW a \in Partes, NEW o \in Partes, a # o, secreto'[a] # 0
      PROVE  /\ privateKey[a] # 0 /\ privateKey[o] # 0
             /\ secreto'[a] = Pot(primeModulus, Pot(primeModulus, generator, privateKey[a]),
                                  privateKey[o])
  <2>1. CASE a = q
    BY <1>2, <1>3, <1>5, <1>6, <1>7, <2>1
  <2>2. CASE a # q
    BY <1>6, <1>7, <2>2 DEF InvDiffie
  <2>3. QED BY <2>1, <2>2
<1> HIDE DEF y
<1>8. QED BY <1>2, <1>6, <1>7 DEF InvDiffie

\* Every key and every secret is the power it should be, for any modulus of
\* more than four and any two private keys.
THEOREM InductivoDiffie == DHSpec => []InvDiffie
<1>1. InvDiffie /\ [DHNext]_dhVars => InvDiffie'
  <2> SUFFICES ASSUME InvDiffie, [DHNext]_dhVars PROVE InvDiffie'
    OBVIOUS
  <2>1. CASE UNCHANGED dhVars
    BY <2>1 DEF dhVars, InvDiffie
  <2>2. QED BY <2>1, DiffieConstruye, DiffieCompute DEF DHNext
<1>2. QED BY <1>1, DiffieInicial, PTL DEF DHSpec

\* The two objects of main end with the same number, the generator raised to
\* both keys, though each only knew the other's public one.
THEOREM SecretosSiempreIguales == DHSpec => []SecretosIguales
<1>1. InvDiffie => SecretosIguales
  <2> SUFFICES ASSUME InvDiffie, NEW q \in Partes, NEW o \in Partes, q # o, secreto[q] # 0
               PROVE  /\ secreto[q] = Potencia(Potencia(generator, privateKey[q]), privateKey[o])
                      /\ secreto[o] \in {0, secreto[q]}
    BY DEF SecretosIguales
  <2>1. \A x, n : Potencia(x, n) = Pot(primeModulus, x, n)
    BY DEF Potencia, Pot
  <2>2. secreto[q] = Pot(primeModulus, Pot(primeModulus, generator, privateKey[q]), privateKey[o])
    BY DEF InvDiffie
  <2>3. CASE secreto[o] = 0
    BY <2>1, <2>2, <2>3
  <2>4. CASE secreto[o] # 0
    <3>1. secreto[o] = Pot(primeModulus, Pot(primeModulus, generator, privateKey[o]), privateKey[q])
      BY <2>4 DEF InvDiffie
    <3>2. /\ primeModulus \in Nat \ {0, 1} /\ generator \in Nat
          /\ privateKey[q] \in Nat /\ privateKey[o] \in Nat
      BY DEF InvDiffie
    <3>3. QED BY <2>1, <2>2, <3>1, <3>2, Conmutan
  <2>5. QED BY <2>3, <2>4
<1>2. QED BY <1>1, InductivoDiffie, PTL
-----------------------------------------------------------------------------
(***************************************************************************)
(* Recursive functions, and sums and powers computed by them.              *)
(***************************************************************************)
\* p starts at a and takes the steps of F, n of them.
Recorre(p, V, a, n, F) ==
  p \in [0 .. n -> V] /\ p[0] = a /\ \A k \in 1 .. n : p[k] = F[k][p[k - 1]]

\* A function may be given by its first value and its steps.
LEMMA HayRecursion ==
  ASSUME NEW V, NEW a \in V, NEW n \in Nat, NEW F \in [1 .. n -> [V -> V]]
  PROVE  \E p : Recorre(p, V, a, n, F)
<1> DEFINE Hay(m) == \E p \in [0 .. m -> V] :
                       p[0] = a /\ \A k \in 1 .. m : p[k] = F[k][p[k - 1]]
           S == {m \in Nat : m <= n => Hay(m)}
<1>1. Hay(0)
  <2> DEFINE p == [k \in 0 .. 0 |-> a]
  <2>1. p \in [0 .. 0 -> V] /\ p[0] = a /\ 1 .. 0 = {}
    OBVIOUS
  <2> HIDE DEF p
  <2>2. QED BY <2>1
<1>2. ASSUME NEW m \in Nat, m + 1 <= n, Hay(m) PROVE Hay(m + 1)
  <2>1. PICK p \in [0 .. m -> V] : p[0] = a /\ \A k \in 1 .. m : p[k] = F[k][p[k - 1]]
    BY <1>2
  <2> DEFINE y == F[m + 1][p[m]]
             g == [k \in 0 .. m + 1 |-> IF k = m + 1 THEN y ELSE p[k]]
  <2>2. y \in V
    <3>1. m + 1 \in 1 .. n /\ m \in 0 .. m
      BY <1>2
    <3>2. p[m] \in V /\ F[m + 1] \in [V -> V]
      BY <3>1
    <3>3. QED BY <3>2
  <2>3. g \in [0 .. m + 1 -> V] /\ g[m + 1] = y /\ \A k \in 0 .. m : g[k] = p[k]
    <3> HIDE DEF y
    <3>1. QED BY <2>2
  <2> HIDE DEF g
  <2>4. g[0] = a
    <3>1. 0 \in 0 .. m
      OBVIOUS
    <3>2. QED BY <2>1, <2>3, <3>1
  <2>5. ASSUME NEW k \in 1 .. m + 1 PROVE g[k] = F[k][g[k - 1]]
    <3>1. CASE k = m + 1
      <4>1. m \in 0 .. m /\ k - 1 = m
        BY <3>1
      <4>2. QED BY <2>3, <3>1, <4>1
    <3>2. CASE k # m + 1
      <4>1. k \in 1 .. m /\ k \in 0 .. m /\ k - 1 \in 0 .. m
        BY <3>2
      <4>2. QED BY <2>1, <2>3, <4>1
    <3>3. QED BY <3>1, <3>2
  <2> HIDE DEF y
  <2>6. QED BY <2>3, <2>4, <2>5
<1> HIDE DEF Hay
<1>3. S \in SUBSET Nat /\ 0 \in S /\ \A m \in S : m + 1 \in S
  BY <1>1, <1>2
<1> HIDE DEF S
<1>4. S = Nat
  BY <1>3, Induccion
<1>5. Hay(n)
  BY <1>4 DEF S
<1>6. QED BY <1>5 DEF Hay, Recorre

\* The sizes one after another.
LEMMA SumaFuncion ==
  ASSUME NEW s, NEW n \in Nat, \A k \in 1 .. n : s[k].adjSize \in Nat
  PROVE  \E p \in [0 .. n -> Nat] :
           /\ p[0] = 0 /\ Suma(s, n) = p[n]
           /\ \A k \in 1 .. n : p[k] = p[k - 1] + s[k].adjSize
<1> DEFINE Ecuacion(p) == p = [k \in 0 .. n |-> IF k = 0 THEN 0 ELSE p[k - 1] + s[k].adjSize]
           F == [k \in 1 .. n |-> [x \in Nat |-> x + s[k].adjSize]]
<1>1. F \in [1 .. n -> [Nat -> Nat]] /\ 0 \in Nat
  OBVIOUS
<1>2. \A k \in 1 .. n : \A x \in Nat : F[k][x] = x + s[k].adjSize
  OBVIOUS
<1> HIDE DEF F
<1>3. PICK p \in [0 .. n -> Nat] : p[0] = 0 /\ \A k \in 1 .. n : p[k] = F[k][p[k - 1]]
  <2>1. \E p : Recorre(p, Nat, 0, n, F)
    BY <1>1, HayRecursion
  <2>2. QED BY <2>1 DEF Recorre
<1>4. \A k \in 1 .. n : p[k] = p[k - 1] + s[k].adjSize
  <2> TAKE k \in 1 .. n
  <2>1. k - 1 \in 0 .. n
    OBVIOUS
  <2>2. p[k - 1] \in Nat
    BY <2>1
  <2>3. QED BY <1>2, <1>3, <2>2
<1>5. Ecuacion(p)
  <2> DEFINE h == [k \in 0 .. n |-> IF k = 0 THEN 0 ELSE p[k - 1] + s[k].adjSize]
  <2>1. \A k \in 0 .. n : p[k] = h[k]
    <3> TAKE k \in 0 .. n
    <3>1. k = 0 \/ k \in 1 .. n
      OBVIOUS
    <3>2. QED BY <1>3, <1>4, <3>1
  <2>2. p = [k \in 0 .. n |-> p[k]] /\ h = [k \in 0 .. n |-> h[k]]
    OBVIOUS
  <2> HIDE DEF h
  <2>3. p = h
    BY <2>1, <2>2
  <2>4. QED BY <2>3 DEF h
<1> DEFINE C == CHOOSE f : Ecuacion(f)
<1>6. Ecuacion(C)
  <2> HIDE DEF Ecuacion
  <2>1. QED BY <1>5
<1>7. Suma(s, n) = C[n]
  BY DEF Suma
<1> HIDE DEF C
<1>8. \A k \in 0 .. n : C[k] = IF k = 0 THEN 0 ELSE C[k - 1] + s[k].adjSize
  BY <1>6
<1> DEFINE S == {k \in Nat : k <= n => C[k] = p[k]}
<1>9. S \in SUBSET Nat /\ 0 \in S
  BY <1>3, <1>8
<1>10. ASSUME NEW k \in S PROVE k + 1 \in S
  <2> SUFFICES ASSUME k + 1 <= n PROVE C[k + 1] = p[k + 1]
    OBVIOUS
  <2>1. k + 1 \in 0 .. n /\ k + 1 \in 1 .. n /\ k + 1 # 0 /\ (k + 1) - 1 = k
    OBVIOUS
  <2>2. C[k] = p[k]
    OBVIOUS
  <2> HIDE DEF S
  <2>3. C[k + 1] = C[k] + s[k + 1].adjSize
    BY <1>8, <2>1
  <2>4. p[k + 1] = p[k] + s[k + 1].adjSize
    BY <1>4, <2>1
  <2>5. QED BY <2>2, <2>3, <2>4
<1> HIDE DEF S
<1>11. S = Nat
  BY <1>9, <1>10, Induccion
<1>12. C[n] = p[n]
  BY <1>11 DEF S
<1>13. QED BY <1>3, <1>4, <1>7, <1>12

\* p goes on by the steps of d.
Suman(p, d, n) == \A k \in 1 .. n : p[k] = p[k - 1] + d[k]

\* Two such functions agree as far as their steps do.
LEMMA SumaUnica ==
  ASSUME NEW p, NEW q, NEW d, NEW n \in Nat, p[0] = q[0], Suman(p, d, n), Suman(q, d, n)
  PROVE  p[n] = q[n]
<1> DEFINE S == {k \in Nat : k <= n => p[k] = q[k]}
<1>1. S \in SUBSET Nat /\ 0 \in S
  OBVIOUS
<1>2. ASSUME NEW k \in S PROVE k + 1 \in S
  <2> SUFFICES ASSUME k + 1 <= n PROVE p[k + 1] = q[k + 1]
    OBVIOUS
  <2>1. k + 1 \in 1 .. n /\ (k + 1) - 1 = k /\ p[k] = q[k]
    OBVIOUS
  <2> HIDE DEF S
  <2>2. QED BY <2>1 DEF Suman
<1> HIDE DEF S
<1>3. S = Nat
  BY <1>1, <1>2, Induccion
<1>4. QED BY <1>3 DEF S

\* A sum is that of one subnet less, and the last.
LEMMA SumaMas ==
  ASSUME NEW s, NEW n \in Nat, \A k \in 1 .. n + 1 : s[k].adjSize \in Nat
  PROVE  /\ Suma(s, 0) = 0 /\ Suma(s, n) \in Nat
         /\ Suma(s, n + 1) = Suma(s, n) + s[n + 1].adjSize
<1>1. PICK p \in [0 .. n -> Nat] :
        /\ p[0] = 0 /\ Suma(s, n) = p[n]
        /\ \A k \in 1 .. n : p[k] = p[k - 1] + s[k].adjSize
  <2>1. \A k \in 1 .. n : k \in 1 .. n + 1
    OBVIOUS
  <2>2. QED BY <2>1, SumaFuncion
<1>2. PICK q \in [0 .. n + 1 -> Nat] :
        /\ q[0] = 0 /\ Suma(s, n + 1) = q[n + 1]
        /\ \A k \in 1 .. n + 1 : q[k] = q[k - 1] + s[k].adjSize
  <2>1. n + 1 \in Nat
    OBVIOUS
  <2>2. QED BY <2>1, SumaFuncion
<1>3. Suma(s, 0) = 0
  <2>1. 0 \in Nat /\ 1 .. 0 = {}
    OBVIOUS
  <2>2. PICK z \in [0 .. 0 -> Nat] : z[0] = 0 /\ Suma(s, 0) = z[0]
    BY <2>1, SumaFuncion
  <2>3. QED BY <2>2
<1>4. p[n] = q[n]
  <2> DEFINE d == [k \in 1 .. n |-> s[k].adjSize]
  <2>1. Suman(p, d, n) /\ Suman(q, d, n)
    BY <1>1, <1>2 DEF Suman
  <2> HIDE DEF d
  <2>2. p[0] = q[0]
    BY <1>1, <1>2
  <2>3. QED BY <2>1, <2>2, SumaUnica
<1>5. q[n + 1] = q[n] + s[n + 1].adjSize
  <2>1. n + 1 \in 1 .. n + 1 /\ (n + 1) - 1 = n
    OBVIOUS
  <2>2. QED BY <1>2, <2>1
<1>6. p[n] \in Nat
  <2>1. n \in 0 .. n
    OBVIOUS
  <2>2. QED BY <2>1
<1>7. QED BY <1>1, <1>2, <1>3, <1>4, <1>5, <1>6

\* All the sums of a sequence, told at once.
LEMMA Sumas ==
  ASSUME NEW s, NEW n \in Nat, \A k \in 1 .. n : s[k].adjSize \in Nat
  PROVE  /\ Suma(s, 0) = 0 /\ \A k \in 0 .. n : Suma(s, k) \in Nat
         /\ \A k \in 1 .. n : Suma(s, k) = Suma(s, k - 1) + s[k].adjSize
<1>1. ASSUME NEW k \in 1 .. n
      PROVE  /\ Suma(s, k - 1) \in Nat
             /\ Suma(s, k) = Suma(s, k - 1) + s[k].adjSize
  <2> DEFINE j == k - 1
  <2>1. j \in Nat /\ j + 1 = k /\ \A i \in 1 .. j + 1 : i \in 1 .. n
    OBVIOUS
  <2>2. /\ Suma(s, j) \in Nat /\ Suma(s, j + 1) = Suma(s, j) + s[j + 1].adjSize
    <3> HIDE DEF j
    <3>1. QED BY <2>1, SumaMas
  <2>3. QED BY <2>1, <2>2
<1>2. Suma(s, 0) = 0
  <2>1. PICK z \in [0 .. n -> Nat] : TRUE
    <3>1. [k \in 0 .. n |-> 0] \in [0 .. n -> Nat]
      OBVIOUS
    <3>2. QED BY <3>1
  <2>2. 0 \in Nat /\ 1 .. 0 = {}
    OBVIOUS
  <2>3. PICK y \in [0 .. 0 -> Nat] : y[0] = 0 /\ Suma(s, 0) = y[0]
    BY <2>2, SumaFuncion
  <2>4. QED BY <2>3
<1>3. ASSUME NEW k \in 0 .. n PROVE Suma(s, k) \in Nat
  <2>1. k = 0 \/ k \in 1 .. n
    OBVIOUS
  <2>2. QED BY <1>1, <1>2, <2>1
<1>4. QED BY <1>1, <1>2, <1>3

\* Sums of the same sizes are the same.
LEMMA SumaIgual ==
  ASSUME NEW s, NEW t, NEW n \in Nat,
         \A k \in 1 .. n : s[k].adjSize \in Nat /\ t[k].adjSize = s[k].adjSize
  PROVE  \A k \in 0 .. n : Suma(t, k) = Suma(s, k)
<1>1. /\ Suma(s, 0) = 0 /\ \A k \in 0 .. n : Suma(s, k) \in Nat
      /\ \A k \in 1 .. n : Suma(s, k) = Suma(s, k - 1) + s[k].adjSize
  BY Sumas
<1>2. /\ Suma(t, 0) = 0 /\ \A k \in 0 .. n : Suma(t, k) \in Nat
      /\ \A k \in 1 .. n : Suma(t, k) = Suma(t, k - 1) + t[k].adjSize
  <2>1. \A k \in 1 .. n : t[k].adjSize \in Nat
    OBVIOUS
  <2>2. QED BY <2>1, Sumas
<1> DEFINE S == {k \in Nat : k <= n => Suma(t, k) = Suma(s, k)}
<1>3. S \in SUBSET Nat /\ 0 \in S
  BY <1>1, <1>2
<1>4. ASSUME NEW k \in S PROVE k + 1 \in S
  <2> SUFFICES ASSUME k + 1 <= n PROVE Suma(t, k + 1) = Suma(s, k + 1)
    OBVIOUS
  <2>1. k + 1 \in 1 .. n /\ (k + 1) - 1 = k /\ Suma(t, k) = Suma(s, k)
    OBVIOUS
  <2> HIDE DEF S
  <2>2. QED BY <1>1, <1>2, <2>1
<1> HIDE DEF S
<1>5. S = Nat
  BY <1>3, <1>4, Induccion
<1>6. QED BY <1>5 DEF S

\* A sum of more is no less.
LEMMA SumaCrece ==
  ASSUME NEW s, NEW n \in Nat, \A k \in 1 .. n : s[k].adjSize \in Nat,
         NEW i \in 0 .. n
  PROVE  \A j \in i .. n : Suma(s, i) <= Suma(s, j)
<1>1. /\ \A k \in 0 .. n : Suma(s, k) \in Nat
      /\ \A k \in 1 .. n : Suma(s, k) = Suma(s, k - 1) + s[k].adjSize
  BY Sumas
<1> DEFINE S == {k \in Nat : i + k <= n => Suma(s, i) <= Suma(s, i + k)}
<1>2. S \in SUBSET Nat /\ 0 \in S
  <2>1. i + 0 = i /\ Suma(s, i) \in Nat
    BY <1>1
  <2>2. QED BY <2>1
<1>3. ASSUME NEW k \in S PROVE k + 1 \in S
  <2> SUFFICES ASSUME i + (k + 1) <= n PROVE Suma(s, i) <= Suma(s, i + (k + 1))
    OBVIOUS
  <2> DEFINE y == i + (k + 1)
  <2>1. y \in 1 .. n /\ y - 1 = i + k /\ i + k \in 0 .. n /\ Suma(s, i) <= Suma(s, i + k)
    OBVIOUS
  <2> HIDE DEF S, y
  <2>2. Suma(s, y) = Suma(s, i + k) + s[y].adjSize
    BY <1>1, <2>1
  <2>3. Suma(s, i) \in Nat /\ Suma(s, i + k) \in Nat /\ s[y].adjSize \in Nat
    BY <1>1, <2>1
  <2>4. Suma(s, i) <= Suma(s, y)
    BY <2>1, <2>2, <2>3
  <2>5. QED BY <2>4 DEF y
<1> HIDE DEF S
<1>4. S = Nat
  BY <1>2, <1>3, Induccion
<1>5. ASSUME NEW j \in i .. n PROVE Suma(s, i) <= Suma(s, j)
  <2>1. j - i \in Nat /\ i + (j - i) = j
    OBVIOUS
  <2>2. j - i \in S
    BY <1>4, <2>1
  <2>3. QED BY <2>1, <2>2 DEF S
<1>6. QED BY <1>5
-----------------------------------------------------------------------------
(***************************************************************************)
(* Powers of two, the sizes of subnets and their masks.                    *)
(***************************************************************************)
\* The powers of two one after another.
LEMMA DosFuncion ==
  ASSUME NEW n \in Nat
  PROVE  \E p \in [0 .. n -> Nat] :
           p[0] = 1 /\ Dos(n) = p[n] /\ \A k \in 1 .. n : p[k] = 2 * p[k - 1]
<1> DEFINE Ecuacion(p) == p = [k \in 0 .. n |-> IF k = 0 THEN 1 ELSE 2 * p[k - 1]]
           F == [k \in 1 .. n |-> [x \in Nat |-> 2 * x]]
<1>1. F \in [1 .. n -> [Nat -> Nat]] /\ 1 \in Nat
  OBVIOUS
<1>2. \A k \in 1 .. n : \A x \in Nat : F[k][x] = 2 * x
  OBVIOUS
<1> HIDE DEF F
<1>3. PICK p \in [0 .. n -> Nat] : p[0] = 1 /\ \A k \in 1 .. n : p[k] = F[k][p[k - 1]]
  <2>1. \E p : Recorre(p, Nat, 1, n, F)
    BY <1>1, HayRecursion
  <2>2. QED BY <2>1 DEF Recorre
<1>4. \A k \in 1 .. n : p[k] = 2 * p[k - 1]
  <2> TAKE k \in 1 .. n
  <2>1. k - 1 \in 0 .. n
    OBVIOUS
  <2>2. p[k - 1] \in Nat
    BY <2>1
  <2>3. QED BY <1>2, <1>3, <2>2
<1>5. Ecuacion(p)
  <2> DEFINE h == [k \in 0 .. n |-> IF k = 0 THEN 1 ELSE 2 * p[k - 1]]
  <2>1. \A k \in 0 .. n : p[k] = h[k]
    <3> TAKE k \in 0 .. n
    <3>1. k = 0 \/ k \in 1 .. n
      OBVIOUS
    <3>2. QED BY <1>3, <1>4, <3>1
  <2>2. p = [k \in 0 .. n |-> p[k]] /\ h = [k \in 0 .. n |-> h[k]]
    OBVIOUS
  <2> HIDE DEF h
  <2>3. p = h
    BY <2>1, <2>2
  <2>4. QED BY <2>3 DEF h
<1> DEFINE C == CHOOSE f : Ecuacion(f)
<1>6. Ecuacion(C)
  <2> HIDE DEF Ecuacion
  <2>1. QED BY <1>5
<1>7. Dos(n) = C[n]
  BY DEF Dos
<1> HIDE DEF C
<1>8. \A k \in 0 .. n : C[k] = IF k = 0 THEN 1 ELSE 2 * C[k - 1]
  BY <1>6
<1> DEFINE S == {k \in Nat : k <= n => C[k] = p[k]}
<1>9. S \in SUBSET Nat /\ 0 \in S
  BY <1>3, <1>8
<1>10. ASSUME NEW k \in S PROVE k + 1 \in S
  <2> SUFFICES ASSUME k + 1 <= n PROVE C[k + 1] = p[k + 1]
    OBVIOUS
  <2>1. k + 1 \in 0 .. n /\ k + 1 \in 1 .. n /\ k + 1 # 0 /\ (k + 1) - 1 = k
    OBVIOUS
  <2>2. C[k] = p[k]
    OBVIOUS
  <2> HIDE DEF S
  <2>3. C[k + 1] = 2 * C[k]
    BY <1>8, <2>1
  <2>4. p[k + 1] = 2 * p[k]
    BY <1>4, <2>1
  <2>5. QED BY <2>2, <2>3, <2>4
<1> HIDE DEF S
<1>11. S = Nat
  BY <1>9, <1>10, Induccion
<1>12. C[n] = p[n]
  BY <1>11 DEF S
<1>13. QED BY <1>3, <1>4, <1>7, <1>12

\* Each is twice the one before.
LEMMA DosMas ==
  ASSUME NEW n \in Nat
  PROVE  Dos(0) = 1 /\ Dos(n) \in Nat \ {0} /\ Dos(n + 1) = 2 * Dos(n)
<1>1. PICK p \in [0 .. n -> Nat] :
        p[0] = 1 /\ Dos(n) = p[n] /\ \A k \in 1 .. n : p[k] = 2 * p[k - 1]
  BY DosFuncion
<1>2. PICK q \in [0 .. n + 1 -> Nat] :
        q[0] = 1 /\ Dos(n + 1) = q[n + 1] /\ \A k \in 1 .. n + 1 : q[k] = 2 * q[k - 1]
  <2>1. n + 1 \in Nat
    OBVIOUS
  <2>2. QED BY <2>1, DosFuncion
<1>3. Dos(0) = 1
  <2>1. PICK z \in [0 .. 0 -> Nat] : z[0] = 1 /\ Dos(0) = z[0]
    BY DosFuncion
  <2>2. QED BY <2>1
<1> DEFINE S == {k \in Nat : k <= n => p[k] = q[k] /\ p[k] # 0}
<1>4. S \in SUBSET Nat /\ 0 \in S
  BY <1>1, <1>2
<1>5. ASSUME NEW k \in S PROVE k + 1 \in S
  <2> SUFFICES ASSUME k + 1 <= n PROVE p[k + 1] = q[k + 1] /\ p[k + 1] # 0
    OBVIOUS
  <2>1. /\ k + 1 \in 1 .. n /\ k + 1 \in 1 .. n + 1 /\ (k + 1) - 1 = k /\ k \in 0 .. n
        /\ p[k] = q[k] /\ p[k] # 0
    OBVIOUS
  <2> HIDE DEF S
  <2>2. p[k + 1] = 2 * p[k] /\ q[k + 1] = 2 * q[k] /\ p[k] \in Nat
    BY <1>1, <1>2, <2>1
  <2>3. QED BY <2>1, <2>2
<1> HIDE DEF S
<1>6. S = Nat
  BY <1>4, <1>5, Induccion
<1>7. p[n] = q[n] /\ p[n] # 0 /\ p[n] \in Nat
  <2>1. n \in 0 .. n
    OBVIOUS
  <2>2. QED BY <1>6, <2>1 DEF S
<1>8. q[n + 1] = 2 * q[n]
  <2>1. n + 1 \in 1 .. n + 1 /\ (n + 1) - 1 = n
    OBVIOUS
  <2>2. QED BY <1>2, <2>1
<1>9. QED BY <1>1, <1>2, <1>3, <1>7, <1>8

\* A greater exponent gives a greater power.
LEMMA DosCrece ==
  ASSUME NEW k \in Nat, NEW m \in Nat
  PROVE  (k < m => Dos(k) < Dos(m)) /\ (k <= m => Dos(k) <= Dos(m))
<1> DEFINE S == {i \in Nat : Dos(k) < Dos(k + (i + 1))}
<1>1. Dos(k) \in Nat \ {0} /\ Dos(k + 1) = 2 * Dos(k)
  BY DosMas
<1>2. S \in SUBSET Nat /\ 0 \in S
  <2>1. k + (0 + 1) = k + 1
    OBVIOUS
  <2>2. QED BY <1>1, <2>1
<1>3. ASSUME NEW i \in S PROVE i + 1 \in S
  <2> DEFINE y == k + (i + 1)
  <2>1. y \in Nat /\ k + ((i + 1) + 1) = y + 1 /\ Dos(k) < Dos(y)
    OBVIOUS
  <2> HIDE DEF S, y
  <2>2. Dos(y) \in Nat \ {0} /\ Dos(y + 1) = 2 * Dos(y)
    BY <2>1, DosMas
  <2>3. Dos(k) < Dos(y + 1)
    BY <1>1, <2>1, <2>2
  <2>4. i + 1 \in Nat
    BY <1>2
  <2>5. QED BY <2>1, <2>3, <2>4 DEF S
<1> HIDE DEF S
<1>4. S = Nat
  BY <1>2, <1>3, Induccion
<1>5. ASSUME k < m PROVE Dos(k) < Dos(m)
  <2> DEFINE i == m - (k + 1)
  <2>1. i \in Nat /\ k + (i + 1) = m
    BY <1>5
  <2> HIDE DEF i
  <2>2. i \in S
    BY <1>4, <2>1
  <2>3. QED BY <2>1, <2>2 DEF S
<1>6. Dos(m) \in Nat
  BY DosMas
<1>7. QED BY <1>1, <1>5, <1>6

\* A smaller power divides a greater one.
LEMMA DosDivide ==
  ASSUME NEW k \in Nat, NEW m \in Nat, k <= m
  PROVE  \E q \in Nat : Dos(m) = Dos(k) * q
<1> DEFINE S == {i \in Nat : \E q \in Nat : Dos(k + i) = Dos(k) * q}
<1>1. Dos(k) \in Nat
  BY DosMas
<1>2. S \in SUBSET Nat /\ 0 \in S
  <2>1. k + 0 = k /\ Dos(k) = Dos(k) * 1
    BY <1>1
  <2>2. QED BY <2>1
<1>3. ASSUME NEW i \in S PROVE i + 1 \in S
  <2> DEFINE y == k + i
  <2>1. y \in Nat /\ k + (i + 1) = y + 1 /\ i + 1 \in Nat
    OBVIOUS
  <2>2. PICK q \in Nat : Dos(y) = Dos(k) * q
    OBVIOUS
  <2> HIDE DEF S, y
  <2>3. Dos(y + 1) = 2 * Dos(y)
    BY <2>1, DosMas
  <2>4. Dos(y + 1) = Dos(k) * (2 * q)
    <3> DEFINE d == Dos(k)
    <3>1. d \in Nat /\ Dos(y + 1) = 2 * (d * q)
      BY <1>1, <2>2, <2>3
    <3> HIDE DEF d
    <3>2. 2 * (d * q) = d * (2 * q)
      BY <3>1
    <3>3. QED BY <3>1, <3>2 DEF d
  <2>5. 2 * q \in Nat
    OBVIOUS
  <2>6. QED BY <2>1, <2>4, <2>5 DEF S
<1> HIDE DEF S
<1>4. S = Nat
  BY <1>2, <1>3, Induccion
<1>5. m - k \in S /\ k + (m - k) = m
  BY <1>4
<1>6. QED BY <1>5 DEF S

\* The greatest power not above t has the exponent Log(t).
Log(t) == CHOOSE k \in Nat : Dos(k) <= t /\ t < Dos(k + 1)

\* There is one, and no more.
LEMMA LogBien ==
  ASSUME NEW t \in Nat \ {0}
  PROVE  /\ Log(t) \in Nat /\ Dos(Log(t)) <= t /\ t < Dos(Log(t) + 1)
         /\ \A k \in Nat : Dos(k) <= t /\ t < Dos(k + 1) => k = Log(t)
<1> DEFINE Es(x, k) == Dos(k) <= x /\ x < Dos(k + 1)
           S == {i \in Nat : \E k \in Nat : Es(i + 1, k)}
<1>1. S \in SUBSET Nat /\ 0 \in S
  <2>1. 0 \in Nat /\ Dos(0) = 1 /\ Dos(0 + 1) = 2 * Dos(0)
    BY DosMas
  <2>2. Es(0 + 1, 0)
    BY <2>1
  <2>3. QED BY <2>2
<1>2. ASSUME NEW i \in S PROVE i + 1 \in S
  <2>1. PICK k \in Nat : Es(i + 1, k)
    OBVIOUS
  <2>2. i + 1 \in Nat
    OBVIOUS
  <2> DEFINE x == (i + 1) + 1
             j == k + 1
  <2>3. /\ Dos(k) \in Nat \ {0} /\ Dos(j) = 2 * Dos(k)
        /\ Dos(j) \in Nat \ {0} /\ Dos(j + 1) = 2 * Dos(j) /\ j \in Nat
    <3>1. j \in Nat
      OBVIOUS
    <3>2. QED BY <3>1, DosMas
  <2>4. CASE x < Dos(j)
    <3>1. Es(x, k)
      BY <2>1, <2>2, <2>3, <2>4
    <3>2. QED BY <2>2, <3>1
  <2>5. CASE ~(x < Dos(j))
    <3>1. Es(x, j)
      BY <2>1, <2>2, <2>3, <2>5
    <3>2. QED BY <2>2, <2>3, <3>1
  <2>6. QED BY <2>4, <2>5
<1> HIDE DEF S
<1>3. S = Nat
  BY <1>1, <1>2, Induccion
<1>4. \E k \in Nat : Es(t, k)
  <2>1. t - 1 \in S /\ (t - 1) + 1 = t
    BY <1>3
  <2>2. QED BY <2>1 DEF S
<1>5. Log(t) \in Nat /\ Es(t, Log(t))
  BY <1>4 DEF Log
<1>6. ASSUME NEW k \in Nat, NEW l \in Nat, Es(t, k), Es(t, l), k < l PROVE FALSE
  <2>1. Dos(k + 1) <= Dos(l)
    <3>1. k + 1 \in Nat /\ k + 1 <= l
      BY <1>6
    <3>2. QED BY <3>1, DosCrece
  <2>2. Dos(k + 1) \in Nat /\ Dos(l) \in Nat
    <3>1. k + 1 \in Nat
      OBVIOUS
    <3>2. QED BY <3>1, DosMas
  <2>3. QED BY <1>6, <2>1, <2>2
<1> HIDE DEF Es
<1>7. ASSUME NEW k \in Nat, Es(t, k) PROVE k = Log(t)
  BY <1>5, <1>6, <1>7
<1>8. QED BY <1>5, <1>7 DEF Es

\* Half of a number has one exponent less.
LEMMA LogMitad ==
  ASSUME NEW t \in Nat, t > 1
  PROVE  t \div 2 \in Nat \ {0} /\ t \div 2 < t /\ Log(t) = 1 + Log(t \div 2)
<1> DEFINE h == t \div 2
<1>1. h \in Nat \ {0} /\ h < t /\ 2 * h <= t /\ t <= 2 * h + 1
  OBVIOUS
<1> HIDE DEF h
<1> DEFINE L == Log(h)
<1>2. L \in Nat /\ Dos(L) <= h /\ h < Dos(L + 1)
  BY <1>1, LogBien
<1> HIDE DEF L
<1>3. /\ Dos(L) \in Nat /\ Dos(L + 1) = 2 * Dos(L) /\ Dos(L + 1) \in Nat
      /\ L + 1 \in Nat /\ Dos((L + 1) + 1) = 2 * Dos(L + 1)
  <2>1. L + 1 \in Nat
    BY <1>2
  <2>2. QED BY <1>2, <2>1, DosMas
<1>4. Dos(L + 1) <= t /\ t < Dos((L + 1) + 1)
  BY <1>1, <1>2, <1>3
<1>5. t \in Nat \ {0}
  OBVIOUS
<1>6. L + 1 = Log(t)
  BY <1>3, <1>4, <1>5, LogBien
<1>7. L + 1 = 1 + L
  BY <1>2
<1>8. QED BY <1>1, <1>6, <1>7 DEF L, h

\* The mask counts the halvings of a power of two (subnetter.cpp, calcMask).
LEMMA MascaraBien ==
  ASSUME NEW k \in Nat, Ancho \in Nat
  PROVE  calcMask(Dos(k)) = Ancho - k
<1> DEFINE n == Dos(k)
           Ecuacion(f) == f = [t \in 0 .. n |-> IF t > 1 THEN 1 + f[t \div 2] ELSE 0]
           W == [t \in 0 .. n |-> IF t = 0 THEN 0 ELSE Log(t)]
<1>1. n \in Nat \ {0}
  BY DosMas
<1>a. calcMask(n) = Ancho - (CHOOSE f : Ecuacion(f))[n]
  BY DEF calcMask
<1> HIDE DEF n
<1>2. ASSUME NEW t \in 0 .. n PROVE W[t] = IF t > 1 THEN 1 + W[t \div 2] ELSE 0
  <2>1. CASE t > 1
    <3>1. t \div 2 \in Nat \ {0} /\ t \div 2 < t /\ Log(t) = 1 + Log(t \div 2)
      BY <2>1, LogMitad
    <3>2. t \div 2 \in 0 .. n /\ t \div 2 # 0 /\ t # 0
      BY <1>1, <2>1, <3>1
    <3>3. W[t] = Log(t) /\ W[t \div 2] = Log(t \div 2)
      BY <3>2
    <3> HIDE DEF W
    <3>4. QED BY <2>1, <3>1, <3>3
  <2>2. CASE t = 1
    <3>1. 0 \in Nat /\ Dos(0) = 1 /\ Dos(0 + 1) = 2 * Dos(0) /\ 1 \in Nat \ {0}
      BY DosMas
    <3>2. Dos(0) <= 1 /\ 1 < Dos(0 + 1)
      BY <3>1
    <3>3. 0 = Log(1)
      BY <3>1, <3>2, LogBien
    <3>4. QED BY <2>2, <3>3
  <2>3. CASE t = 0
    BY <2>3
  <2>4. QED BY <2>1, <2>2, <2>3
<1>3. Ecuacion(W)
  <2> DEFINE h == [t \in 0 .. n |-> IF t > 1 THEN 1 + W[t \div 2] ELSE 0]
  <2>1. \A t \in 0 .. n : W[t] = h[t]
    BY <1>2
  <2>2. W = [t \in 0 .. n |-> W[t]] /\ h = [t \in 0 .. n |-> h[t]]
    OBVIOUS
  <2> HIDE DEF W, h
  <2>3. W = h
    BY <2>1, <2>2
  <2>4. QED BY <2>3 DEF h
<1> DEFINE C == CHOOSE f : Ecuacion(f)
<1>4. Ecuacion(C)
  <2> HIDE DEF W, Ecuacion
  <2>1. QED BY <1>3
<1> HIDE DEF C
<1>5. \A t \in 0 .. n : C[t] = IF t > 1 THEN 1 + C[t \div 2] ELSE 0
  BY <1>4
<1> DEFINE S == {j \in Nat : j <= k => C[Dos(j)] = j}
<1>6. S \in SUBSET Nat /\ 0 \in S
  <2>1. Dos(0) = 1 /\ 1 \in 0 .. n
    BY <1>1, DosMas
  <2>2. QED BY <1>5, <2>1
<1>7. ASSUME NEW j \in S PROVE j + 1 \in S
  <2> SUFFICES ASSUME j + 1 <= k PROVE C[Dos(j + 1)] = j + 1
    OBVIOUS
  <2>1. C[Dos(j)] = j /\ j \in Nat /\ j + 1 \in Nat
    OBVIOUS
  <2> HIDE DEF S
  <2> DEFINE t == Dos(j + 1)
  <2>2. t = 2 * Dos(j) /\ Dos(j) \in Nat \ {0}
    BY <2>1, DosMas
  <2>3. t <= n
    BY <2>1, DosCrece DEF n
  <2> HIDE DEF t
  <2>4. t \in 0 .. n /\ t > 1 /\ t \div 2 = Dos(j)
    BY <1>1, <2>2, <2>3
  <2>5. C[t] = 1 + C[Dos(j)]
    BY <1>5, <2>4
  <2>6. C[t] = j + 1
    BY <2>1, <2>5
  <2>7. QED BY <2>6 DEF t
<1> HIDE DEF S
<1>8. S = Nat
  BY <1>6, <1>7, Induccion
<1>9. C[Dos(k)] = k
  BY <1>8 DEF S
<1>10. QED BY <1>a, <1>9 DEF C, n

\* Doubling stops at the least power of two with room for the hosts, its own
\* address and the broadcast (subnet.cpp, Subnet).
LEMMA AjustadoBien ==
  ASSUME NEW h \in Nat, Ancho \in Nat, h + 2 <= Espacio
  PROVE  \E K \in 1 .. Ancho :
           Ajustado(h) = Dos(K) /\ h + 2 <= Dos(K) /\ Dos(K) < 2 * (h + 2)
<1> DEFINE L == Log(h + 1)
           K == L + 1
           P == {Dos(j) : j \in 0 .. Ancho}
           Ecuacion(f) == f = [t \in P |-> IF t < h + 2 THEN f[t * 2] ELSE t]
           W == [t \in P |-> IF t < h + 2 THEN Dos(K) ELSE t]
<1>1. L \in Nat /\ Dos(L) <= h + 1 /\ h + 1 < Dos(K)
  <2>1. h + 1 \in Nat \ {0}
    OBVIOUS
  <2>2. QED BY <2>1, LogBien
<1>a. Ajustado(h) = (CHOOSE f : Ecuacion(f))[1]
  BY DEF Ajustado
<1> HIDE DEF L
<1>2. /\ K \in Nat /\ K >= 1 /\ K - 1 = L /\ Dos(L) \in Nat
      /\ Dos(K) = 2 * Dos(L) /\ Dos(K) \in Nat
  <2>1. K \in Nat /\ K >= 1 /\ K - 1 = L
    BY <1>1
  <2>2. QED BY <1>1, <2>1, DosMas
<1>3. h + 2 <= Dos(K) /\ Dos(K) < 2 * (h + 2)
  BY <1>1, <1>2
<1>4. K <= Ancho
  <2> SUFFICES ASSUME Ancho <= L PROVE FALSE
    BY <1>1, <1>2
  <2>1. Dos(Ancho) <= Dos(L) /\ Dos(Ancho) \in Nat
    BY <1>1, DosCrece, DosMas
  <2>2. QED BY <1>1, <1>2, <2>1 DEF Espacio
<1> HIDE DEF K
<1>5. ASSUME NEW j \in Nat
      PROVE  /\ Dos(j) \in Nat /\ Dos(j) * 2 = Dos(j + 1)
             /\ Dos(j) < h + 2 <=> j < K
  <2>1. Dos(j) \in Nat /\ Dos(j + 1) = 2 * Dos(j)
    BY DosMas
  <2>2. ASSUME j < K PROVE Dos(j) < h + 2
    <3>1. j <= L
      BY <1>1, <1>2, <2>2
    <3>2. Dos(j) <= Dos(L)
      BY <1>1, <3>1, DosCrece
    <3>3. QED BY <1>1, <1>2, <2>1, <3>2
  <2>3. ASSUME ~(j < K) PROVE ~(Dos(j) < h + 2)
    <3>1. K <= j
      BY <1>2, <2>3
    <3>2. Dos(K) <= Dos(j)
      BY <1>2, <3>1, DosCrece
    <3>3. QED BY <1>2, <1>3, <2>1, <3>2
  <2>4. Dos(j) * 2 = 2 * Dos(j)
    BY <2>1
  <2>5. QED BY <2>1, <2>2, <2>3, <2>4
<1>6. ASSUME NEW j \in 0 .. Ancho, j < K PROVE j + 1 \in 0 .. Ancho
  BY <1>2, <1>4, <1>6
<1>7. ASSUME NEW t \in P PROVE W[t] = IF t < h + 2 THEN W[t * 2] ELSE t
  <2>1. PICK j \in 0 .. Ancho : t = Dos(j)
    OBVIOUS
  <2>2. j \in Nat
    OBVIOUS
  <2>3. CASE j < K
    <3>1. /\ t < h + 2 /\ t * 2 = Dos(j + 1) /\ Dos(j + 1) \in P /\ j + 1 \in Nat
      BY <1>5, <1>6, <2>1, <2>2, <2>3
    <3>2. CASE j + 1 < K
      <4>1. Dos(j + 1) < h + 2
        BY <1>5, <3>1, <3>2
      <4>2. W[t] = Dos(K) /\ W[Dos(j + 1)] = Dos(K)
        BY <3>1, <4>1
      <4> HIDE DEF W
      <4>3. QED BY <3>1, <4>2
    <3>3. CASE j + 1 = K
      <4>1. ~(Dos(j + 1) < h + 2)
        <5>1. ~(j + 1 < K)
          BY <1>2, <3>3
        <5>2. QED BY <1>5, <3>1, <5>1
      <4>2. W[t] = Dos(K) /\ W[Dos(j + 1)] = Dos(j + 1)
        BY <3>1, <4>1
      <4> HIDE DEF W
      <4>3. QED BY <3>1, <3>3, <4>2
    <3>4. QED BY <1>2, <2>2, <2>3, <3>2, <3>3
  <2>4. CASE ~(j < K)
    <3>1. ~(t < h + 2)
      BY <1>5, <2>1, <2>2, <2>4
    <3>2. QED BY <3>1
  <2>5. QED BY <2>3, <2>4
<1>8. Ecuacion(W)
  <2> DEFINE g == [t \in P |-> IF t < h + 2 THEN W[t * 2] ELSE t]
  <2>1. \A t \in P : W[t] = g[t]
    BY <1>7
  <2> HIDE DEF P
  <2>2. W = [t \in P |-> W[t]] /\ g = [t \in P |-> g[t]]
    OBVIOUS
  <2> HIDE DEF W, g
  <2>3. W = g
    BY <2>1, <2>2
  <2>4. QED BY <2>3 DEF g
<1> DEFINE C == CHOOSE f : Ecuacion(f)
<1>9. Ecuacion(C)
  <2> HIDE DEF W, Ecuacion
  <2>1. QED BY <1>8
<1> HIDE DEF C
<1>10. \A j \in 0 .. Ancho : C[Dos(j)] = IF j < K THEN C[Dos(j + 1)] ELSE Dos(j)
  <2> TAKE j \in 0 .. Ancho
  <2> DEFINE t == Dos(j)
  <2>1. t \in P /\ j \in Nat
    OBVIOUS
  <2> HIDE DEF P
  <2>2. C[t] = IF t < h + 2 THEN C[t * 2] ELSE t
    BY <1>9, <2>1
  <2>3. t * 2 = Dos(j + 1) /\ (t < h + 2 <=> j < K)
    BY <1>5, <2>1
  <2>4. QED BY <2>2, <2>3
<1> DEFINE S == {i \in Nat : i <= K => C[Dos(K - i)] = Dos(K)}
<1>11. S \in SUBSET Nat /\ 0 \in S
  <2>1. K \in 0 .. Ancho /\ K - 0 = K /\ ~(K < K)
    BY <1>2, <1>4
  <2>2. C[Dos(K)] = Dos(K)
    BY <1>10, <2>1
  <2>3. QED BY <2>1, <2>2
<1>12. ASSUME NEW i \in S PROVE i + 1 \in S
  <2> SUFFICES ASSUME i + 1 <= K PROVE C[Dos(K - (i + 1))] = Dos(K)
    OBVIOUS
  <2> DEFINE j == K - (i + 1)
  <2>1. j \in 0 .. Ancho /\ j < K /\ j + 1 = K - i /\ i <= K
    BY <1>2, <1>4
  <2>2. C[Dos(K - i)] = Dos(K)
    BY <2>1
  <2> HIDE DEF S, j
  <2>3. C[Dos(j)] = C[Dos(j + 1)]
    BY <1>10, <2>1
  <2>4. QED BY <2>1, <2>2, <2>3 DEF j
<1> HIDE DEF S
<1>13. S = Nat
  BY <1>11, <1>12, Induccion
<1>14. C[1] = Dos(K)
  <2>1. K \in S /\ K - K = 0 /\ Dos(0) = 1
    BY <1>2, <1>13, DosMas
  <2>2. QED BY <1>2, <2>1 DEF S
<1>15. Ajustado(h) = Dos(K)
  BY <1>a, <1>14 DEF C
<1>16. K \in 1 .. Ancho
  BY <1>2, <1>4
<1>17. QED BY <1>3, <1>15, <1>16
-----------------------------------------------------------------------------
(***************************************************************************)
(* Addresses that wrap, and multiples.                                     *)
(***************************************************************************)
\* What % is near the modulus.
LEMMA RestoCerca ==
  ASSUME NEW M \in Nat \ {0}, NEW x \in Int, -M <= x, x < 2 * M
  PROVE  x % M = IF x < 0 THEN x + M ELSE IF x < M THEN x ELSE x - M
OBVIOUS

\* The addresses of the program.
LEMMA EspacioBien == Espacio \in Nat \ {0} /\ Ancho \in Nat \ {0} /\ MaxSubredes \in Nat \ {0}
BY SubredesValido, DosMas DEF Espacio

\* Going on from an address and back from it.
LEMMA MasBien ==
  ASSUME NEW ip \in Direcciones, NEW n \in 0 .. Espacio - 1
  PROVE  /\ Mas(ip, n) \in Direcciones /\ Menos(ip, n) \in Direcciones
         /\ Mas(ip, n) = IF ip + n < Espacio THEN ip + n ELSE ip + n - Espacio
         /\ Menos(ip, n) = IF n <= ip THEN ip - n ELSE ip - n + Espacio
<1> DEFINE M == Espacio
<1>1. M \in Nat \ {0} /\ ip \in 0 .. M - 1 /\ n \in 0 .. M - 1
  BY EspacioBien DEF Direcciones
<1>2. Mas(ip, n) = (ip + n) % M /\ Menos(ip, n) = (ip - n) % M
  BY DEF Mas, Menos
<1>3. Direcciones = 0 .. M - 1
  BY DEF Direcciones
<1> HIDE DEF M
<1>4. /\ ip + n \in Int /\ -M <= ip + n /\ ip + n < 2 * M /\ ~(ip + n < 0)
      /\ ip - n \in Int /\ -M <= ip - n /\ ip - n < 2 * M /\ ip - n < M
  BY <1>1
<1>5. Mas(ip, n) = IF ip + n < M THEN ip + n ELSE ip + n - M
  <2> DEFINE z == ip + n
  <2>1. z = ip + n /\ Mas(ip, n) = z % M
    BY <1>2
  <2> HIDE DEF z
  <2>2. z \in Int /\ -M <= z /\ z < 2 * M
    BY <1>4, <2>1
  <2>3. z % M = IF z < 0 THEN z + M ELSE IF z < M THEN z ELSE z - M
    BY <1>1, <2>2, RestoCerca
  <2>4. QED BY <1>1, <1>4, <2>1, <2>3
<1>6. Menos(ip, n) = IF n <= ip THEN ip - n ELSE ip - n + M
  <2> DEFINE z == ip - n
  <2>1. z = ip - n /\ Menos(ip, n) = z % M
    BY <1>2
  <2> HIDE DEF z
  <2>2. z \in Int /\ -M <= z /\ z < 2 * M
    BY <1>4, <2>1
  <2>3. z % M = IF z < 0 THEN z + M ELSE IF z < M THEN z ELSE z - M
    BY <1>1, <2>2, RestoCerca
  <2>4. QED BY <1>1, <1>4, <2>1, <2>3
<1>7. Mas(ip, n) \in 0 .. M - 1 /\ Menos(ip, n) \in 0 .. M - 1
  BY <1>1, <1>5, <1>6
<1>8. QED BY <1>3, <1>5, <1>6, <1>7 DEF M

\* Two steps are one, and back of the first is less of it.
LEMMA MasMas ==
  ASSUME NEW ip \in Direcciones, NEW x \in Nat, NEW y \in Nat, x + y < Espacio
  PROVE  /\ Mas(Mas(ip, x), y) = Mas(ip, x + y)
         /\ Menos(Mas(ip, x + y), y) = Mas(ip, x)
<1>1. Espacio \in Nat \ {0} /\ ip \in 0 .. Espacio - 1
  BY EspacioBien DEF Direcciones
<1>2. x \in 0 .. Espacio - 1 /\ y \in 0 .. Espacio - 1 /\ x + y \in 0 .. Espacio - 1
  BY <1>1
<1>3. /\ Mas(ip, x) \in Direcciones
      /\ Mas(ip, x) = IF ip + x < Espacio THEN ip + x ELSE ip + x - Espacio
  BY <1>2, MasBien
<1>4. /\ Mas(ip, x + y) \in Direcciones
      /\ Mas(ip, x + y) = IF ip + (x + y) < Espacio THEN ip + (x + y) ELSE ip + (x + y) - Espacio
  BY <1>2, MasBien
<1> DEFINE a == Mas(ip, x)
           b == Mas(ip, x + y)
<1>5. a \in Direcciones /\ b \in Direcciones
  BY <1>3, <1>4
<1> HIDE DEF a, b
<1>6. Mas(a, y) = IF a + y < Espacio THEN a + y ELSE a + y - Espacio
  BY <1>2, <1>5, MasBien
<1>7. Menos(b, y) = IF y <= b THEN b - y ELSE b - y + Espacio
  BY <1>2, <1>5, MasBien
<1>8. a = (IF ip + x < Espacio THEN ip + x ELSE ip + x - Espacio)
      /\ b = IF ip + (x + y) < Espacio THEN ip + (x + y) ELSE ip + (x + y) - Espacio
  BY <1>3, <1>4 DEF a, b
<1>9. Mas(a, y) = b
  BY <1>1, <1>2, <1>6, <1>8
<1>10. Menos(b, y) = a
  BY <1>1, <1>2, <1>7, <1>8
<1>11. QED BY <1>9, <1>10 DEF a, b

\* Different steps go to different addresses.
LEMMA MasDistinta ==
  ASSUME NEW ip \in Direcciones, NEW x \in 0 .. Espacio - 1, NEW y \in 0 .. Espacio - 1,
         Mas(ip, x) = Mas(ip, y)
  PROVE  x = y
<1>1. Espacio \in Nat \ {0} /\ ip \in 0 .. Espacio - 1
  BY EspacioBien DEF Direcciones
<1>2. Mas(ip, x) = IF ip + x < Espacio THEN ip + x ELSE ip + x - Espacio
  BY MasBien
<1>3. Mas(ip, y) = IF ip + y < Espacio THEN ip + y ELSE ip + y - Espacio
  BY MasBien
<1>4. CASE ip + x < Espacio
  <2>1. Mas(ip, x) = ip + x
    BY <1>2, <1>4
  <2>2. QED BY <1>1, <1>3, <2>1
<1>5. CASE ~(ip + x < Espacio)
  <2>1. Mas(ip, x) = ip + x - Espacio
    BY <1>2, <1>5
  <2>2. QED BY <1>1, <1>3, <1>5, <2>1
<1>6. QED BY <1>4, <1>5

\* x is a multiple of d.
Multiplo(d, x) == \E q \in Nat : x = d * q

\* Multiples leave no rest, and only they.
LEMMA MultiploResto ==
  ASSUME NEW d \in Nat \ {0}, NEW x \in Nat
  PROVE  Multiplo(d, x) <=> x % d = 0
<1>1. ASSUME Multiplo(d, x) PROVE x % d = 0
  <2>1. PICK q \in Nat : x = d * q
    BY <1>1 DEF Multiplo
  <2>2. x = d * q + 0 /\ 0 \in 0 .. d - 1
    BY <2>1
  <2>3. QED BY <2>2, RestoUnico
<1>2. ASSUME x % d = 0 PROVE Multiplo(d, x)
  <2>1. PICK q \in Nat : x = d * q + (x % d)
    BY Division
  <2>2. x = d * q
    BY <1>2, <2>1
  <2>3. QED BY <2>2 DEF Multiplo
<1>3. QED BY <1>1, <1>2

\* Multiples add, and the less goes from the greater.
LEMMA MultiploMas ==
  ASSUME NEW d \in Nat \ {0}, NEW x \in Nat, NEW y \in Nat, Multiplo(d, x), Multiplo(d, y)
  PROVE  Multiplo(d, x + y) /\ (y <= x => Multiplo(d, x - y))
<1>1. PICK q \in Nat : x = d * q
  BY DEF Multiplo
<1>2. PICK r \in Nat : y = d * r
  BY DEF Multiplo
<1>3. x + y = d * (q + r) /\ q + r \in Nat
  BY <1>1, <1>2
<1>4. ASSUME y <= x PROVE Multiplo(d, x - y)
  <2>1. CASE r <= q
    <3>1. q - r \in Nat /\ d * (q - r) = d * q - d * r
      BY <2>1
    <3>2. QED BY <1>1, <1>2, <3>1 DEF Multiplo
  <2>2. CASE q < r
    <3>1. PICK e \in Nat \ {0} : r = q + e
      <4>1. r - q \in Nat \ {0} /\ r = q + (r - q)
        BY <2>2
      <4>2. QED BY <4>1
    <3>2. d * r = d * q + d * e
      BY <3>1
    <3>3. d * e > 0 /\ d * e \in Nat /\ d * q \in Nat
      BY <3>1
    <3>4. QED BY <1>1, <1>2, <1>4, <3>2, <3>3
  <2>3. QED BY <2>1, <2>2
<1>5. QED BY <1>3, <1>4 DEF Multiplo

\* So does a sum of multiples.
LEMMA SumaMultiplo ==
  ASSUME NEW s, NEW n \in Nat, NEW d \in Nat \ {0},
         \A k \in 1 .. n : s[k].adjSize \in Nat /\ Multiplo(d, s[k].adjSize)
  PROVE  \A k \in 0 .. n : Multiplo(d, Suma(s, k))
<1>1. /\ Suma(s, 0) = 0 /\ \A k \in 0 .. n : Suma(s, k) \in Nat
      /\ \A k \in 1 .. n : Suma(s, k) = Suma(s, k - 1) + s[k].adjSize
  BY Sumas
<1> DEFINE S == {k \in Nat : k <= n => Multiplo(d, Suma(s, k))}
<1>2. S \in SUBSET Nat /\ 0 \in S
  <2>1. 0 = d * 0 /\ 0 \in Nat
    OBVIOUS
  <2>2. QED BY <1>1, <2>1 DEF Multiplo
<1>3. ASSUME NEW k \in S PROVE k + 1 \in S
  <2> SUFFICES ASSUME k + 1 <= n PROVE Multiplo(d, Suma(s, k + 1))
    OBVIOUS
  <2> DEFINE y == k + 1
  <2>1. y \in 1 .. n /\ y - 1 = k /\ k \in 0 .. n /\ Multiplo(d, Suma(s, k))
    OBVIOUS
  <2> HIDE DEF S, y
  <2>2. Suma(s, y) = Suma(s, k) + s[y].adjSize
    BY <1>1, <2>1
  <2>3. Suma(s, k) \in Nat /\ s[y].adjSize \in Nat /\ Multiplo(d, s[y].adjSize)
    BY <1>1, <2>1
  <2>4. Multiplo(d, Suma(s, y))
    BY <2>1, <2>2, <2>3, MultiploMas
  <2>5. QED BY <2>4 DEF y
<1> HIDE DEF S
<1>4. S = Nat
  BY <1>2, <1>3, Induccion
<1>5. QED BY <1>4 DEF S

\* Every place of a sum is in one of its terms.
LEMMA Cubre ==
  ASSUME NEW s, NEW n \in Nat, \A k \in 1 .. n : s[k].adjSize \in Nat,
         NEW x \in Nat, x < Suma(s, n)
  PROVE  \E i \in 1 .. n : Suma(s, i - 1) <= x /\ x < Suma(s, i)
<1>1. /\ Suma(s, 0) = 0 /\ \A k \in 0 .. n : Suma(s, k) \in Nat
  BY Sumas
<1> DEFINE H == {k \in 0 .. n : x < Suma(s, k)}
<1>2. H \in SUBSET Nat /\ n \in H
  OBVIOUS
<1>3. PICK i \in H : \A k \in H : i <= k
  <2> HIDE DEF H
  <2>1. QED BY <1>2, Minimo20
<1>4. i # 0
  BY <1>1
<1>5. i \in 1 .. n /\ i - 1 \in 0 .. n /\ i - 1 < i
  BY <1>4
<1>6. ~(x < Suma(s, i - 1))
  BY <1>3, <1>5
<1>7. Suma(s, i - 1) <= x
  BY <1>1, <1>5, <1>6
<1>8. QED BY <1>5, <1>7

\* Subnets that all fit leave the last address.
LEMMA SumaCabe ==
  ASSUME NEW s, NEW n \in Nat, n <= MaxSubredes,
         \A k \in 1 .. n : s[k].adjSize \in Nat /\ MaxSubredes * s[k].adjSize < Espacio
  PROVE  Suma(s, n) < Espacio
<1> DEFINE X == MaxSubredes
           M == Espacio
<1>1. X \in Nat \ {0} /\ M \in Nat \ {0}
  BY EspacioBien
<1>2. n <= X /\ \A k \in 1 .. n : s[k].adjSize \in Nat /\ X * s[k].adjSize < M
  OBVIOUS
<1>3. /\ Suma(s, 0) = 0 /\ \A k \in 0 .. n : Suma(s, k) \in Nat
      /\ \A k \in 1 .. n : Suma(s, k) = Suma(s, k - 1) + s[k].adjSize
  BY Sumas
<1> DEFINE S == {k \in Nat : k <= n => X * Suma(s, k) <= k * (M - 1)}
<1> HIDE DEF X, M
<1>4. S \in SUBSET Nat /\ 0 \in S
  BY <1>1, <1>3
<1>5. ASSUME NEW k \in S PROVE k + 1 \in S
  <2> SUFFICES ASSUME k + 1 <= n PROVE X * Suma(s, k + 1) <= (k + 1) * (M - 1)
    OBVIOUS
  <2> DEFINE y == k + 1
             a == Suma(s, k)
             b == s[y].adjSize
  <2>1. y \in 1 .. n /\ y - 1 = k /\ k \in 0 .. n /\ k \in Nat /\ X * a <= k * (M - 1)
    OBVIOUS
  <2> HIDE DEF S
  <2>2. Suma(s, y) = a + b /\ a \in Nat /\ b \in Nat /\ X * b < M
    <3> HIDE DEF y
    <3>1. QED BY <1>2, <1>3, <2>1
  <2> HIDE DEF a, b
  <2>3. X * (a + b) = X * a + X * b /\ X * a \in Nat /\ X * b \in Nat
    BY <1>1, <2>2
  <2>4. (k + 1) * (M - 1) = k * (M - 1) + (M - 1) /\ k * (M - 1) \in Nat
    BY <1>1, <2>1
  <2>5. X * b <= M - 1
    BY <1>1, <2>2, <2>3
  <2>6. X * a + X * b <= k * (M - 1) + (M - 1)
    BY <1>1, <2>1, <2>3, <2>4, <2>5
  <2>7. QED BY <2>2, <2>3, <2>4, <2>6
<1> HIDE DEF S
<1>6. S = Nat
  BY <1>4, <1>5, Induccion
<1> DEFINE t == Suma(s, n)
<1>7. X * t <= n * (M - 1) /\ t \in Nat
  BY <1>3, <1>6 DEF S
<1> HIDE DEF t
<1>8. SUFFICES ASSUME t >= M PROVE FALSE
  BY <1>1, <1>7 DEF t, M
<1>9. PICK e \in Nat : t = M + e
  <2>1. t - M \in Nat /\ t = M + (t - M)
    BY <1>1, <1>7, <1>8
  <2>2. QED BY <2>1
<1>10. PICK c \in Nat : X = n + c
  <2>1. X - n \in Nat /\ X = n + (X - n)
    BY <1>1, <1>2
  <2>2. QED BY <2>1
<1>11. X * (M - 1) = n * (M - 1) + c * (M - 1) /\ c * (M - 1) \in Nat /\ n * (M - 1) \in Nat
  <2>1. M - 1 \in Nat
    BY <1>1
  <2>2. QED BY <1>10, <2>1
<1>12. X * (M + e) = X * (M - 1) + X * (e + 1) /\ X * (e + 1) > 0 /\ X * (e + 1) \in Nat
  <2>1. X * (M + e) = X * (M - 1) + X * (e + 1)
    BY <1>1
  <2>2. e + 1 \in Nat /\ e + 1 > 0
    OBVIOUS
  <2>3. QED BY <1>1, <2>1, <2>2
<1>13. QED BY <1>7, <1>9, <1>11, <1>12
-----------------------------------------------------------------------------
(***************************************************************************)
(* Subredes: what holds of the subnets.                                    *)
(***************************************************************************)
Registros == [ogSize : Pedidas, adjSize : Nat, ip : Direcciones, mask : 0 .. Ancho]

\* Where the i-th of the m that calc put begins.
Lugar(m, i) == IF low2high THEN Suma(subnets, i - 1) ELSE Suma(subnets, m) - Suma(subnets, i)

\* The first m have their addresses, the greatest first, and the others none.
Puestas(m) ==
  /\ \A i \in 1 .. m :
       /\ subnets[i].mask = calcMask(subnets[i].adjSize)
       /\ subnets[i].ip = Mas(base, Lugar(m, i))
       /\ \A j \in i .. m : subnets[j].adjSize <= subnets[i].adjSize
  /\ \A i \in m + 1 .. Len(subnets) : subnets[i].mask = 0

\* The least of a subnet and its count, whatever calc did.
TiposSubredes ==
  /\ base \in Direcciones /\ low2high \in BOOLEAN
  /\ subnets \in Seq(Registros) /\ Len(subnets) <= MaxSubredes
  /\ \A i \in 1 .. Len(subnets) : subnets[i].adjSize = Ajustado(subnets[i].ogSize)

InvSubredes == TiposSubredes /\ \E m \in 0 .. Len(subnets) : Puestas(m)

\* The size of a subnet: a power of two that fits, and its mask.
LEMMA Talla ==
  ASSUME NEW h \in Pedidas
  PROVE  \E K \in 1 .. Ancho - 1 :
           /\ h \in Nat /\ Ajustado(h) = Dos(K) /\ Dos(K) \in Nat /\ calcMask(Dos(K)) = Ancho - K
           /\ h + 2 <= Dos(K) /\ Dos(K) < 2 * (h + 2)
           /\ MaxSubredes * Dos(K) < Espacio /\ Dos(K) < Espacio /\ Multiplo(Dos(K), Espacio)
<1> DEFINE X == MaxSubredes
           M == Espacio
<1>1. X \in Nat \ {0} /\ M \in Nat \ {0} /\ Ancho \in Nat \ {0} /\ M = Dos(Ancho)
  BY EspacioBien DEF Espacio
<1>2. h \in Nat /\ X * (2 * (h + 2)) < M
  BY SubredesValido
<1> HIDE DEF X
<1>3. PICK x \in Nat : X = x + 1
  <2>1. X - 1 \in Nat /\ X = (X - 1) + 1
    BY <1>1
  <2>2. QED BY <2>1
<1>4. \A t \in Nat : X * t = x * t + t /\ x * t \in Nat
  BY <1>3
<1>5. 2 * (h + 2) < M
  <2> DEFINE t == 2 * (h + 2)
  <2>1. t \in Nat /\ X * t < M
    BY <1>2
  <2> HIDE DEF t
  <2>2. t < M
    BY <1>1, <1>4, <2>1
  <2>3. QED BY <2>2 DEF t
<1>6. PICK K \in 1 .. Ancho : Ajustado(h) = Dos(K) /\ h + 2 <= Dos(K) /\ Dos(K) < 2 * (h + 2)
  <2>1. h + 2 <= Espacio
    BY <1>1, <1>2, <1>5
  <2>2. QED BY <1>1, <1>2, <2>1, AjustadoBien
<1>7. K \in Nat /\ Dos(K) \in Nat
  BY <1>6, DosMas
<1>8. Dos(K) < M
  BY <1>1, <1>2, <1>5, <1>6, <1>7
<1>9. K # Ancho
  BY <1>1, <1>7, <1>8
<1>10. calcMask(Dos(K)) = Ancho - K
  BY <1>1, <1>7, MascaraBien
<1>11. X * Dos(K) < M
  <2> DEFINE t == 2 * (h + 2)
             y == Dos(K)
  <2>1. t \in Nat /\ y \in Nat /\ X * t < M /\ y < t
    BY <1>2, <1>6, <1>7
  <2> HIDE DEF t, y
  <2>2. PICK e \in Nat : t = y + e
    <3>1. t - y \in Nat /\ t = y + (t - y)
      BY <2>1
    <3>2. QED BY <3>1
  <2>3. X * t = X * y + X * e /\ X * e \in Nat /\ X * y \in Nat
    BY <1>1, <2>1, <2>2
  <2>4. X * y < M
    BY <1>1, <2>1, <2>3
  <2>5. QED BY <2>4 DEF y
<1>12. Multiplo(Dos(K), M)
  <2>1. \E q \in Nat : Dos(Ancho) = Dos(K) * q
    BY <1>1, <1>6, <1>7, DosDivide
  <2>2. QED BY <1>1, <2>1 DEF Multiplo
<1>13. K \in 1 .. Ancho - 1
  BY <1>1, <1>6, <1>9
<1>14. QED BY <1>2, <1>6, <1>7, <1>8, <1>10, <1>11, <1>12, <1>13 DEF X

\* A size divides those that are no less.
LEMMA TallasDividen ==
  ASSUME NEW h \in Pedidas, NEW g \in Pedidas, Ajustado(h) <= Ajustado(g)
  PROVE  Multiplo(Ajustado(h), Ajustado(g))
<1>1. PICK K \in 1 .. Ancho - 1 : Ajustado(h) = Dos(K) /\ Dos(K) \in Nat
  BY Talla
<1>2. PICK L \in 1 .. Ancho - 1 : Ajustado(g) = Dos(L) /\ Dos(L) \in Nat
  BY Talla
<1>3. K \in Nat /\ L \in Nat
  OBVIOUS
<1>4. L < K => Dos(L) < Dos(K)
  BY <1>3, DosCrece
<1>5. K <= L
  BY <1>1, <1>2, <1>3, <1>4
<1>6. \E q \in Nat : Dos(L) = Dos(K) * q
  BY <1>3, <1>5, DosDivide
<1>7. QED BY <1>1, <1>2, <1>6 DEF Multiplo

\* The sizes of s, one by one.
LEMMA TallasDe ==
  ASSUME TiposSubredes, NEW i \in 1 .. Len(subnets)
  PROVE  /\ subnets[i] \in Registros /\ subnets[i].ogSize \in Pedidas
         /\ subnets[i].adjSize \in Nat /\ subnets[i].adjSize = Ajustado(subnets[i].ogSize)
         /\ 2 <= subnets[i].adjSize /\ subnets[i].adjSize < Espacio
         /\ MaxSubredes * subnets[i].adjSize < Espacio
         /\ calcMask(subnets[i].adjSize) \in 1 .. Ancho
<1>1. subnets[i] \in Registros /\ subnets[i].adjSize = Ajustado(subnets[i].ogSize)
  BY DEF TiposSubredes
<1>2. subnets[i].ogSize \in Pedidas /\ subnets[i].adjSize \in Nat
  BY <1>1 DEF Registros
<1> DEFINE h == subnets[i].ogSize
<1>3. PICK K \in 1 .. Ancho - 1 :
        /\ h \in Nat /\ Ajustado(h) = Dos(K) /\ Dos(K) \in Nat /\ calcMask(Dos(K)) = Ancho - K
        /\ h + 2 <= Dos(K) /\ MaxSubredes * Dos(K) < Espacio /\ Dos(K) < Espacio
  BY <1>2, Talla
<1>4. Ancho - K \in 1 .. Ancho
  BY EspacioBien
<1> HIDE DEF h
<1>5. 2 <= Dos(K)
  BY <1>3
<1>6. QED BY <1>1, <1>2, <1>3, <1>4, <1>5 DEF h

\* All the sums are less than the addresses there are.
LEMMA SumasDe ==
  ASSUME TiposSubredes, NEW n \in 0 .. Len(subnets)
  PROVE  Suma(subnets, n) \in Nat /\ Suma(subnets, n) < Espacio
<1>1. Len(subnets) \in Nat /\ Len(subnets) <= MaxSubredes /\ MaxSubredes \in Nat
  BY EspacioBien DEF TiposSubredes
<1>2. n \in Nat /\ n <= MaxSubredes
  BY <1>1
<1>3. \A k \in 1 .. n : subnets[k].adjSize \in Nat /\ MaxSubredes * subnets[k].adjSize < Espacio
  <2> TAKE k \in 1 .. n
  <2>1. k \in 1 .. Len(subnets)
    BY <1>1
  <2>2. QED BY <2>1, TallasDe
<1>4. Suma(subnets, n) < Espacio
  BY <1>2, <1>3, SumaCabe
<1>5. \A k \in 0 .. n : Suma(subnets, k) \in Nat
  BY <1>2, <1>3, Sumas
<1>6. QED BY <1>2, <1>4, <1>5

-----------------------------------------------------------------------------
\* The program starts with no subnets.
LEMMA SubredesInicial == SubInit => InvSubredes
<1> SUFFICES ASSUME SubInit PROVE InvSubredes
  OBVIOUS
<1>1. subnets = <<>> /\ Len(subnets) = 0 /\ base \in Direcciones /\ low2high \in BOOLEAN
  BY SubredesValido DEF SubInit
<1>2. 1 .. Len(subnets) = {} /\ subnets \in Seq(Registros)
  BY <1>1
<1>3. TiposSubredes
  BY <1>1, <1>2, EspacioBien DEF TiposSubredes
<1>4. 0 \in 0 .. Len(subnets) /\ Puestas(0)
  <2>1. 1 .. 0 = {} /\ 0 + 1 .. Len(subnets) = {}
    BY <1>1
  <2>2. QED BY <1>1, <2>1 DEF Puestas
<1>5. QED BY <1>3, <1>4 DEF InvSubredes

\* addSubnet leaves the addresses of the others and gives none.
LEMMA AddSubnetBien ==
  ASSUME InvSubredes, NEW h \in Pedidas, addSubnet(h)
  PROVE  InvSubredes'
<1> DEFINE n == Len(subnets)
           r == [ogSize |-> h, adjSize |-> Ajustado(h), ip |-> 0, mask |-> 0]
<1>1. /\ TiposSubredes /\ base' = base /\ low2high' = low2high /\ n < MaxSubredes
      /\ subnets' = Append(subnets, r) /\ subnets \in Seq(Registros)
  BY DEF InvSubredes, addSubnet, TiposSubredes
<1>2. r \in Registros
  <2>1. Ajustado(h) \in Nat
    BY Talla
  <2>2. 0 \in Direcciones /\ 0 \in 0 .. Ancho
    BY EspacioBien DEF Direcciones
  <2>3. QED BY <2>1, <2>2 DEF Registros
<1>3. /\ n \in Nat /\ subnets' \in Seq(Registros) /\ Len(subnets') = n + 1
      /\ subnets'[n + 1] = r /\ \A i \in 1 .. n : subnets'[i] = subnets[i]
  <2> HIDE DEF r
  <2>1. QED BY <1>1, <1>2
<1>4. TiposSubredes'
  <2>1. ASSUME NEW i \in 1 .. n + 1 PROVE subnets'[i].adjSize = Ajustado(subnets'[i].ogSize)
    <3>1. CASE i = n + 1
      BY <1>3, <3>1
    <3>2. CASE i # n + 1
      <4>1. i \in 1 .. n
        BY <1>3, <3>2
      <4>2. QED BY <1>1, <1>3, <4>1 DEF TiposSubredes
    <3>3. QED BY <3>1, <3>2
  <2> HIDE DEF r
  <2>2. Len(subnets') <= MaxSubredes
    BY <1>1, <1>3, EspacioBien
  <2>3. QED BY <1>1, <1>3, <2>1, <2>2 DEF TiposSubredes
<1>5. PICK m \in 0 .. n : Puestas(m)
  BY DEF InvSubredes
<1>6. \A k \in 0 .. m : Suma(subnets', k) = Suma(subnets, k)
  <2>1. \A k \in 1 .. m : subnets[k].adjSize \in Nat /\ subnets'[k].adjSize = subnets[k].adjSize
    <3> TAKE k \in 1 .. m
    <3>1. k \in 1 .. n
      BY <1>3
    <3>2. subnets[k].adjSize \in Nat
      BY <1>1, <3>1, TallasDe
    <3>3. QED BY <1>3, <3>1, <3>2
  <2>2. m \in Nat
    OBVIOUS
  <2>3. QED BY <2>1, <2>2, SumaIgual
<1>7. Puestas(m)'
  <2>1. ASSUME NEW i \in 1 .. m
        PROVE  /\ subnets'[i].mask = calcMask(subnets'[i].adjSize)
               /\ subnets'[i].ip = Mas(base', Lugar(m, i)')
               /\ \A j \in i .. m : subnets'[j].adjSize <= subnets'[i].adjSize
    <3>1. i \in 1 .. n /\ i - 1 \in 0 .. m /\ i \in 0 .. m /\ m \in 0 .. m /\ \A j \in i .. m : j \in 1 .. n
      BY <1>3
    <3>2. Lugar(m, i)' = Lugar(m, i)
      BY <1>1, <1>6, <3>1 DEF Lugar
    <3>3. /\ subnets[i].mask = calcMask(subnets[i].adjSize)
          /\ subnets[i].ip = Mas(base, Lugar(m, i))
          /\ \A j \in i .. m : subnets[j].adjSize <= subnets[i].adjSize
      BY <1>5 DEF Puestas
    <3>4. QED BY <1>1, <1>3, <3>1, <3>2, <3>3
  <2>2. ASSUME NEW i \in m + 1 .. n + 1 PROVE subnets'[i].mask = 0
    <3>1. CASE i = n + 1
      BY <1>3, <3>1
    <3>2. CASE i # n + 1
      <4>1. i \in 1 .. n /\ i \in m + 1 .. n
        BY <1>3, <3>2
      <4>2. QED BY <1>3, <1>5, <4>1 DEF Puestas
    <3>3. QED BY <3>1, <3>2
  <2> HIDE DEF r
  <2>3. QED BY <1>3, <2>1, <2>2 DEF Puestas
<1>8. m \in 0 .. Len(subnets')
  BY <1>3
<1>9. QED BY <1>4, <1>7, <1>8 DEF InvSubredes

\* What the sort leaves: the same subnets, the greatest first.
LEMMA OrdenadasBien ==
  ASSUME TiposSubredes, NEW s \in Ordenadas(subnets)
  PROVE  /\ DOMAIN s = 1 .. Len(subnets)
         /\ \A i \in 1 .. Len(subnets) :
              /\ s[i] \in Registros /\ s[i].adjSize = Ajustado(s[i].ogSize)
              /\ s[i].adjSize \in Nat /\ MaxSubredes * s[i].adjSize < Espacio
              /\ calcMask(s[i].adjSize) \in 1 .. Ancho
              /\ \A j \in i .. Len(subnets) : s[j].adjSize <= s[i].adjSize
<1> DEFINE D == 1 .. Len(subnets)
<1>1. Len(subnets) \in Nat /\ DOMAIN subnets = D
  BY DEF TiposSubredes
<1>2. PICK p \in [D -> D] :
        /\ s = [i \in D |-> subnets[p[i]]]
        /\ \A i, j \in D : i < j => p[i] # p[j] /\ subnets[p[i]].adjSize >= subnets[p[j]].adjSize
  BY <1>1 DEF Ordenadas
<1> HIDE DEF D
<1>3. ASSUME NEW i \in D
      PROVE  /\ p[i] \in D /\ s[i] = subnets[p[i]] /\ s[i] \in Registros
             /\ s[i].adjSize = Ajustado(s[i].ogSize) /\ s[i].adjSize \in Nat
             /\ MaxSubredes * s[i].adjSize < Espacio /\ calcMask(s[i].adjSize) \in 1 .. Ancho
  <2>1. p[i] \in D /\ s[i] = subnets[p[i]]
    BY <1>2
  <2>2. p[i] \in 1 .. Len(subnets)
    BY <2>1 DEF D
  <2>3. QED BY <2>1, <2>2, TallasDe
<1>4. ASSUME NEW i \in D, NEW j \in i .. Len(subnets) PROVE s[j].adjSize <= s[i].adjSize
  <2>1. j \in D /\ i \in Nat /\ j \in Nat /\ i <= j
    BY <1>1 DEF D
  <2>2. CASE i = j
    BY <1>3, <2>2
  <2>3. CASE i < j
    <3>1. subnets[p[i]].adjSize >= subnets[p[j]].adjSize
      BY <1>2, <2>1, <2>3
    <3>2. /\ s[i].adjSize = subnets[p[i]].adjSize /\ s[j].adjSize = subnets[p[j]].adjSize
          /\ s[i].adjSize \in Nat /\ s[j].adjSize \in Nat
      BY <1>3, <2>1
    <3>3. QED BY <3>1, <3>2
  <2>4. QED BY <2>1, <2>2, <2>3
<1>5. DOMAIN s = D
  BY <1>2
<1>6. QED BY <1>3, <1>4, <1>5 DEF D

\* calc gives all of them their addresses.
LEMMA CalcBien ==
  ASSUME InvSubredes, calc
  PROVE  InvSubredes'
<1> DEFINE n == Len(subnets)
<1>1. /\ TiposSubredes /\ base' = base /\ low2high' = low2high /\ base \in Direcciones
      /\ low2high \in BOOLEAN /\ n \in Nat /\ n <= MaxSubredes
  BY DEF InvSubredes, calc, TiposSubredes
<1>2. PICK s \in Ordenadas(subnets) : subnets' = assignAddresses(s)
  BY DEF calc
<1>3. /\ DOMAIN s = 1 .. n
      /\ \A i \in 1 .. n :
           /\ s[i] \in Registros /\ s[i].adjSize = Ajustado(s[i].ogSize)
           /\ s[i].adjSize \in Nat /\ MaxSubredes * s[i].adjSize < Espacio
           /\ calcMask(s[i].adjSize) \in 1 .. Ancho
           /\ \A j \in i .. n : s[j].adjSize <= s[i].adjSize
  BY <1>1, OrdenadasBien
<1>4. Len(s) = n
  <2>1. s = [i \in 1 .. n |-> s[i]]
    BY <1>2, <1>3 DEF Ordenadas
  <2>2. s \in [1 .. n -> Registros]
    BY <1>3, <2>1
  <2>3. s \in Seq(Registros)
    BY <1>1, <2>2
  <2>4. QED BY <1>1, <1>3, <2>3
<1>5. /\ \A k \in 0 .. n : Suma(s, k) \in Nat /\ Suma(s, k) <= Suma(s, n)
      /\ Suma(s, n) < Espacio
  <2>1. \A k \in 0 .. n : Suma(s, k) \in Nat
    BY <1>1, <1>3, Sumas
  <2>2. Suma(s, n) < Espacio
    BY <1>1, <1>3, SumaCabe
  <2>3. ASSUME NEW k \in 0 .. n PROVE Suma(s, k) <= Suma(s, n)
    <3>1. \A j \in k .. n : Suma(s, k) <= Suma(s, j)
      BY <1>1, <1>3, SumaCrece
    <3>2. n \in k .. n
      BY <1>1
    <3>3. QED BY <3>1, <3>2
  <2>4. QED BY <2>1, <2>2, <2>3
<1>6. ASSUME NEW i \in 1 .. n
      PROVE  /\ subnets'[i].ogSize = s[i].ogSize /\ subnets'[i].adjSize = s[i].adjSize
             /\ subnets'[i].mask = calcMask(s[i].adjSize)
             /\ subnets'[i].ip = Direccion(s, i)
             /\ subnets'[i] \in Registros /\ Direccion(s, i) \in Direcciones
  <2>1. subnets'[i] = [s[i] EXCEPT !.ip = Direccion(s, i), !.mask = calcMask(s[i].adjSize)]
    BY <1>2, <1>3 DEF assignAddresses
  <2>2. s[i] \in Registros /\ calcMask(s[i].adjSize) \in 0 .. Ancho
    <3>1. calcMask(s[i].adjSize) \in 1 .. Ancho /\ s[i] \in Registros
      BY <1>3
    <3>2. QED BY <3>1, EspacioBien
  <2>3. Direccion(s, i) \in Direcciones
    <3>1. i - 1 \in 0 .. n /\ i \in 0 .. n /\ n \in 0 .. n
      BY <1>1
    <3>2. /\ Suma(s, i - 1) \in 0 .. Espacio - 1 /\ Suma(s, i) \in 0 .. Espacio - 1
          /\ Suma(s, n) \in 0 .. Espacio - 1
      <4>1. \A k \in 0 .. n : Suma(s, k) \in 0 .. Espacio - 1
        BY <1>1, <1>5, EspacioBien
      <4>2. QED BY <3>1, <4>1
    <3>3. Mas(base, Suma(s, i - 1)) \in Direcciones /\ Mas(base, Suma(s, n)) \in Direcciones
      BY <1>1, <3>2, MasBien
    <3>4. Menos(Mas(base, Suma(s, n)), Suma(s, i)) \in Direcciones
      BY <3>2, <3>3, MasBien
    <3>5. QED BY <1>4, <3>3, <3>4 DEF Direccion
  <2>4. /\ subnets'[i].ogSize = s[i].ogSize /\ subnets'[i].adjSize = s[i].adjSize
        /\ subnets'[i].mask = calcMask(s[i].adjSize) /\ subnets'[i].ip = Direccion(s, i)
    BY <2>1, <2>2 DEF Registros
  <2>5. subnets'[i] \in Registros
    BY <2>1, <2>2, <2>3 DEF Registros
  <2>6. QED BY <2>3, <2>4, <2>5
<1>7. subnets' \in Seq(Registros) /\ Len(subnets') = n
  <2>1. DOMAIN subnets' = 1 .. n /\ subnets' = [i \in 1 .. n |-> subnets'[i]]
    BY <1>2, <1>3 DEF assignAddresses
  <2>2. subnets' \in [1 .. n -> Registros]
    BY <1>6, <2>1
  <2>3. QED BY <1>1, <2>1, <2>2
<1>8. TiposSubredes'
  <2>1. \A i \in 1 .. n : subnets'[i].adjSize = Ajustado(subnets'[i].ogSize)
    BY <1>3, <1>6
  <2>2. QED BY <1>1, <1>7, <2>1 DEF TiposSubredes
<1>9. \A k \in 0 .. n : Suma(subnets', k) = Suma(s, k)
  <2>1. \A k \in 1 .. n : s[k].adjSize \in Nat /\ subnets'[k].adjSize = s[k].adjSize
    BY <1>3, <1>6
  <2>2. QED BY <1>1, <2>1, SumaIgual
<1>10. ASSUME NEW i \in 1 .. n PROVE Direccion(s, i) = Mas(base, Lugar(n, i)')
  <2>1. i - 1 \in 0 .. n /\ i \in 0 .. n /\ n \in 0 .. n
    BY <1>1
  <2>2. CASE low2high
    <3>1. Direccion(s, i) = Mas(base, Suma(s, i - 1))
      BY <2>2 DEF Direccion
    <3>2. Lugar(n, i)' = Suma(s, i - 1)
      BY <1>1, <1>9, <2>1, <2>2 DEF Lugar
    <3>3. QED BY <3>1, <3>2
  <2>3. CASE ~low2high
    <3> DEFINE t == Suma(s, n)
               y == Suma(s, i)
               x == t - y
    <3>1. Direccion(s, i) = Menos(Mas(base, t), y)
      BY <1>4, <2>3 DEF Direccion
    <3>2. Lugar(n, i)' = x
      BY <1>1, <1>7, <1>9, <2>1, <2>3 DEF Lugar
    <3>3. t \in Nat /\ y \in Nat /\ y <= t /\ t < Espacio
      BY <1>5, <2>1
    <3>4. x \in Nat /\ x + y = t
      BY <3>3
    <3> HIDE DEF t, y, x
    <3>5. Menos(Mas(base, x + y), y) = Mas(base, x)
      BY <1>1, <3>3, <3>4, MasMas
    <3>6. QED BY <3>1, <3>2, <3>4, <3>5
  <2>4. QED BY <2>2, <2>3
<1>11. Puestas(n)'
  <2>1. ASSUME NEW i \in 1 .. n
        PROVE  /\ subnets'[i].mask = calcMask(subnets'[i].adjSize)
               /\ subnets'[i].ip = Mas(base', Lugar(n, i)')
               /\ \A j \in i .. n : subnets'[j].adjSize <= subnets'[i].adjSize
    <3>1. subnets'[i].mask = calcMask(subnets'[i].adjSize)
      BY <1>6
    <3>2. subnets'[i].ip = Mas(base', Lugar(n, i)')
      BY <1>1, <1>6, <1>10
    <3>3. ASSUME NEW j \in i .. n PROVE subnets'[j].adjSize <= subnets'[i].adjSize
      <4>1. j \in 1 .. n
        BY <1>1
      <4>2. subnets'[j].adjSize = s[j].adjSize /\ subnets'[i].adjSize = s[i].adjSize
        BY <1>6, <4>1
      <4>3. QED BY <1>3, <4>2
    <3>4. QED BY <3>1, <3>2, <3>3
  <2>2. n + 1 .. Len(subnets') = {}
    BY <1>1, <1>7
  <2>3. QED BY <2>1, <2>2 DEF Puestas
<1>12. n \in 0 .. Len(subnets')
  BY <1>1, <1>7
<1>13. QED BY <1>8, <1>11, <1>12 DEF InvSubredes

\* What no step touches stays so.
LEMMA SubredesQuietas == ASSUME InvSubredes, UNCHANGED subVars PROVE InvSubredes'
BY DEF InvSubredes, TiposSubredes, Puestas, Lugar, subVars

-----------------------------------------------------------------------------
\* Two subnets that calc put, one before the other, do not share a place; each is in the total.
LEMMA Lugares ==
  ASSUME TiposSubredes, NEW m \in 0 .. Len(subnets), NEW i \in 1 .. m
  PROVE  /\ Lugar(m, i) \in Nat
         /\ Lugar(m, i) + subnets[i].adjSize <= Suma(subnets, m)
         /\ \A j \in 1 .. m : i < j =>
              \/ Lugar(m, i) + subnets[i].adjSize <= Lugar(m, j)
              \/ Lugar(m, j) + subnets[j].adjSize <= Lugar(m, i)
<1>1. Len(subnets) \in Nat
  BY DEF TiposSubredes
<1>2. \A k \in 1 .. m : subnets[k].adjSize \in Nat
  <2> TAKE k \in 1 .. m
  <2>1. k \in 1 .. Len(subnets)
    BY <1>1
  <2>2. QED BY <2>1, TallasDe
<1>3. /\ Suma(subnets, 0) = 0 /\ \A k \in 0 .. m : Suma(subnets, k) \in Nat
      /\ \A k \in 1 .. m : Suma(subnets, k) = Suma(subnets, k - 1) + subnets[k].adjSize
  <2>1. m \in Nat
    OBVIOUS
  <2>2. QED BY <1>2, <2>1, Sumas
<1>4. ASSUME NEW k \in 0 .. m, NEW j \in k .. m PROVE Suma(subnets, k) <= Suma(subnets, j)
  <2>1. m \in Nat
    OBVIOUS
  <2>2. QED BY <1>2, <2>1, SumaCrece
<1> DEFINE a == subnets[i].adjSize
           x == Suma(subnets, i - 1)
           y == Suma(subnets, i)
           t == Suma(subnets, m)
<1>5. x \in Nat /\ y \in Nat /\ t \in Nat /\ y = x + a /\ y <= t /\ a \in Nat
  <2>1. i - 1 \in 0 .. m /\ i \in 0 .. m /\ m \in 0 .. m /\ m \in i .. m
    OBVIOUS
  <2>2. QED BY <1>2, <1>3, <1>4, <2>1
<1>6. ASSUME NEW j \in 1 .. m, i < j
      PROVE  \/ Lugar(m, i) + a <= Lugar(m, j)
             \/ Lugar(m, j) + subnets[j].adjSize <= Lugar(m, i)
  <2> DEFINE b == subnets[j].adjSize
             u == Suma(subnets, j - 1)
             v == Suma(subnets, j)
  <2>1. u \in Nat /\ v \in Nat /\ v = u + b /\ y <= u /\ b \in Nat
    <3>1. j - 1 \in 0 .. m /\ j \in 0 .. m /\ i \in 0 .. m /\ j - 1 \in i .. m
      BY <1>6
    <3>2. QED BY <1>2, <1>3, <1>4, <3>1
  <2>2. CASE low2high
    <3>1. Lugar(m, i) = x /\ Lugar(m, j) = u
      BY <2>2 DEF Lugar
    <3>2. QED BY <1>5, <2>1, <3>1
  <2>3. CASE ~low2high
    <3>1. Lugar(m, i) = t - y /\ Lugar(m, j) = t - v
      BY <2>3 DEF Lugar
    <3> HIDE DEF a, b, t, u, v, x, y
    <3>2. (t - v) + b <= t - y
      BY <1>5, <2>1
    <3>3. QED BY <3>1, <3>2 DEF b
  <2>4. QED BY <2>2, <2>3
<1>7. Lugar(m, i) \in Nat /\ Lugar(m, i) + a <= t
  <2>1. Lugar(m, i) = x \/ Lugar(m, i) = t - y
    BY DEF Lugar
  <2>2. QED BY <1>5, <2>1
<1>8. QED BY <1>6, <1>7

\* Every place of the total is of some subnet.
LEMMA SinHuecos ==
  ASSUME TiposSubredes, NEW m \in 0 .. Len(subnets), NEW k \in Nat, k < Suma(subnets, m)
  PROVE  \E i \in 1 .. m : Lugar(m, i) <= k /\ k < Lugar(m, i) + subnets[i].adjSize
<1>1. Len(subnets) \in Nat /\ m \in Nat
  BY DEF TiposSubredes
<1>2. \A i \in 1 .. m : subnets[i].adjSize \in Nat
  <2> TAKE i \in 1 .. m
  <2>1. i \in 1 .. Len(subnets)
    BY <1>1
  <2>2. QED BY <2>1, TallasDe
<1>3. /\ \A i \in 0 .. m : Suma(subnets, i) \in Nat
      /\ \A i \in 1 .. m : Suma(subnets, i) = Suma(subnets, i - 1) + subnets[i].adjSize
  BY <1>1, <1>2, Sumas
<1> DEFINE t == Suma(subnets, m)
<1>4. t \in Nat /\ k < t
  BY <1>1, <1>3
<1>5. CASE low2high
  <2>1. PICK i \in 1 .. m : Suma(subnets, i - 1) <= k /\ k < Suma(subnets, i)
    BY <1>1, <1>2, Cubre
  <2>2. Lugar(m, i) = Suma(subnets, i - 1)
    BY <1>5 DEF Lugar
  <2>3. QED BY <1>3, <2>1, <2>2
<1>6. CASE ~low2high
  <2> DEFINE z == t - 1 - k
  <2>1. z \in Nat /\ z < t
    BY <1>4
  <2>2. PICK i \in 1 .. m : Suma(subnets, i - 1) <= z /\ z < Suma(subnets, i)
    <3> HIDE DEF z
    <3>1. QED BY <1>1, <1>2, <2>1, Cubre
  <2>3. Lugar(m, i) = t - Suma(subnets, i)
    BY <1>6 DEF Lugar
  <2>4. i - 1 \in 0 .. m /\ i \in 0 .. m
    BY <1>1
  <2>5. /\ Suma(subnets, i) = Suma(subnets, i - 1) + subnets[i].adjSize
        /\ Suma(subnets, i) \in Nat /\ Suma(subnets, i - 1) \in Nat
    BY <1>3, <2>4
  <2> HIDE DEF t
  <2>6. Lugar(m, i) <= k /\ k < Lugar(m, i) + subnets[i].adjSize
    BY <1>2, <1>4, <2>2, <2>3, <2>5
  <2>7. QED BY <2>6
<1>7. QED BY <1>5, <1>6

\* The addresses of a subnet are the places of it, from the base.
LEMMA RangoDe ==
  ASSUME TiposSubredes, NEW m \in 0 .. Len(subnets), Puestas(m), NEW i \in 1 .. m
  PROVE  /\ \A z \in Rango(subnets[i]) : \E k \in Nat :
              /\ z = Mas(base, k) /\ Lugar(m, i) <= k /\ k < Lugar(m, i) + subnets[i].adjSize
         /\ \A k \in Nat : Lugar(m, i) <= k /\ k < Lugar(m, i) + subnets[i].adjSize
              => Mas(base, k) \in Rango(subnets[i])
<1> DEFINE x == Lugar(m, i)
           a == subnets[i].adjSize
<1>1. /\ i \in 1 .. Len(subnets) /\ Len(subnets) \in Nat /\ base \in Direcciones
  BY DEF TiposSubredes
<1>2. /\ x \in Nat /\ a \in Nat /\ x + a <= Suma(subnets, m)
      /\ Suma(subnets, m) \in Nat /\ Suma(subnets, m) < Espacio
  BY <1>1, Lugares, SumasDe, TallasDe
<1>3. Rango(subnets[i]) = {Mas(Mas(base, x), k) : k \in 0 .. a - 1}
  BY DEF Rango, Puestas
<1> HIDE DEF x, a
<1>4. ASSUME NEW k \in 0 .. a - 1 PROVE Mas(Mas(base, x), k) = Mas(base, x + k)
  <2>1. k \in Nat /\ x + k < Espacio
    BY <1>2, EspacioBien
  <2>2. QED BY <1>1, <1>2, <2>1, MasMas
<1>5. ASSUME NEW z \in Rango(subnets[i])
      PROVE  \E k \in Nat : z = Mas(base, k) /\ x <= k /\ k < x + a
  <2>1. PICK k \in 0 .. a - 1 : z = Mas(Mas(base, x), k)
    BY <1>3
  <2>2. x + k \in Nat /\ x <= x + k /\ x + k < x + a
    BY <1>2
  <2>3. QED BY <1>4, <2>1, <2>2
<1>6. ASSUME NEW k \in Nat, x <= k, k < x + a PROVE Mas(base, k) \in Rango(subnets[i])
  <2> DEFINE j == k - x
  <2>1. j \in 0 .. a - 1 /\ x + j = k
    BY <1>2, <1>6
  <2> HIDE DEF j
  <2>2. Mas(base, k) = Mas(Mas(base, x), j)
    BY <1>4, <2>1
  <2>3. QED BY <1>3, <2>1, <2>2
<1>7. QED BY <1>5, <1>6 DEF x, a

\* The room of a subnet of a addresses between its first host and its last.
LEMMA Anfitriones ==
  ASSUME NEW ip \in Direcciones, NEW a \in Nat, 2 <= a, a < Espacio
  PROVE  Menos(Mas(Menos(Mas(ip, a - 1), 1), 1), Mas(ip, 1)) = a - 2
<1> DEFINE M == Espacio
           b == Mas(ip, a - 1)
           f == Mas(ip, 1)
<1>1. M \in Nat \ {0} /\ ip \in 0 .. M - 1 /\ Direcciones = 0 .. M - 1
  BY EspacioBien DEF Direcciones
<1>2. a - 1 \in 0 .. M - 1 /\ 1 \in 0 .. M - 1 /\ a - 2 \in Nat /\ 1 \in Nat /\ (a - 2) + 1 = a - 1
      /\ a - 1 < M
  BY <1>1
<1>3. /\ Menos(b, 1) = Mas(ip, a - 2) /\ Mas(Mas(ip, a - 2), 1) = b
  <2> DEFINE x == a - 2
  <2>1. x \in Nat /\ x + 1 = a - 1 /\ x + 1 < M
    BY <1>2
  <2> HIDE DEF x
  <2>2. Mas(Mas(ip, x), 1) = Mas(ip, x + 1) /\ Menos(Mas(ip, x + 1), 1) = Mas(ip, x)
    BY <1>2, <2>1, MasMas
  <2>3. QED BY <2>1, <2>2 DEF x
<1>4. b \in Direcciones /\ b = IF ip + (a - 1) < M THEN ip + (a - 1) ELSE ip + (a - 1) - M
  BY <1>2, MasBien
<1>5. f \in Direcciones /\ f = IF ip + 1 < M THEN ip + 1 ELSE ip + 1 - M
  BY <1>2, MasBien
<1> HIDE DEF b, f
<1>6. f \in 0 .. M - 1 /\ b \in 0 .. M - 1
  BY <1>1, <1>4, <1>5
<1>7. Menos(b, f) = IF f <= b THEN b - f ELSE b - f + M
  BY <1>4, <1>6, MasBien
<1> HIDE DEF M
<1>8. Menos(b, f) = a - 2
  <2>1. CASE ip + (a - 1) < M
    <3>1. b = ip + (a - 1) /\ f = ip + 1
      BY <1>1, <1>2, <1>4, <1>5, <2>1
    <3>2. f <= b /\ b - f = a - 2
      BY <1>1, <1>2, <3>1
    <3>3. QED BY <1>7, <3>2
  <2>2. CASE ~(ip + (a - 1) < M) /\ ip + 1 < M
    <3>1. b = ip + (a - 1) - M /\ f = ip + 1
      BY <1>4, <1>5, <2>2
    <3>2. ~(f <= b) /\ b - f + M = a - 2
      BY <1>1, <1>2, <2>2, <3>1
    <3>3. QED BY <1>7, <3>2
  <2>3. CASE ~(ip + 1 < M)
    <3>1. ~(ip + (a - 1) < M)
      BY <1>1, <1>2, <2>3
    <3>2. b = ip + (a - 1) - M /\ f = ip + 1 - M
      BY <1>4, <1>5, <2>3, <3>1
    <3>3. f <= b /\ b - f = a - 2
      BY <1>1, <1>2, <3>2
    <3>4. QED BY <1>7, <3>3
  <2>4. QED BY <2>1, <2>2, <2>3
<1>9. QED BY <1>3, <1>8 DEF b, f

\* A subnet ends at its broadcast address and has room for its hosts.
LEMMA CabenLosPedidos ==
  ASSUME TiposSubredes, NEW m \in 0 .. Len(subnets), Puestas(m), NEW i \in 1 .. m
  PROVE  LET s == subnets[i] IN
         /\ getBroadcastAddress(s) = Mas(s.ip, s.adjSize - 1)
         /\ s.ogSize <= Menos(Mas(getLastHost(s), 1), getFirstHost(s))
         /\ s.adjSize < 2 * (s.ogSize + 2)
<1> DEFINE s == subnets[i]
           a == s.adjSize
           h == s.ogSize
<1>1. i \in 1 .. Len(subnets)
  BY DEF TiposSubredes
<1>2. s \in Registros /\ h \in Pedidas /\ a = Ajustado(h) /\ a \in Nat /\ 2 <= a /\ a < Espacio
  BY <1>1, TallasDe
<1>3. s.ip \in Direcciones /\ s.mask = calcMask(a)
  BY <1>2 DEF Puestas, Registros
<1>4. PICK K \in 1 .. Ancho - 1 :
        /\ h \in Nat /\ Ajustado(h) = Dos(K) /\ calcMask(Dos(K)) = Ancho - K
        /\ h + 2 <= Dos(K) /\ Dos(K) < 2 * (h + 2)
  <2> HIDE DEF h
  <2>1. QED BY <1>2, Talla
<1>5. Ancho - s.mask = K
  <2>1. s.mask = Ancho - K
    BY <1>2, <1>3, <1>4
  <2>2. QED BY <2>1, EspacioBien
<1>6. getBroadcastAddress(s) = Mas(s.ip, a - 1)
  BY <1>2, <1>4, <1>5 DEF getBroadcastAddress
<1>7. Menos(Mas(getLastHost(s), 1), getFirstHost(s)) = a - 2
  <2> DEFINE ip == s.ip
  <2>1. /\ getLastHost(s) = Menos(Mas(ip, a - 1), 1)
        /\ getFirstHost(s) = Mas(ip, 1) /\ ip \in Direcciones
    BY <1>3, <1>6 DEF getLastHost, getFirstHost
  <2> HIDE DEF ip, a
  <2>2. QED BY <1>2, <2>1, Anfitriones
<1>8. h <= a - 2 /\ a < 2 * (h + 2)
  BY <1>2, <1>4
<1>9. QED BY <1>6, <1>7, <1>8

\* On a base that all the sizes divide, each starts at a multiple of its own.
LEMMA Alineadas ==
  ASSUME TiposSubredes, NEW m \in 0 .. Len(subnets), Puestas(m), NEW i \in 1 .. m,
         low2high, \A j \in 1 .. m : base % subnets[j].adjSize = 0
  PROVE  subnets[i].ip % subnets[i].adjSize = 0
<1> DEFINE d == subnets[i].adjSize
           n == i - 1
           t == Suma(subnets, n)
<1>1. i \in 1 .. Len(subnets) /\ Len(subnets) \in Nat /\ n \in 0 .. Len(subnets) /\ n \in Nat
  BY DEF TiposSubredes
<1>2. d \in Nat \ {0} /\ d = Ajustado(subnets[i].ogSize) /\ subnets[i].ogSize \in Pedidas
  BY <1>1, TallasDe
<1>3. t \in Nat /\ t < Espacio
  <2> HIDE DEF n
  <2>1. QED BY <1>1, SumasDe
<1>4. subnets[i].ip = Mas(base, t)
  BY DEF Puestas, Lugar
<1>5. Multiplo(d, t)
  <2>1. ASSUME NEW k \in 1 .. n
        PROVE  subnets[k].adjSize \in Nat /\ Multiplo(d, subnets[k].adjSize)
    <3>1. k \in 1 .. Len(subnets) /\ k \in 1 .. m /\ i \in k .. m
      BY <1>1
    <3>2. /\ subnets[k].ogSize \in Pedidas /\ subnets[k].adjSize \in Nat
          /\ subnets[k].adjSize = Ajustado(subnets[k].ogSize)
      BY <3>1, TallasDe
    <3>3. d <= subnets[k].adjSize
      BY <3>1 DEF Puestas
    <3>4. QED BY <1>2, <3>2, <3>3, TallasDividen
  <2> HIDE DEF d, n
  <2>2. \A k \in 0 .. n : Multiplo(d, Suma(subnets, k))
    BY <1>1, <1>2, <2>1, SumaMultiplo
  <2>3. n \in 0 .. n
    BY <1>1
  <2>4. QED BY <2>2, <2>3
<1>6. base \in Nat /\ base \in 0 .. Espacio - 1 /\ Multiplo(d, base)
  <2>1. base \in Direcciones /\ base % d = 0
    BY DEF TiposSubredes
  <2> HIDE DEF d
  <2>2. base \in Nat /\ base \in 0 .. Espacio - 1
    BY <2>1, EspacioBien DEF Direcciones
  <2>3. QED BY <1>2, <2>1, <2>2, MultiploResto
<1>7. Multiplo(d, Espacio)
  <2>1. \E K \in 1 .. Ancho - 1 :
          Ajustado(subnets[i].ogSize) = Dos(K) /\ Multiplo(Dos(K), Espacio)
    BY <1>2, Talla
  <2>2. QED BY <1>2, <2>1
<1>8. Multiplo(d, base + t) /\ (Espacio <= base + t => Multiplo(d, base + t - Espacio))
  <2> HIDE DEF d, t
  <2>1. Multiplo(d, base + t)
    BY <1>2, <1>3, <1>5, <1>6, MultiploMas
  <2> DEFINE z == base + t
  <2>2. z \in Nat /\ Multiplo(d, z) /\ Espacio \in Nat
    BY <1>3, <1>6, <2>1, EspacioBien
  <2>3. z = base + t
    OBVIOUS
  <2> HIDE DEF z
  <2>4. ASSUME Espacio <= base + t PROVE Multiplo(d, base + t - Espacio)
    <3>1. Espacio <= z
      BY <2>3, <2>4
    <3>2. Multiplo(d, z - Espacio)
      BY <1>2, <1>7, <2>2, <3>1, MultiploMas
    <3>3. z - Espacio = base + t - Espacio
      BY <1>3, <1>6, <2>2, <2>3
    <3>4. QED BY <3>2, <3>3, Zenon
  <2>5. QED BY <2>1, <2>4
<1>9. /\ Mas(base, t) \in Direcciones
      /\ Mas(base, t) = IF base + t < Espacio THEN base + t ELSE base + t - Espacio
  <2>1. t \in 0 .. Espacio - 1 /\ base \in Direcciones
    BY <1>3, EspacioBien DEF TiposSubredes
  <2> HIDE DEF t
  <2>2. QED BY <2>1, MasBien
<1>10. Multiplo(d, Mas(base, t)) /\ Mas(base, t) \in Nat
  <2> HIDE DEF d, t
  <2>1. Mas(base, t) \in Nat
    BY <1>9, EspacioBien DEF Direcciones
  <2>2. CASE base + t < Espacio
    <3>1. Mas(base, t) = base + t
      BY <1>9, <2>2
    <3>2. QED BY <1>8, <2>1, <3>1
  <2>3. CASE ~(base + t < Espacio)
    <3>1. Mas(base, t) = base + t - Espacio /\ Espacio <= base + t
      BY <1>3, <1>6, <1>9, <2>3, EspacioBien
    <3>2. QED BY <1>8, <2>1, <3>1
  <2>4. QED BY <2>2, <2>3
<1> HIDE DEF d, t
<1>11. Mas(base, t) % d = 0
  BY <1>2, <1>10, MultiploResto
<1>12. QED BY <1>4, <1>11 DEF d

\* The invariant has what SubredesBien says.
LEMMA BienDe == InvSubredes => SubredesBien
<1> SUFFICES ASSUME InvSubredes PROVE SubredesBien
  OBVIOUS
<1>1. TiposSubredes /\ Len(subnets) \in Nat /\ DOMAIN subnets = 1 .. Len(subnets) /\ base \in Direcciones
  BY DEF InvSubredes, TiposSubredes
<1>2. PICK m \in 0 .. Len(subnets) : Puestas(m)
  BY DEF InvSubredes
<1>3. Asignadas = 1 .. m
  <2>1. ASSUME NEW i \in 1 .. m PROVE i \in 1 .. Len(subnets) /\ subnets[i].mask # 0
    <3>1. i \in 1 .. Len(subnets)
      BY <1>1
    <3>2. calcMask(subnets[i].adjSize) # 0
      BY <1>1, <3>1, TallasDe, EspacioBien
    <3>3. QED BY <1>2, <3>1, <3>2 DEF Puestas
  <2>2. ASSUME NEW i \in 1 .. Len(subnets), i \notin 1 .. m PROVE subnets[i].mask = 0
    <3>1. i \in m + 1 .. Len(subnets)
      BY <1>1, <2>2
    <3>2. QED BY <1>2, <3>1 DEF Puestas
  <2>3. QED BY <1>1, <2>1, <2>2 DEF Asignadas
<1> DEFINE t == Suma(subnets, m)
<1>4. t \in Nat /\ t < Espacio /\ t \in Direcciones
  <2>1. t \in Nat /\ t < Espacio
    BY <1>1, SumasDe
  <2>2. QED BY <2>1, EspacioBien DEF Direcciones
<1>5. UNION {Rango(subnets[i]) : i \in 1 .. m} = {Mas(base, k) : k \in 0 .. t - 1}
  <2>1. ASSUME NEW i \in 1 .. m, NEW z \in Rango(subnets[i])
        PROVE  z \in {Mas(base, k) : k \in 0 .. t - 1}
    <3>1. PICK k \in Nat : z = Mas(base, k) /\ k < Lugar(m, i) + subnets[i].adjSize
      BY <1>1, <1>2, <2>1, RangoDe
    <3>2. Lugar(m, i) \in Nat /\ subnets[i].adjSize \in Nat /\ Lugar(m, i) + subnets[i].adjSize <= t
      <4>1. i \in 1 .. Len(subnets)
        BY <1>1
      <4>2. QED BY <1>1, <4>1, Lugares, TallasDe
    <3> HIDE DEF t
    <3>3. k \in 0 .. t - 1
      BY <1>4, <3>1, <3>2
    <3>4. QED BY <3>1, <3>3
  <2>2. ASSUME NEW k \in 0 .. t - 1
        PROVE  \E i \in 1 .. m : Mas(base, k) \in Rango(subnets[i])
    <3>1. k \in Nat /\ k < t
      BY <1>4
    <3>2. PICK i \in 1 .. m : Lugar(m, i) <= k /\ k < Lugar(m, i) + subnets[i].adjSize
      BY <1>1, <3>1, SinHuecos
    <3>3. QED BY <1>1, <1>2, <3>1, <3>2, RangoDe
  <2> HIDE DEF t
  <2>3. QED BY <2>1, <2>2
<1>6. ASSUME NEW i \in 1 .. m, NEW j \in 1 .. m, i < j
      PROVE  Rango(subnets[i]) \cap Rango(subnets[j]) = {}
  <2> SUFFICES ASSUME NEW z \in Rango(subnets[i]), z \in Rango(subnets[j]) PROVE FALSE
    OBVIOUS
  <2> DEFINE x == Lugar(m, i)
             y == Lugar(m, j)
             a == subnets[i].adjSize
             b == subnets[j].adjSize
  <2>1. PICK k \in Nat : z = Mas(base, k) /\ x <= k /\ k < x + a
    BY <1>1, <1>2, RangoDe
  <2>2. PICK l \in Nat : z = Mas(base, l) /\ y <= l /\ l < y + b
    BY <1>1, <1>2, RangoDe
  <2>3. /\ x \in Nat /\ y \in Nat /\ a \in Nat /\ b \in Nat /\ x + a <= t /\ y + b <= t
        /\ (x + a <= y \/ y + b <= x)
    <3>1. i \in 1 .. Len(subnets) /\ j \in 1 .. Len(subnets)
      BY <1>1
    <3>2. QED BY <1>1, <1>6, <3>1, Lugares, TallasDe
  <2> HIDE DEF x, y, a, b, t
  <2>4. k # l /\ k \in 0 .. Espacio - 1 /\ l \in 0 .. Espacio - 1
    BY <1>4, <2>1, <2>2, <2>3, EspacioBien
  <2>5. k = l
    BY <1>1, <2>1, <2>2, <2>4, MasDistinta
  <2>6. QED BY <2>4, <2>5
<1>7. \A i, j \in 1 .. m : i # j => Rango(subnets[i]) \cap Rango(subnets[j]) = {}
  <2> TAKE i, j \in 1 .. m
  <2>1. i < j \/ j < i \/ i = j
    OBVIOUS
  <2>2. QED BY <1>6, <2>1
<1>8. \A i \in 1 .. m :
        LET s == subnets[i] IN
        /\ getBroadcastAddress(s) = Mas(s.ip, s.adjSize - 1)
        /\ s.ogSize <= Menos(Mas(getLastHost(s), 1), getFirstHost(s))
        /\ s.adjSize < 2 * (s.ogSize + 2)
        /\ low2high /\ (\A j \in 1 .. m : base % subnets[j].adjSize = 0)
             => s.ip % s.adjSize = 0
  <2> TAKE i \in 1 .. m
  <2>1. low2high /\ (\A j \in 1 .. m : base % subnets[j].adjSize = 0)
          => subnets[i].ip % subnets[i].adjSize = 0
    BY <1>1, <1>2, Alineadas
  <2>2. LET s == subnets[i] IN
        /\ getBroadcastAddress(s) = Mas(s.ip, s.adjSize - 1)
        /\ s.ogSize <= Menos(Mas(getLastHost(s), 1), getFirstHost(s))
        /\ s.adjSize < 2 * (s.ogSize + 2)
    BY <1>1, <1>2, CabenLosPedidos
  <2>3. QED BY <2>1, <2>2
<1> HIDE DEF t
<1>9. QED BY <1>3, <1>4, <1>5, <1>7, <1>8 DEF SubredesBien

(***************************************************************************)
(* Subnetter: the subnets that calc put are the first of the list, sorted, *)
(* with the mask of their size and their place from the base, and those    *)
(* added since have none.                                                  *)
(***************************************************************************)
THEOREM InductivoSubredes == SubSpec => []InvSubredes
<1>1. ASSUME InvSubredes, [SubNext]_subVars PROVE InvSubredes'
  <2>1. ASSUME NEW h \in Pedidas, addSubnet(h) PROVE InvSubredes'
    BY <1>1, <2>1, AddSubnetBien
  <2>2. ASSUME calc PROVE InvSubredes'
    BY <1>1, <2>2, CalcBien
  <2>3. ASSUME UNCHANGED subVars PROVE InvSubredes'
    BY <1>1, <2>3, SubredesQuietas
  <2>4. QED BY <1>1, <2>1, <2>2, <2>3 DEF SubNext
<1>2. QED BY <1>1, SubredesInicial, PTL DEF SubSpec

(***************************************************************************)
(* Subnetter::assignAddresses, for every base network, list of requests    *)
(* and width of an address: the subnets take one stretch of the base,      *)
(* without a gap and without sharing an address, each with the room its    *)
(* mask promises, and aligned when the base is.                            *)
(***************************************************************************)
THEOREM SubredesSiempreBien == SubSpec => []SubredesBien
<1>1. QED BY InductivoSubredes, BienDe, PTL
=============================================================================
