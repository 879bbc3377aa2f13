-------------------------- MODULE SimulacionProofs --------------------------
(***************************************************************************)
(* The simulation gives each client the answers to its requests, for any   *)
(* clients, figures and programs, and loses none when it is ended in       *)
(* order.  What is on its way is told by positions: the requests of the    *)
(* program are numbered in order, and the messages in each queue, but for  *)
(* sentinels, are those of consecutive numbers.                            *)
(***************************************************************************)
EXTENDS Simulacion, TSQ, FiniteSetTheorems, FunctionTheorems, SequenceTheorems, TLAPS

\* The requests main makes before call i, and how many.
Previos(i) == {j \in Envios : j < i}
Num(i) == Cardinality(Previos(i))

\* Of the first k messages of a queue, those that are not the sentinel.
Otras(q, k) == {j \in 1 .. k : ~EsCentinela(q[j])}
Ordenes(q, k) == Cardinality(Otras(q, k))
Todas(q) == Ordenes(q, Len(q))

\* What a queue holds for each call, but for sentinels, from request d on.
EnFila(q, m, d) ==
  \A k \in DOMAIN q :
    ~EsCentinela(q[k]) => \E i \in Envios : Num(i) = d + Ordenes(q, k - 1) /\ q[k] = m[i]

Pedidos == [i \in Envios |-> programa[i][2]]
Debidas == [i \in Envios |-> [client_id |-> programa[i][2].client_id, texto |-> Esperada(i)]]

\* Requests that main has put into reqQ, that the Servidor took and answered,
\* and answers that the Tenedor took and gave.
Metidas == IF pc["main"] = "senalar reqQ" THEN Num(pos + 1) ELSE Num(pos)
Tomadas == requests_ + (IF pc["servidor"] = "atender" THEN 1 ELSE 0)
Contestadas == requests_ - (IF pc["servidor"] = "responder" THEN 1 ELSE 0)
Recibidas == Contestadas - Todas(respQ.queue_)
Dadas == Recibidas - (IF pc["tenedor"] = "entregar" THEN 1 ELSE 0)

\* Where each thread may be, and main in which call.
Lugares ==
  /\ programa \in Programas /\ pos \in 1 .. Len(programa) + 1
  /\ pc \in [{"main", "servidor", "tenedor"} ->
               {"llamar", "encolar", "senalar reqQ", "senalar respQ", "esperar", "frente",
                "atender", "responder", "senalar", "entregar", "fin"}]
  /\ pc["main"] \in {"llamar", "encolar", "senalar reqQ", "senalar respQ"}
  /\ pc["servidor"] \in {"esperar", "frente", "atender", "responder", "senalar", "fin"}
  /\ pc["tenedor"] \in {"esperar", "frente", "entregar", "fin"}
  /\ pc["main"] = "encolar" => pos \in Envios
  /\ pc["main"] = "senalar reqQ" =>
       pos \in Envios \/ (pos <= Len(programa) /\ programa[pos] = <<"stop", "servidor">>)
  /\ pc["main"] = "senalar respQ" =>
       pos <= Len(programa) /\ programa[pos] = <<"stop", "tenedor">>

ColaDe(S) == [queue_ : Seq(S), canConsume_ : Nat]
Colas ==
  reqQ \in ColaDe(Peticiones \cup {Centinela}) /\ respQ \in ColaDe(Respuestas \cup {Centinela})

\* Between main and the Servidor no request is lost, doubled or out of order.
PedidosEnOrden ==
  /\ requests_ \in Nat /\ Tomadas + Todas(reqQ.queue_) = Metidas
  /\ EnFila(reqQ.queue_, Pedidos, Tomadas)
  /\ pc["servidor"] = "atender" => \E i \in Envios : Num(i) = requests_ /\ req = Pedidos[i]

\* The store is what the requests served so far made of it.
AlmacenAlDia ==
  /\ Nombres \subseteq Figuras /\ \A n \in Nombres : store_[n] \in Cuerpos
  /\ \A i \in 1 .. Len(programa) + 1 :
       Num(i) = requests_ => /\ Nombres = Existentes(i)
                             /\ \A n \in Nombres : store_[n] = Cuerpo(i, n)

\* Nor is an answer between the Servidor and the Tenedor.
RespuestasEnFila ==
  /\ Recibidas \in Nat /\ Dadas \in Nat
  /\ pc["servidor"] = "responder" => \E i \in Envios : Num(i) = requests_ - 1 /\ req = Debidas[i]
  /\ EnFila(respQ.queue_, Debidas, Recibidas)
  /\ pc["tenedor"] = "entregar" => \E i \in Envios : Num(i) = Dadas /\ resp = Debidas[i]

\* Each client was given the answers of its requests among the first Dadas.
Servidos(c) == {i \in EnviosDe(c) : Num(i) < Dadas}
Entregas ==
  /\ entregas \in [Clientes -> Seq(Salidas)]
  /\ \A c \in Clientes :
       /\ Len(entregas[c]) = Cardinality(Servidos(c))
       /\ \A i \in EnviosDe(c) : Num(i) < Dadas => entregas[c][Vez(c, i)] = Esperada(i)

\* Who has a request in reqQ or beyond is registered.
Registrados ==
  /\ clients_ \subseteq Clientes
  /\ \A i \in Envios : \/ i < pos
                       \/ i = pos /\ pc["main"] \in {"encolar", "senalar reqQ"}
                       => programa[i][2].client_id \in clients_

EnOrden ==
  Lugares /\ Colas /\ PedidosEnOrden /\ AlmacenAlDia /\ RespuestasEnFila /\ Entregas /\ Registrados

HayCentinela(q) == \E k \in DOMAIN q : EsCentinela(q[k])
\* Nothing but sentinels comes after a sentinel, taken or not.
NadaTras(q, tomado) ==
  \A k \in DOMAIN q : (tomado \/ \E j \in 1 .. k - 1 : EsCentinela(q[j])) => EsCentinela(q[k])

\* main joined who it says; in an orderly end the sentinels are the last.
Cierre ==
  /\ \A i \in 1 .. pos - 1 : \A h \in {"servidor", "tenedor"} :
       programa[i] = <<"waitToFinish", h>> => pc[h] = "fin"
  /\ CierraBien =>
       /\ NadaTras(reqQ.queue_, pc["servidor"] = "fin")
       /\ NadaTras(respQ.queue_, pc["tenedor"] = "fin")
       /\ HayCentinela(reqQ.queue_) \/ pc["servidor"] = "fin" => Metidas = Num(Len(programa) + 1)
       /\ HayCentinela(respQ.queue_) \/ pc["tenedor"] = "fin" => pc["servidor"] = "fin"
-----------------------------------------------------------------------------
(***************************************************************************)
(* The program and the numbers of its requests.                            *)
(***************************************************************************)
LEMMA DelPrograma ==
  ASSUME programa \in Programas
  PROVE  /\ Len(programa) \in Nat /\ Len(programa) <= MaxLlamadas
         /\ \A i \in 1 .. Len(programa) : programa[i] \in Llamadas
         /\ IsFiniteSet(Envios)
         /\ \A i \in Envios : /\ i \in Int /\ 1 <= i /\ i <= Len(programa)
                              /\ programa[i][2] \in Peticiones
                              /\ programa[i][2].client_id \in Clientes
                              /\ programa[i][2].texto \in Comandos
                              /\ programa[i][1] = "send"
<1>1. programa \in Seq(Llamadas) /\ Len(programa) <= MaxLlamadas
  BY SimulacionValida
<1>2. Envios \subseteq 1 .. Len(programa) /\ IsFiniteSet(1 .. Len(programa))
  BY <1>1, FS_Interval DEF Envios
<1>3. IsFiniteSet(Envios)
  BY <1>2, FS_Subset
<1>4. ASSUME NEW i \in Envios PROVE programa[i][2] \in Peticiones /\ programa[i][1] = "send"
  <2>1. programa[i] \in Llamadas /\ programa[i][1] = "send"
    BY <1>1 DEF Envios
  <2> QED BY <2>1 DEF Llamadas
<1>5. \A p \in Peticiones : p.client_id \in Clientes /\ p.texto \in Comandos
  BY DEF Peticiones
<1> QED BY <1>1, <1>2, <1>3, <1>4, <1>5

LEMMA Numeros ==
  ASSUME programa \in Programas
  PROVE  /\ \A i \in Int : Num(i) \in Nat
         /\ Num(1) = 0
         /\ \A i, j \in Int : i <= j => Num(i) <= Num(j)
         /\ \A i \in Int : Num(i + 1) = IF i \in Envios THEN Num(i) + 1 ELSE Num(i)
         /\ \A i \in Envios : \A j \in Int : i < j <=> Num(i) < Num(j)
         /\ \A i, j \in Envios : Num(i) = Num(j) => i = j
         /\ Num(Len(programa) + 1) = Cardinality(Envios)
         /\ Cardinality(Envios) <= MaxLlamadas
<1>1. /\ IsFiniteSet(Envios) /\ Len(programa) \in Nat
      /\ \A i \in Envios : i \in Int /\ 1 <= i /\ i <= Len(programa)
  BY DelPrograma
<1>2. ASSUME NEW i \in Int PROVE IsFiniteSet(Previos(i)) /\ Num(i) \in Nat
  <2>1. Previos(i) \subseteq Envios
    BY DEF Previos
  <2> QED BY <2>1, <1>1, FS_Subset, FS_CardinalityType DEF Num
<1>3. ASSUME NEW i \in Int, NEW j \in Int, i <= j PROVE Num(i) <= Num(j)
  <2>1. Previos(i) \subseteq Previos(j)
    BY <1>1, <1>3 DEF Previos
  <2> QED BY <2>1, <1>2, FS_Subset DEF Num
<1>4. ASSUME NEW i \in Int PROVE Num(i + 1) = IF i \in Envios THEN Num(i) + 1 ELSE Num(i)
  <2>1. CASE i \in Envios
    <3>1. \A x \in Envios : x < i + 1 <=> x < i \/ x = i
      BY <1>1
    <3>2. Previos(i + 1) = Previos(i) \cup {i}
      BY <3>1, <2>1 DEF Previos
    <3>3. i \notin Previos(i)
      BY DEF Previos
    <3> QED BY <2>1, <3>2, <3>3, <1>2, FS_AddElement DEF Num
  <2>2. CASE i \notin Envios
    <3>1. \A x \in Envios : x < i + 1 <=> x < i
      BY <2>2, <1>1
    <3>2. Previos(i + 1) = Previos(i)
      BY <3>1 DEF Previos
    <3> QED BY <2>2, <3>2 DEF Num
  <2> QED BY <2>1, <2>2
<1>5. ASSUME NEW i \in Envios, NEW j \in Int PROVE i < j <=> Num(i) < Num(j)
  <2>1. i \in Int /\ i + 1 \in Int
    BY <1>1
  <2>2. Num(i + 1) = Num(i) + 1 /\ Num(i) \in Nat /\ Num(j) \in Nat
    BY <2>1, <1>2, <1>4
  <2>3. i < j => Num(i + 1) <= Num(j)
    BY <2>1, <1>3
  <2>4. j <= i => Num(j) <= Num(i)
    BY <2>1, <1>3
  <2> QED BY <2>1, <2>2, <2>3, <2>4
<1>6. ASSUME NEW i \in Envios, NEW j \in Envios, Num(i) = Num(j) PROVE i = j
  <2>1. i \in Int /\ j \in Int /\ Num(i) \in Nat
    BY <1>1, <1>2
  <2> QED BY <2>1, <1>5, <1>6
<1>7. Num(1) = 0
  <2>1. \A x \in Envios : ~(x < 1)
    BY <1>1
  <2>2. Previos(1) = {}
    BY <2>1 DEF Previos
  <2> QED BY <2>2, FS_EmptySet DEF Num
<1>8. Num(Len(programa) + 1) = Cardinality(Envios)
  <2>1. \A x \in Envios : x < Len(programa) + 1
    BY <1>1
  <2>2. Previos(Len(programa) + 1) = Envios
    BY <2>1 DEF Previos
  <2> QED BY <2>2 DEF Num
<1>9. Cardinality(Envios) <= MaxLlamadas
  <2>a. Envios \subseteq 1 .. Len(programa)
    BY <1>1
  <2>b. IsFiniteSet(1 .. Len(programa)) /\ Cardinality(1 .. Len(programa)) = Len(programa)
    <3>1. /\ IsFiniteSet(1 .. Len(programa))
          /\ Cardinality(1 .. Len(programa)) =
               IF 1 > Len(programa) THEN 0 ELSE Len(programa) - 1 + 1
      BY <1>1, FS_Interval
    <3> QED BY <3>1, <1>1
  <2>2. Cardinality(Envios) <= Len(programa) /\ Cardinality(Envios) \in Nat
    BY <2>a, <2>b, <1>1, FS_Subset, FS_CardinalityType
  <2> QED BY <2>2, <1>1, DelPrograma, SimulacionValida
<1> QED BY <1>2, <1>3, <1>4, <1>5, <1>6, <1>7, <1>8, <1>9

(***************************************************************************)
(* What a push and a pop do to the messages of a queue.                    *)
(***************************************************************************)
LEMMA Contadas ==
  ASSUME NEW q, NEW k \in Nat
  PROVE  Ordenes(q, k) \in Nat /\ IsFiniteSet(Otras(q, k))
<1>1. IsFiniteSet(1 .. k) /\ Otras(q, k) \subseteq 1 .. k
  BY FS_Interval DEF Otras
<1> QED BY <1>1, FS_Subset, FS_CardinalityType DEF Ordenes

LEMMA UnaMas ==
  ASSUME NEW q, NEW k \in Nat
  PROVE  /\ Ordenes(q, 0) = 0
         /\ Ordenes(q, k + 1) = Ordenes(q, k) + (IF EsCentinela(q[k + 1]) THEN 0 ELSE 1)
<1>1. Otras(q, 0) = {}
  BY DEF Otras
<1>2. IsFiniteSet(Otras(q, k)) /\ Ordenes(q, k) \in Nat
  BY Contadas
<1>3. \A j : j \in 1 .. k + 1 <=> j \in 1 .. k \/ j = k + 1
  OBVIOUS
<1>4. k + 1 \notin Otras(q, k)
  BY DEF Otras
<1>5. Otras(q, k + 1) = IF EsCentinela(q[k + 1]) THEN Otras(q, k) ELSE Otras(q, k) \cup {k + 1}
  BY <1>3 DEF Otras
<1>6. Ordenes(q, 0) = 0
  BY <1>1, FS_EmptySet DEF Ordenes
<1>7. /\ IsFiniteSet(Otras(q, k) \cup {k + 1})
      /\ Cardinality(Otras(q, k) \cup {k + 1}) = Ordenes(q, k) + 1
  BY <1>2, <1>4, FS_AddElement DEF Ordenes
<1> QED BY <1>2, <1>5, <1>6, <1>7 DEF Ordenes

LEMMA ColaMete ==
  ASSUME NEW S, NEW q \in Seq(S), NEW e \in S, NEW m, NEW d \in Nat,
         EnFila(q, m, d),
         EsCentinela(e) \/ \E i \in Envios : Num(i) = d + Todas(q) /\ e = m[i]
  PROVE  /\ EnFila(Append(q, e), m, d)
         /\ Todas(Append(q, e)) = Todas(q) + (IF EsCentinela(e) THEN 0 ELSE 1)
         /\ Todas(q) \in Nat
<1> DEFINE r == Append(q, e)
           n == Len(q)
<1>1. /\ n \in Nat /\ DOMAIN q = 1 .. n
      /\ r \in Seq(S) /\ Len(r) = n + 1 /\ DOMAIN r = 1 .. n + 1
      /\ \A j \in 1 .. n : r[j] = q[j]
      /\ r[n + 1] = e
  BY AppendProperties, LenProperties
<1> HIDE DEF r, n
<1>2. ASSUME NEW k \in 0 .. n PROVE Ordenes(r, k) = Ordenes(q, k)
  <2>1. \A j \in 1 .. k : r[j] = q[j]
    BY <1>1
  <2>2. Otras(r, k) = Otras(q, k)
    BY <2>1 DEF Otras
  <2> QED BY <2>2 DEF Ordenes
<1>3. Todas(r) = Todas(q) + (IF EsCentinela(e) THEN 0 ELSE 1) /\ Todas(q) \in Nat
  <2>1. Ordenes(r, n + 1) = Ordenes(r, n) + (IF EsCentinela(r[n + 1]) THEN 0 ELSE 1)
    BY <1>1, UnaMas
  <2>2. Ordenes(r, n) = Ordenes(q, n) /\ Ordenes(q, n) \in Nat
    BY <1>1, <1>2, Contadas
  <2> QED BY <2>1, <2>2, <1>1 DEF Todas, n
<1>4. EnFila(r, m, d)
  <2> SUFFICES ASSUME NEW k \in 1 .. n + 1, ~EsCentinela(r[k])
               PROVE  \E i \in Envios : Num(i) = d + Ordenes(r, k - 1) /\ r[k] = m[i]
    BY <1>1 DEF EnFila
  <2>1. k - 1 \in 0 .. n /\ Ordenes(r, k - 1) = Ordenes(q, k - 1)
    BY <1>1, <1>2
  <2>2. CASE k \in 1 .. n
    BY <2>1, <2>2, <1>1 DEF EnFila
  <2>3. CASE k = n + 1
    BY <2>1, <2>3, <1>1 DEF Todas, n
  <2> QED BY <2>2, <2>3, <1>1
<1> QED BY <1>3, <1>4 DEF r

LEMMA ColaSaca ==
  ASSUME NEW S, NEW q \in Seq(S), q # <<>>, NEW m, NEW d \in Nat, EnFila(q, m, d)
  PROVE  LET c == IF EsCentinela(Head(q)) THEN 0 ELSE 1
         IN /\ EnFila(Tail(q), m, d + c)
            /\ Todas(q) = Todas(Tail(q)) + c /\ Todas(Tail(q)) \in Nat
            /\ ~EsCentinela(Head(q)) => \E i \in Envios : Num(i) = d /\ Head(q) = m[i]
<1> DEFINE r == Tail(q)
           n == Len(r)
           c == IF EsCentinela(Head(q)) THEN 0 ELSE 1
<1>1. /\ n \in Nat /\ DOMAIN q = 1 .. n + 1 /\ Len(q) = n + 1
      /\ r \in Seq(S) /\ DOMAIN r = 1 .. n
      /\ \A j \in 1 .. n : r[j] = q[j + 1]
      /\ q[1] = Head(q)
  BY HeadTailProperties, LenProperties
<1> HIDE DEF r, n
<1>2. ASSUME NEW k \in 0 .. n PROVE Ordenes(q, k + 1) = Ordenes(r, k) + c
  <2> DEFINE A == Otras(r, k)
             B == Otras(q, k + 1) \ {1}
             f == [j \in A |-> j + 1]
  <2>1. \A j : j \in A <=> j \in Int /\ 1 <= j /\ j <= k /\ ~EsCentinela(q[j + 1])
    BY <1>1 DEF Otras
  <2>2. \A j : j \in B <=> j \in Int /\ 2 <= j /\ j <= k + 1 /\ ~EsCentinela(q[j])
    BY DEF Otras
  <2>3. k \in Nat /\ IsFiniteSet(A) /\ Cardinality(A) = Ordenes(r, k) /\ Ordenes(r, k) \in Nat
    BY Contadas DEF Ordenes
  <2>4. Otras(q, k + 1) = IF EsCentinela(q[1]) THEN B ELSE B \cup {1}
    BY <2>3 DEF Otras
  <2> HIDE DEF A, B
  <2>5. f \in [A -> B]
    BY <2>1, <2>2, <2>3
  <2>6. \A x, y \in A : f[x] = f[y] => x = y
    BY <2>1
  <2>7. ASSUME NEW y \in B PROVE \E x \in A : f[x] = y
    <3>1. y - 1 \in Int /\ 1 <= y - 1 /\ y - 1 <= k /\ (y - 1) + 1 = y /\ ~EsCentinela(q[y])
      BY <2>2, <2>3
    <3>2. y - 1 \in A
      BY <3>1, <2>1
    <3> QED BY <3>1, <3>2
  <2> HIDE DEF f
  <2>8. ExistsBijection(A, B)
    <3>1. f \in Bijection(A, B)
      BY <2>5, <2>6, <2>7, Fun_IsBij
    <3> QED BY <3>1 DEF ExistsBijection
  <2>9. IsFiniteSet(B) /\ Cardinality(B) = Ordenes(r, k)
    BY <2>3, <2>8, FS_Bijection
  <2>10. 1 \notin B
    BY <2>2
  <2>11. Cardinality(B \cup {1}) = Ordenes(r, k) + 1
    BY <2>9, <2>10, FS_AddElement
  <2> QED BY <2>3, <2>4, <2>9, <2>11, <1>1 DEF Ordenes
<1>3. Todas(q) = Todas(r) + c /\ Todas(r) \in Nat
  BY <1>1, <1>2, Contadas DEF Todas, n
<1>4. EnFila(r, m, d + c)
  <2> SUFFICES ASSUME NEW k \in 1 .. n, ~EsCentinela(r[k])
               PROVE  \E i \in Envios : Num(i) = d + c + Ordenes(r, k - 1) /\ r[k] = m[i]
    BY <1>1 DEF EnFila
  <2>1. k - 1 \in 0 .. n /\ (k - 1) + 1 = k /\ k + 1 \in 1 .. n + 1 /\ r[k] = q[k + 1]
        /\ (k + 1) - 1 = k /\ k - 1 \in Nat
    BY <1>1
  <2>2. Ordenes(q, k) = Ordenes(r, k - 1) + c /\ Ordenes(r, k - 1) \in Nat
    BY <2>1, <1>2, Contadas
  <2>3. \E i \in Envios : Num(i) = d + Ordenes(q, (k + 1) - 1) /\ q[k + 1] = m[i]
    BY <2>1, <1>1 DEF EnFila
  <2> QED BY <2>1, <2>2, <2>3
<1>5. ASSUME ~EsCentinela(Head(q)) PROVE \E i \in Envios : Num(i) = d /\ Head(q) = m[i]
  <2>1. 1 \in DOMAIN q /\ Ordenes(q, 1 - 1) = 0
    BY <1>1, UnaMas
  <2> QED BY <2>1, <1>1, <1>5 DEF EnFila
<1> QED BY <1>3, <1>4, <1>5 DEF r
-----------------------------------------------------------------------------
(***************************************************************************)
(* The program does not change, nor what is told from it alone.            *)
(***************************************************************************)
LEMMA Fijo ==
  ASSUME programa' = programa
  PROVE  /\ Envios' = Envios /\ Pedidos' = Pedidos /\ Debidas' = Debidas
         /\ \A i : Num(i)' = Num(i) /\ Texto(i)' = Texto(i) /\ Existentes(i)' = Existentes(i)
                   /\ Esperada(i)' = Esperada(i)
         /\ \A i, n : Cuerpo(i, n)' = Cuerpo(i, n) /\ Existe(i, n)' = Existe(i, n)
         /\ \A c : EnviosDe(c)' = EnviosDe(c)
         /\ \A c, i : Vez(c, i)' = Vez(c, i)
         /\ CierraBien' = CierraBien
         /\ \A q, m, d : EnFila(q, m, d)' = EnFila(q, m, d)
<1>1. Envios' = Envios /\ \A i : Texto(i)' = Texto(i)
  BY DEF Envios, Texto
<1>2. \A i : Num(i)' = Num(i)
  BY <1>1 DEF Num, Previos
<1>3. \A i, n : Toca(i, n)' = Toca(i, n)
  BY <1>1 DEF Toca
<1>4. \A i, n : Ultima(i, n)' = Ultima(i, n) /\ Tocada(i, n)' = Tocada(i, n)
  BY <1>1, <1>3 DEF Ultima, Tocada
<1>5. \A i, n : Cuerpo(i, n)' = Cuerpo(i, n) /\ Existe(i, n)' = Existe(i, n)
  BY <1>1, <1>4 DEF Cuerpo, Existe
<1>6. \A i : Existentes(i)' = Existentes(i)
  BY <1>5 DEF Existentes
<1>7. \A i : Esperada(i)' = Esperada(i)
  BY <1>1, <1>5, <1>6 DEF Esperada
<1>8. Pedidos' = Pedidos /\ Debidas' = Debidas
  BY <1>1, <1>7 DEF Pedidos, Debidas
<1>9. \A c : EnviosDe(c)' = EnviosDe(c)
  BY <1>1 DEF EnviosDe
<1>10. \A c, i : Vez(c, i)' = Vez(c, i)
  BY <1>9 DEF Vez
<1>11. CierraBien' = CierraBien
  BY <1>1 DEF CierraBien, Antes
<1>12. \A q, m, d : EnFila(q, m, d)' = EnFila(q, m, d)
  BY <1>1, <1>2 DEF EnFila
<1> QED BY <1>1, <1>2, <1>5, <1>6, <1>7, <1>8, <1>9, <1>10, <1>11, <1>12

\* A thread moves and the others stay.
LEMMA Mueve ==
  ASSUME Lugares, NEW h \in {"main", "servidor", "tenedor"},
         NEW l \in {"llamar", "encolar", "senalar reqQ", "senalar respQ", "esperar", "frente",
                    "atender", "responder", "senalar", "entregar", "fin"},
         Ir(h, l)
  PROVE  /\ pc' \in [{"main", "servidor", "tenedor"} ->
                       {"llamar", "encolar", "senalar reqQ", "senalar respQ", "esperar", "frente",
                        "atender", "responder", "senalar", "entregar", "fin"}]
         /\ pc'[h] = l
         /\ \A g \in {"main", "servidor", "tenedor"} \ {h} : pc'[g] = pc[g]
BY DEF Lugares, Ir

(***************************************************************************)
(* The texts of the requests, and what the store holds before each.        *)
(***************************************************************************)
LEMMA Textos ==
  ASSUME NEW t \in Comandos
  PROVE  /\ Len(t) \in {1, 2, 3} /\ (Len(t) > 1 => t[2] \in Figuras)
         /\ t[1] \in {"GET", "DEL"} => Len(t) = 2
         /\ t[1] = "ADD" => Len(t) \in {1, 3}
         /\ Len(t) = 3 => t[3] \in Cuerpos
<1>1. CASE t \in {<<f>> : f \in {"PING", "LIST", "STATS", "ADD", "OTRO"}}
  BY <1>1
<1>2. CASE t \in {<<f, n>> : f \in {"GET", "DEL"}, n \in Figuras}
  BY <1>2
<1>3. CASE t \in {<<"ADD", n, v>> : n \in Figuras, v \in Cuerpos}
  BY <1>3
<1> QED BY <1>1, <1>2, <1>3 DEF Comandos

LEMMA Ultimo ==
  ASSUME NEW n \in Nat, NEW S \in SUBSET (1 .. n), S # {}
  PROVE  \E m \in S : \A k \in S : k <= m
<1> DEFINE T == {k .. n : k \in S}
<1>1. IsFiniteSet(1 .. n) /\ T \subseteq SUBSET (1 .. n) /\ T # {}
  <2>1. IsFiniteSet(1 .. n)
    BY FS_Interval
  <2>2. \A k \in S : k .. n \in SUBSET (1 .. n)
    OBVIOUS
  <2> QED BY <2>1, <2>2
<1>2. IsWellFoundedOn(StrictSubsetOrdering(1 .. n), SUBSET (1 .. n))
  <2>1. FiniteSubsetsOf(1 .. n) = SUBSET (1 .. n)
    BY <1>1, FS_FiniteSubsetsOfFinite
  <2> QED BY <2>1, FS_StrictSubsetOrderingWellFounded
<1>3. PICK z \in T : \A w \in T : ~ (<<w, z>> \in StrictSubsetOrdering(1 .. n))
  <2> HIDE DEF T
  <2> QED BY <1>1, <1>2, WFMin
<1>4. PICK m \in S : z = m .. n
  OBVIOUS
<1>5. ASSUME NEW k \in S PROVE k <= m
  <2>1. CASE k > m
    <3>1. \A x : x \in k .. n => x \in m .. n
      BY <2>1
    <3>2. m \in m .. n /\ m \notin k .. n
      BY <2>1
    <3>3. k .. n \in T /\ k .. n \subseteq 1 .. n /\ m .. n \subseteq 1 .. n
      OBVIOUS
    <3>4. <<k .. n, z>> \in StrictSubsetOrdering(1 .. n)
      BY <1>4, <3>1, <3>2, <3>3 DEF StrictSubsetOrdering
    <3> QED BY <1>3, <3>3, <3>4
  <2> QED BY <2>1
<1> QED BY <1>5

LEMMA UltimaBien ==
  ASSUME programa \in Programas, NEW i \in Int, NEW n, Tocada(i, n)
  PROVE  /\ Ultima(i, n) \in Envios /\ Ultima(i, n) < i /\ Toca(Ultima(i, n), n)
         /\ \A k \in Envios : Ultima(i, n) < k /\ k < i => ~Toca(k, n)
<1> DEFINE S == {j \in Envios : j < i /\ Toca(j, n)}
<1>1. S \in SUBSET (1 .. Len(programa)) /\ Len(programa) \in Nat
  BY DelPrograma
<1>2. S # {}
  BY DEF Tocada
<1>3. \E m \in S : \A k \in S : k <= m
  <2> HIDE DEF S
  <2> QED BY <1>1, <1>2, Ultimo
<1>4. \E j \in Envios : /\ j < i /\ Toca(j, n)
                        /\ \A k \in Envios : j < k /\ k < i => ~Toca(k, n)
  <2>1. PICK m \in S : \A k \in S : k <= m
    BY <1>3
  <2>2. ASSUME NEW k \in Envios, m < k, k < i PROVE ~Toca(k, n)
    <3>1. ~(k <= m)
      BY <2>2, DelPrograma
    <3> QED BY <3>1, <2>1, <2>2
  <2> QED BY <2>1, <2>2
<1> QED BY <1>4 DEF Ultima

\* One request touches the figure it names and no other.
LEMMA Avanza ==
  ASSUME programa \in Programas, NEW i \in Envios, NEW k \in Int, Num(k) = Num(i) + 1, NEW n
  PROVE  /\ Toca(i, n) => Existe(k, n) = (Texto(i)[1] = "ADD") /\ Cuerpo(k, n) = Texto(i)[3]
         /\ ~Toca(i, n) => Existe(k, n) = Existe(i, n) /\ Cuerpo(k, n) = Cuerpo(i, n)
<1>1. \A j \in Envios : j \in Int
  BY DelPrograma
<1>2. ASSUME NEW j \in Envios PROVE j < k <=> j < i \/ j = i
  <2>1. /\ j \in Int /\ i \in Int /\ Num(j) \in Nat /\ Num(i) \in Nat
        /\ (j < k <=> Num(j) < Num(k)) /\ (i < j <=> Num(i) < Num(j))
    BY <1>1, Numeros
  <2> QED BY <2>1
<1>3. CASE Toca(i, n)
  <2>1. Tocada(k, n)
    BY <1>2, <1>3 DEF Tocada
  <2>2. /\ Ultima(k, n) \in Envios /\ Ultima(k, n) < k
        /\ \A j \in Envios : Ultima(k, n) < j /\ j < k => ~Toca(j, n)
    BY <2>1, UltimaBien
  <2>3. Ultima(k, n) = i
    BY <2>2, <1>1, <1>2, <1>3
  <2> QED BY <1>3, <2>1, <2>3 DEF Existe, Cuerpo
<1>4. CASE ~Toca(i, n)
  <2>1. Tocada(k, n) = Tocada(i, n)
    BY <1>1, <1>2, <1>4 DEF Tocada
  <2>2. ASSUME NEW j \in Envios
        PROVE  (j < k /\ Toca(j, n) /\ \A h \in Envios : j < h /\ h < k => ~Toca(h, n))
               <=> (j < i /\ Toca(j, n) /\ \A h \in Envios : j < h /\ h < i => ~Toca(h, n))
    BY <1>1, <1>2, <1>4
  <2>3. Ultima(k, n) = Ultima(i, n)
    BY <2>2 DEF Ultima
  <2> QED BY <1>4, <2>1, <2>3 DEF Existe, Cuerpo
<1> QED BY <1>3, <1>4

LEMMA CuerpoBien ==
  ASSUME programa \in Programas, NEW i \in Int, NEW n \in Figuras, Existe(i, n)
  PROVE  Cuerpo(i, n) \in Cuerpos
<1>1. CASE Tocada(i, n)
  <2>1. /\ Ultima(i, n) \in Envios /\ Toca(Ultima(i, n), n)
    BY <1>1, UltimaBien
  <2>2. Texto(Ultima(i, n)) \in Comandos /\ Texto(Ultima(i, n))[1] = "ADD"
    BY <2>1, <1>1, DelPrograma DEF Existe, Texto
  <2>3. Texto(Ultima(i, n))[3] \in Cuerpos
    BY <2>1, <2>2, Textos DEF Toca
  <2> QED BY <1>1, <2>3 DEF Cuerpo
<1>2. CASE ~Tocada(i, n)
  BY <1>2, SimulacionValida DEF Cuerpo
<1> QED BY <1>1, <1>2

\* What is due to each call is an answer to its client, and not the sentinel.
LEMMA Mensajes ==
  ASSUME programa \in Programas, NEW i \in Envios
  PROVE  /\ Pedidos[i] \in Peticiones /\ ~EsCentinela(Pedidos[i])
         /\ Debidas[i] \in Respuestas /\ ~EsCentinela(Debidas[i])
         /\ Debidas[i].client_id = programa[i][2].client_id /\ Debidas[i].texto = Esperada(i)
         /\ Pedidos[i].client_id = programa[i][2].client_id /\ Pedidos[i].texto = Texto(i)
         /\ Esperada(i) \in Salidas
         /\ Cardinality({j \in Envios : j <= i}) = Num(i) + 1
<1>1. /\ i \in Int /\ programa[i][2] \in Peticiones /\ programa[i][2].client_id \in Clientes
      /\ programa[i][2].client_id # "centinela" /\ Texto(i) \in Comandos
  BY DelPrograma, SimulacionValida DEF Texto
<1>2. Cardinality({j \in Envios : j <= i}) = Num(i) + 1 /\ Num(i) + 1 \in 1 .. MaxLlamadas
  <2>1. \A j \in Envios : j \in Int /\ (j <= i <=> j < i + 1)
    BY <1>1, DelPrograma
  <2>2. {j \in Envios : j <= i} = Previos(i + 1)
    BY <2>1 DEF Previos
  <2>3. Num(i + 1) = Num(i) + 1 /\ Num(i) \in Nat
    BY <1>1, Numeros
  <2>4. Num(i + 1) <= Num(Len(programa) + 1) /\ Num(Len(programa) + 1) \in Nat
    BY <1>1, DelPrograma, Numeros
  <2>5. Num(i) + 1 \in 1 .. MaxLlamadas
    <3>1. Num(Len(programa) + 1) <= MaxLlamadas
      BY Numeros
    <3> QED BY <2>3, <2>4, <3>1, SimulacionValida
  <2> QED BY <2>2, <2>3, <2>5 DEF Num
<1>3. Esperada(i) \in Salidas
  <2>1. Existentes(i) \in SUBSET Figuras
    BY DEF Existentes
  <2>2. CASE Texto(i)[1] = "GET"
    <3>1. Texto(i)[2] \in Figuras
      BY <1>1, <2>2, Textos
    <3>2. Existe(i, Texto(i)[2]) => Cuerpo(i, Texto(i)[2]) \in Cuerpos
      BY <1>1, <3>1, CuerpoBien
    <3> QED BY <2>2, <3>1, <3>2 DEF Esperada, Salidas
  <2>3. CASE Texto(i)[1] \in {"ADD", "DEL"}
    <3>1. Len(Texto(i)) > 1 => Texto(i)[2] \in Figuras
      BY <1>1, Textos
    <3>2. Texto(i)[1] = "DEL" => Len(Texto(i)) = 2
      BY <1>1, Textos
    <3> QED BY <2>3, <3>1, <3>2 DEF Esperada, Salidas
  <2>4. CASE Texto(i)[1] = "STATS"
    BY <2>1, <2>4, <1>2 DEF Esperada, Salidas
  <2>5. CASE Texto(i)[1] = "LIST"
    BY <2>1, <2>5 DEF Esperada, Salidas
  <2>6. CASE Texto(i)[1] \notin {"GET", "ADD", "DEL", "STATS", "LIST"}
    BY <2>6 DEF Esperada, Salidas
  <2> QED BY <2>2, <2>3, <2>4, <2>5, <2>6
<1> QED BY <1>1, <1>2, <1>3 DEF Pedidos, Debidas, Respuestas, Peticiones, EsCentinela, Texto

(***************************************************************************)
(* What a step leaves alone.                                               *)
(***************************************************************************)
LEMMA PedidosQuietos ==
  ASSUME PedidosEnOrden, programa' = programa, requests_' = requests_,
         reqQ'.queue_ = reqQ.queue_, Tomadas' = Tomadas, Metidas' = Metidas,
         pc'["servidor"] = "atender" => pc["servidor"] = "atender" /\ req' = req
  PROVE  PedidosEnOrden'
BY Fijo DEF PedidosEnOrden

LEMMA AlmacenQuieto ==
  ASSUME AlmacenAlDia, programa' = programa, requests_' = requests_, store_' = store_
  PROVE  AlmacenAlDia'
BY Fijo DEF AlmacenAlDia, Nombres

LEMMA RespuestasQuietas ==
  ASSUME RespuestasEnFila, programa' = programa, requests_' = requests_,
         respQ'.queue_ = respQ.queue_, Recibidas' = Recibidas, Dadas' = Dadas,
         pc'["servidor"] = "responder" => pc["servidor"] = "responder" /\ req' = req,
         pc'["tenedor"] = "entregar" => pc["tenedor"] = "entregar" /\ resp' = resp
  PROVE  RespuestasEnFila'
BY Fijo DEF RespuestasEnFila

LEMMA EntregasQuietas ==
  ASSUME Entregas, programa' = programa, entregas' = entregas, Dadas' = Dadas
  PROVE  Entregas'
<1>1. \A c : Servidos(c)' = Servidos(c)
  BY Fijo DEF Servidos
<1> QED BY <1>1, Fijo DEF Entregas

LEMMA RegistradosQuietos ==
  ASSUME Registrados, programa' = programa, pos' = pos, clients_' = clients_,
         pc'["main"] \in {"encolar", "senalar reqQ"} => pc["main"] \in {"encolar", "senalar reqQ"}
  PROVE  Registrados'
BY Fijo DEF Registrados

LEMMA CierreQuieto ==
  ASSUME Cierre, programa' = programa, pos' = pos,
         reqQ'.queue_ = reqQ.queue_, respQ'.queue_ = respQ.queue_, Metidas' = Metidas,
         \A h \in {"servidor", "tenedor"} : pc'[h] = "fin" <=> pc[h] = "fin"
  PROVE  Cierre'
BY Fijo DEF Cierre

\* main goes on; the counts depend on the rest.
LEMMA CuentasDeMain ==
  ASSUME programa' = programa, requests_' = requests_, respQ'.queue_ = respQ.queue_,
         \A h \in {"servidor", "tenedor"} : pc'[h] = pc[h]
  PROVE  /\ Tomadas' = Tomadas /\ Contestadas' = Contestadas
         /\ Recibidas' = Recibidas /\ Dadas' = Dadas
BY DEF Tomadas, Contestadas, Recibidas, Dadas

LEMMA CuentaDeMetidas ==
  ASSUME programa' = programa, pos' = pos, pc'["main"] = pc["main"]
  PROVE  Metidas' = Metidas
BY Fijo DEF Metidas, Num, Previos
-----------------------------------------------------------------------------
(***************************************************************************)
(* The first state.                                                        *)
(***************************************************************************)
LEMMA Comienzo == Init => EnOrden /\ Cierre
<1> SUFFICES ASSUME Init PROVE EnOrden /\ Cierre
  OBVIOUS
<1>1. /\ programa \in Programas /\ pos = 1 /\ requests_ = 0 /\ clients_ = {}
      /\ reqQ.queue_ = <<>> /\ respQ.queue_ = <<>>
      /\ reqQ.canConsume_ = 0 /\ respQ.canConsume_ = 0
      /\ pc["main"] = "llamar" /\ pc["servidor"] = "esperar" /\ pc["tenedor"] = "esperar"
      /\ store_ = Almacen /\ entregas = [c \in Clientes |-> <<>>]
  BY DEF Init, ReqQ!ColaVacia, RespQ!ColaVacia
<1>2. Lugares
  <2>1. Len(programa) \in Nat
    BY <1>1, DelPrograma
  <2> QED BY <1>1, <2>1 DEF Lugares, Init
<1>3. Colas
  BY DEF Init, Colas, ColaDe, ReqQ!ColaVacia, RespQ!ColaVacia
<1>4. Ordenes(<<>>, 0) = 0 /\ Todas(<<>>) = 0
  <2>1. Ordenes(<<>>, 0) = 0
    BY UnaMas
  <2> QED BY <2>1 DEF Todas
<1>5. Metidas = 0 /\ Tomadas = 0 /\ Contestadas = 0 /\ Recibidas = 0 /\ Dadas = 0
  BY <1>1, <1>4, Numeros DEF Metidas, Tomadas, Contestadas, Recibidas, Dadas
<1>6. PedidosEnOrden
  BY <1>1, <1>4, <1>5 DEF PedidosEnOrden, EnFila
<1>7. AlmacenAlDia
  <2>1. Nombres = {Precargada} /\ store_[Precargada] = Dibujo
    BY <1>1 DEF Nombres, Almacen
  <2>2. ASSUME NEW i \in 1 .. Len(programa) + 1, Num(i) = 0, NEW n PROVE ~Tocada(i, n)
    <3>1. ASSUME NEW j \in Envios PROVE ~(j < i)
      <4>1. i \in Int /\ Num(j) \in Nat /\ (j < i <=> Num(j) < Num(i))
        BY <1>1, DelPrograma, Numeros
      <4> QED BY <4>1, <2>2
    <3> QED BY <3>1 DEF Tocada
  <2>3. ASSUME NEW i \in 1 .. Len(programa) + 1, Num(i) = 0
        PROVE  Nombres = Existentes(i) /\ \A n \in Nombres : store_[n] = Cuerpo(i, n)
    BY <2>1, <2>2, <2>3, SimulacionValida DEF Existentes, Existe, Cuerpo
  <2> QED BY <1>1, <2>1, <2>3, SimulacionValida DEF AlmacenAlDia
<1>8. RespuestasEnFila
  BY <1>1, <1>5 DEF RespuestasEnFila, EnFila
<1>9. Entregas
  <2>1. ASSUME NEW i \in Envios PROVE ~(Num(i) < 0)
    <3>1. Num(i) \in Nat
      BY <1>1, DelPrograma, Numeros
    <3> QED BY <3>1
  <2>2. \A c \in Clientes : Servidos(c) = {}
    BY <1>5, <2>1 DEF Servidos, EnviosDe
  <2>3. \A c \in Clientes : \A i \in EnviosDe(c) : ~(Num(i) < 0)
    BY <2>1 DEF EnviosDe
  <2>4. entregas \in [Clientes -> Seq(Salidas)] /\ \A c \in Clientes : Len(entregas[c]) = 0
    BY <1>1
  <2>5. \A c \in Clientes : Len(entregas[c]) = Cardinality(Servidos(c))
    BY <2>2, <2>4, FS_EmptySet
  <2>6. \A c \in Clientes : \A i \in EnviosDe(c) : ~(Num(i) < Dadas)
    BY <1>5, <2>3
  <2> QED BY <2>4, <2>5, <2>6 DEF Entregas
<1>10. Registrados
  <2>1. \A i \in Envios : ~(i < 1)
    BY <1>1, DelPrograma
  <2> QED BY <1>1, <2>1 DEF Registrados
<1>11. Cierre
  BY <1>1 DEF Cierre, NadaTras, HayCentinela
<1> QED BY <1>2, <1>3, <1>6, <1>7, <1>8, <1>9, <1>10, <1>11 DEF EnOrden

\* What the queue's operations make of its parts.
LEMMA MeteUno ==
  ASSUME NEW S, NEW q \in ColaDe(S), NEW e \in S
  PROVE  /\ q.queue_ \in Seq(S)
         /\ ReqQ!Meter(q, e) \in ColaDe(S) /\ ReqQ!Meter(q, e).queue_ = Append(q.queue_, e)
         /\ RespQ!Meter(q, e) \in ColaDe(S) /\ RespQ!Meter(q, e).queue_ = Append(q.queue_, e)
<1>1. PICK s \in Seq(S), n \in Nat : q = [queue_ |-> s, canConsume_ |-> n]
  BY DEF ColaDe
<1>2. /\ ReqQ!Meter(q, e) = [queue_ |-> Append(s, e), canConsume_ |-> n]
      /\ RespQ!Meter(q, e) = [queue_ |-> Append(s, e), canConsume_ |-> n]
      /\ Append(s, e) \in Seq(S) /\ q.queue_ = s
  BY <1>1 DEF ReqQ!Meter, RespQ!Meter
<1>3. ASSUME NEW t \in Seq(S), NEW m \in Nat
      PROVE  LET r == [queue_ |-> t, canConsume_ |-> m] IN r \in ColaDe(S) /\ r.queue_ = t
  BY DEF ColaDe
<1> QED BY <1>2, <1>3

LEMMA Partes ==
  ASSUME NEW S, NEW q \in ColaDe(S)
  PROVE  /\ q.queue_ \in Seq(S)
         /\ ReqQ!Senalar(q) \in ColaDe(S) /\ RespQ!Senalar(q) \in ColaDe(S)
         /\ ReqQ!Senalar(q).queue_ = q.queue_ /\ RespQ!Senalar(q).queue_ = q.queue_
         /\ q.canConsume_ > 0 =>
              /\ ReqQ!Tomar(q) \in ColaDe(S) /\ RespQ!Tomar(q) \in ColaDe(S)
              /\ ReqQ!Tomar(q).queue_ = q.queue_ /\ RespQ!Tomar(q).queue_ = q.queue_
         /\ q.queue_ # <<>> =>
              /\ ReqQ!Sacar(q) \in ColaDe(S) /\ RespQ!Sacar(q) \in ColaDe(S)
              /\ ReqQ!Sacar(q).queue_ = Tail(q.queue_) /\ RespQ!Sacar(q).queue_ = Tail(q.queue_)
<1>1. PICK s \in Seq(S), n \in Nat : q = [queue_ |-> s, canConsume_ |-> n]
  BY DEF ColaDe
<1>2. ASSUME NEW t \in Seq(S), NEW m \in Nat PROVE [queue_ |-> t, canConsume_ |-> m] \in ColaDe(S)
  BY DEF ColaDe
<1>4. /\ ReqQ!Senalar(q) = [queue_ |-> s, canConsume_ |-> n + 1]
      /\ RespQ!Senalar(q) = [queue_ |-> s, canConsume_ |-> n + 1]
      /\ ReqQ!Tomar(q) = [queue_ |-> s, canConsume_ |-> n - 1]
      /\ RespQ!Tomar(q) = [queue_ |-> s, canConsume_ |-> n - 1]
  BY <1>1 DEF ReqQ!Senalar, RespQ!Senalar, ReqQ!Tomar, RespQ!Tomar
<1>5. /\ ReqQ!Sacar(q) = [queue_ |-> Tail(s), canConsume_ |-> n]
      /\ RespQ!Sacar(q) = [queue_ |-> Tail(s), canConsume_ |-> n]
  <2>1. \A t : [q EXCEPT !.queue_ = t] = [queue_ |-> t, canConsume_ |-> n]
    BY <1>1
  <2>2. q.queue_ = s
    BY <1>1
  <2> QED BY <2>1, <2>2, Zenon DEF ReqQ!Sacar, RespQ!Sacar
<1>a. s # <<>> => Tail(s) \in Seq(S)
  OBVIOUS
<1>b. \A t, m : [queue_ |-> t, canConsume_ |-> m].queue_ = t
  OBVIOUS
<1>6. n + 1 \in Nat /\ (n > 0 => n - 1 \in Nat) /\ q.queue_ = s /\ q.canConsume_ = n
  BY <1>1
<1>8. ReqQ!Senalar(q) \in ColaDe(S) /\ RespQ!Senalar(q) \in ColaDe(S)
      /\ ReqQ!Senalar(q).queue_ = q.queue_ /\ RespQ!Senalar(q).queue_ = q.queue_
  BY <1>2, <1>4, <1>6
<1>9. q.canConsume_ > 0 =>
        /\ ReqQ!Tomar(q) \in ColaDe(S) /\ RespQ!Tomar(q) \in ColaDe(S)
        /\ ReqQ!Tomar(q).queue_ = q.queue_ /\ RespQ!Tomar(q).queue_ = q.queue_
  BY <1>2, <1>4, <1>6
<1>10. q.queue_ # <<>> =>
         /\ ReqQ!Sacar(q) \in ColaDe(S) /\ RespQ!Sacar(q) \in ColaDe(S)
         /\ ReqQ!Sacar(q).queue_ = Tail(q.queue_) /\ RespQ!Sacar(q).queue_ = Tail(q.queue_)
  BY <1>2, <1>5, <1>6, <1>a, <1>b, Zenon
<1> QED BY <1>6, <1>8, <1>9, <1>10

-----------------------------------------------------------------------------
(***************************************************************************)
(* The steps of main.                                                      *)
(***************************************************************************)
LEMMA PasoSubmitRegistrar ==
  ASSUME EnOrden, Cierre, SubmitRegistrar
  PROVE  EnOrden' /\ Cierre'
<1>1. /\ programa \in Programas /\ pos \in Envios /\ programa[pos][2].client_id \in Clientes
      /\ pc["main"] = "llamar" /\ programa' = programa /\ pos' = pos
      /\ requests_' = requests_ /\ store_' = store_ /\ entregas' = entregas
      /\ reqQ' = reqQ /\ respQ' = respQ /\ req' = req /\ resp' = resp
      /\ clients_' = clients_ \cup {programa[pos][2].client_id}
  <2>1. programa \in Programas /\ pos \in Envios
    <3>1. programa \in Programas /\ pos \in 1 .. Len(programa) + 1 /\ Llamada("send")
      BY DEF EnOrden, Lugares, SubmitRegistrar
    <3>2. Len(programa) \in Nat
      BY <3>1, DelPrograma
    <3> QED BY <3>1, <3>2 DEF Llamada, Envios
  <2> QED BY <2>1, DelPrograma DEF SubmitRegistrar, mainVars, servidorVars, Registro, Objeto
<1>2. /\ pc'["main"] = "encolar"
      /\ \A h \in {"servidor", "tenedor"} : pc'[h] = pc[h]
      /\ Lugares'
  BY <1>1, Mueve, Fijo DEF SubmitRegistrar, EnOrden, Lugares
<1>3. /\ Tomadas' = Tomadas /\ Recibidas' = Recibidas /\ Dadas' = Dadas
  BY <1>1, <1>2, CuentasDeMain
<1>4. Metidas' = Metidas
  BY <1>1, <1>2, Fijo DEF Metidas, Num, Previos
<1>5. Colas' /\ PedidosEnOrden' /\ AlmacenAlDia' /\ RespuestasEnFila' /\ Entregas' /\ Cierre'
  BY <1>1, <1>2, <1>3, <1>4, PedidosQuietos, AlmacenQuieto, RespuestasQuietas,
     EntregasQuietas, CierreQuieto DEF EnOrden, Colas
<1>6. Registrados'
  BY <1>1, <1>2, Fijo, DelPrograma DEF EnOrden, Registrados
<1> QED BY <1>2, <1>5, <1>6 DEF EnOrden

LEMMA PasoSubmitEncolar ==
  ASSUME EnOrden, Cierre, SubmitEncolar
  PROVE  EnOrden' /\ Cierre'
<1> DEFINE q == reqQ.queue_
<1>1. /\ programa \in Programas /\ pos \in Envios /\ pos \in Int /\ pc["main"] = "encolar"
      /\ programa' = programa /\ pos' = pos /\ clients_' = clients_
      /\ requests_' = requests_ /\ store_' = store_ /\ entregas' = entregas
      /\ respQ' = respQ /\ req' = req /\ resp' = resp
  BY DelPrograma
     DEF SubmitEncolar, mainVars, servidorVars, tenedorVars, EnOrden, Lugares
<1>2. /\ q \in Seq(Peticiones \cup {Centinela}) /\ Pedidos[pos] \in Peticiones
      /\ ~EsCentinela(Pedidos[pos]) /\ Objeto = Pedidos[pos]
  BY <1>1, Mensajes, Partes DEF EnOrden, Colas, Objeto, Pedidos
<1>3. /\ reqQ'.queue_ = Append(q, Pedidos[pos])
      /\ reqQ' \in ColaDe(Peticiones \cup {Centinela})
  <2> DEFINE S == Peticiones \cup {Centinela}
             e == Pedidos[pos]
  <2>1. reqQ \in ColaDe(S) /\ e \in S /\ reqQ' = ReqQ!Meter(reqQ, e)
    BY <1>2 DEF SubmitEncolar, EnOrden, Colas
  <2> HIDE DEF S, e
  <2>2. reqQ'.queue_ = Append(q, e) /\ reqQ' \in ColaDe(S)
    BY <2>1, MeteUno, Zenon
  <2> QED BY <2>2 DEF S, e
<1>4. /\ pc'["main"] = "senalar reqQ"
      /\ \A h \in {"servidor", "tenedor"} : pc'[h] = pc[h]
      /\ Lugares'
  BY <1>1, Mueve, Fijo DEF SubmitEncolar, EnOrden, Lugares
<1>5. Colas'
  BY <1>1, <1>3 DEF EnOrden, Colas
<1>6. /\ Tomadas' = Tomadas /\ Recibidas' = Recibidas /\ Dadas' = Dadas
  BY <1>1, <1>4, CuentasDeMain
<1>7. Metidas = Num(pos) /\ Metidas' = Num(pos + 1) /\ Num(pos + 1) = Num(pos) + 1
      /\ Num(pos) \in Nat
  BY <1>1, <1>4, Numeros, Fijo DEF Metidas, Num, Previos
<1>8. Tomadas \in Nat /\ Todas(q) \in Nat /\ Num(pos) = Tomadas + Todas(q)
  BY <1>7, <1>2, Contadas, LenProperties DEF EnOrden, PedidosEnOrden, Tomadas, Todas
<1>9. PedidosEnOrden'
  <2>1. /\ EnFila(Append(q, Pedidos[pos]), Pedidos, Tomadas)
        /\ Todas(Append(q, Pedidos[pos])) = Todas(q) + 1
    BY <1>1, <1>2, <1>8, ColaMete DEF EnOrden, PedidosEnOrden
  <2>2. EnFila(reqQ.queue_, Pedidos, Tomadas)'
    BY <1>1, <1>3, <1>6, <2>1, Fijo
  <2>3. Tomadas' + Todas(reqQ'.queue_) = Metidas'
    BY <1>3, <1>6, <1>7, <1>8, <2>1
  <2> QED BY <1>1, <1>4, <2>2, <2>3, Fijo DEF EnOrden, PedidosEnOrden
<1>10. AlmacenAlDia' /\ RespuestasEnFila' /\ Entregas' /\ Registrados'
  BY <1>1, <1>4, <1>6, AlmacenQuieto, RespuestasQuietas, EntregasQuietas, RegistradosQuietos
     DEF EnOrden
<1>11. Cierre'
  <2>1. CierraBien => Num(pos) < Num(Len(programa) + 1)
    <3>1. pos \in Envios /\ Len(programa) + 1 \in Int /\ pos < Len(programa) + 1
      BY <1>1, DelPrograma
    <3>2. QED BY ONLY <1>1, <3>1, Numeros
  <2>2. ASSUME CierraBien PROVE ~HayCentinela(q) /\ pc["servidor"] # "fin"
    BY <1>7, <2>1, <2>2 DEF Cierre
  <2>3. ASSUME CierraBien PROVE ~HayCentinela(reqQ'.queue_)
    BY <1>2, <1>3, <2>2, <2>3, AppendProperties, LenProperties DEF HayCentinela
  <2>4. ASSUME CierraBien PROVE NadaTras(reqQ'.queue_, FALSE)
    <3>1. \A k \in DOMAIN reqQ'.queue_ : ~EsCentinela(reqQ'.queue_[k])
      BY <2>3, <2>4 DEF HayCentinela
    <3>2. \A k \in DOMAIN reqQ'.queue_ : \A j \in 1 .. k - 1 : j \in DOMAIN reqQ'.queue_
      BY <1>3, LenProperties
    <3> QED BY <3>1, <3>2 DEF NadaTras
  <2>5. CierraBien' = CierraBien /\ pc'["servidor"] = pc["servidor"]
        /\ pc'["tenedor"] = pc["tenedor"] /\ (HayCentinela(respQ.queue_)' <=> HayCentinela(respQ.queue_))
    BY <1>1, <1>4, Fijo
  <2> QED BY <1>1, <2>2, <2>3, <2>4, <2>5 DEF Cierre
<1> QED BY <1>4, <1>5, <1>9, <1>10, <1>11 DEF EnOrden

(***************************************************************************)
(* What a push and a pop do to the sentinels of a queue.                   *)
(***************************************************************************)
LEMMA UltimaCentinela ==
  ASSUME NEW S, NEW q \in Seq(S), NEW e \in S
  PROVE  /\ \A t \in BOOLEAN : EsCentinela(e) /\ NadaTras(q, t) => NadaTras(Append(q, e), t)
         /\ ~EsCentinela(e) /\ ~HayCentinela(q) =>
              NadaTras(Append(q, e), FALSE) /\ ~HayCentinela(Append(q, e))
<1> DEFINE r == Append(q, e)
           n == Len(q)
<1>1. /\ n \in Nat /\ DOMAIN q = 1 .. n /\ r \in Seq(S) /\ DOMAIN r = 1 .. n + 1
      /\ \A j \in 1 .. n : r[j] = q[j]
      /\ r[n + 1] = e
  BY AppendProperties, LenProperties
<1> HIDE DEF r, n
<1>2. ASSUME NEW t \in BOOLEAN, EsCentinela(e), NadaTras(q, t) PROVE NadaTras(r, t)
  <2> SUFFICES ASSUME NEW k \in 1 .. n + 1, t \/ \E j \in 1 .. k - 1 : EsCentinela(r[j])
               PROVE  EsCentinela(r[k])
    BY <1>1 DEF NadaTras
  <2>1. CASE k = n + 1
    BY <1>1, <1>2, <2>1
  <2>2. CASE k \in 1 .. n
    <3>1. \A j \in 1 .. k - 1 : r[j] = q[j]
      BY <1>1, <2>2
    <3> QED BY <1>1, <1>2, <2>2, <3>1 DEF NadaTras
  <2> QED BY <2>1, <2>2, <1>1
<1>3. ASSUME ~EsCentinela(e), ~HayCentinela(q)
      PROVE  NadaTras(r, FALSE) /\ ~HayCentinela(r)
  <2>1. ASSUME NEW k \in 1 .. n + 1 PROVE ~EsCentinela(r[k])
    <3>1. k \in 1 .. n \/ k = n + 1
      BY <1>1
    <3> QED BY <1>1, <1>3, <3>1 DEF HayCentinela
  <2> QED BY <2>1, <1>1 DEF NadaTras, HayCentinela
<1> QED BY <1>2, <1>3 DEF r

LEMMA PrimeraCentinela ==
  ASSUME NEW S, NEW q \in Seq(S), q # <<>>
  PROVE  /\ HayCentinela(Tail(q)) \/ EsCentinela(Head(q)) => HayCentinela(q)
         /\ NadaTras(q, FALSE) => NadaTras(Tail(q), EsCentinela(Head(q)))
<1> DEFINE r == Tail(q)
           n == Len(r)
<1>1. /\ n \in Nat /\ DOMAIN q = 1 .. n + 1 /\ r \in Seq(S) /\ DOMAIN r = 1 .. n
      /\ \A j \in 1 .. n : r[j] = q[j + 1]
      /\ q[1] = Head(q)
  BY HeadTailProperties, LenProperties
<1> HIDE DEF r, n
<1>2. \A j \in 1 .. n : j + 1 \in 1 .. n + 1
  BY <1>1
<1>3. ASSUME HayCentinela(r) \/ EsCentinela(Head(q)) PROVE HayCentinela(q)
  <2>1. 1 \in DOMAIN q
    BY <1>1
  <2> QED BY <1>1, <1>2, <1>3, <2>1 DEF HayCentinela
<1>4. ASSUME NadaTras(q, FALSE) PROVE NadaTras(r, EsCentinela(Head(q)))
  <2> SUFFICES ASSUME NEW k \in 1 .. n,
                      EsCentinela(Head(q)) \/ \E j \in 1 .. k - 1 : EsCentinela(r[j])
               PROVE  EsCentinela(r[k])
    BY <1>1 DEF NadaTras
  <2>1. \E j \in 1 .. (k + 1) - 1 : EsCentinela(q[j])
    <3>1. CASE EsCentinela(Head(q))
      <4>1. 1 \in 1 .. (k + 1) - 1 /\ EsCentinela(q[1])
        BY <1>1, <3>1
      <4> QED BY <4>1
    <3>2. CASE \E j \in 1 .. k - 1 : EsCentinela(r[j])
      <4>1. PICK j \in 1 .. k - 1 : EsCentinela(r[j])
        BY <3>2
      <4>2. j + 1 \in 1 .. (k + 1) - 1 /\ r[j] = q[j + 1]
        BY <4>1, <1>1
      <4> QED BY <4>1, <4>2
    <3> QED BY <3>1, <3>2
  <2>2. k + 1 \in DOMAIN q
    BY <1>1
  <2>3. EsCentinela(q[k + 1])
    BY <2>1, <2>2, <1>4 DEF NadaTras
  <2> QED BY <2>3, <1>1
<1> QED BY <1>3, <1>4 DEF r

LEMMA LaCentinela == EsCentinela(Centinela)
BY DEF EsCentinela, Centinela

LEMMA Uno ==
  /\ \A n \in Int : \A j \in 1 .. (n + 1) - 1 : j \in 1 .. n - 1 \/ j = n
  /\ \A i, n \in Int : i < n + 1 => i < n \/ i = n
  /\ \A n \in Int, l \in Nat : n >= 1 /\ n <= l => n + 1 \in 1 .. l + 1 /\ n \in 1 .. l
  /\ \A l \in Nat : \A n \in 1 .. l + 1 : n \in Int /\ n >= 1
OBVIOUS

\* A call that is not a request.
LEMMA LlamadaSuya ==
  ASSUME Lugares, NEW f \in {"stop", "waitToFinish"}, Llamada(f)
  PROVE  /\ pos \in Int /\ pos >= 1 /\ pos <= Len(programa) /\ pos \notin Envios
         /\ Len(programa) \in Nat /\ Objeto \in {"servidor", "tenedor"}
         /\ programa[pos] = <<f, Objeto>> /\ Num(pos + 1) = Num(pos)
<1>1. pos \in 1 .. Len(programa) + 1 /\ Len(programa) \in Nat /\ pos <= Len(programa)
      /\ programa \in Programas
  BY DelPrograma DEF Lugares, Llamada
<1>2. programa[pos] \in Llamadas /\ programa[pos][1] = f
  BY <1>1, DelPrograma DEF Llamada
<1>3. programa[pos] = <<f, Objeto>> /\ Objeto \in {"servidor", "tenedor"}
  BY <1>2 DEF Llamadas, Objeto
<1>4. pos \notin Envios
  BY <1>2 DEF Envios
<1> QED BY <1>1, <1>3, <1>4, Numeros

LEMMA PasoServidorStop ==
  ASSUME EnOrden, Cierre, ServidorStop
  PROVE  EnOrden' /\ Cierre'
<1> DEFINE q == reqQ.queue_
<1>1. /\ programa \in Programas /\ pos \in Int /\ pc["main"] = "llamar" /\ pos \notin Envios
      /\ pos >= 1 /\ pos <= Len(programa) /\ Len(programa) \in Nat
      /\ programa[pos] = <<"stop", "servidor">> /\ Num(pos + 1) = Num(pos)
      /\ programa' = programa /\ pos' = pos /\ clients_' = clients_
      /\ requests_' = requests_ /\ store_' = store_ /\ entregas' = entregas
      /\ respQ' = respQ /\ req' = req /\ resp' = resp
  BY LlamadaSuya
     DEF ServidorStop, mainVars, servidorVars, tenedorVars, EnOrden, Lugares
<1>2. /\ q \in Seq(Peticiones \cup {Centinela})
      /\ reqQ'.queue_ = Append(q, Centinela) /\ reqQ' \in ColaDe(Peticiones \cup {Centinela})
  <2> DEFINE S == Peticiones \cup {Centinela}
  <2>1. reqQ \in ColaDe(S) /\ Centinela \in S /\ reqQ' = ReqQ!Meter(reqQ, Centinela)
    BY DEF ServidorStop, EnOrden, Colas
  <2> HIDE DEF S
  <2>2. q \in Seq(S) /\ reqQ'.queue_ = Append(q, Centinela) /\ reqQ' \in ColaDe(S)
    BY <2>1, MeteUno, Zenon
  <2> QED BY <2>2 DEF S
<1>3. /\ pc'["main"] = "senalar reqQ"
      /\ \A h \in {"servidor", "tenedor"} : pc'[h] = pc[h]
      /\ Lugares'
  BY <1>1, Mueve, Fijo DEF ServidorStop, EnOrden, Lugares
<1>4. Colas'
  BY <1>1, <1>2 DEF EnOrden, Colas
<1>5. /\ Tomadas' = Tomadas /\ Recibidas' = Recibidas /\ Dadas' = Dadas
  BY <1>1, <1>3, CuentasDeMain
<1>6. Metidas = Num(pos) /\ Metidas' = Num(pos)
  BY <1>1, <1>3, Fijo DEF Metidas, Num, Previos
<1>7. Tomadas \in Nat
  BY DEF EnOrden, PedidosEnOrden, Tomadas
<1>8. PedidosEnOrden'
  <2>1. EnFila(Append(q, Centinela), Pedidos, Tomadas) /\ Todas(Append(q, Centinela)) = Todas(q)
    BY <1>2, <1>7, ColaMete, LaCentinela DEF EnOrden, PedidosEnOrden
  <2>2. EnFila(reqQ.queue_, Pedidos, Tomadas)'
    BY <1>1, <1>2, <1>5, <2>1, Fijo
  <2>3. Tomadas' + Todas(reqQ'.queue_) = Metidas'
    BY <1>2, <1>5, <1>6, <2>1 DEF EnOrden, PedidosEnOrden
  <2> QED BY <1>1, <1>3, <2>2, <2>3, Fijo DEF EnOrden, PedidosEnOrden
<1>9. AlmacenAlDia' /\ RespuestasEnFila' /\ Entregas'
  BY <1>1, <1>3, <1>5, AlmacenQuieto, RespuestasQuietas, EntregasQuietas DEF EnOrden
<1>10. Registrados'
  BY <1>1, Fijo DEF EnOrden, Registrados
<1>11. Cierre'
  <2>1. ASSUME CierraBien PROVE Num(pos) = Num(Len(programa) + 1)
    <3>1. ASSUME NEW i \in Envios PROVE i < pos /\ i < Len(programa) + 1
      <4>1. ~(pos \in 1 .. i) /\ i \in Int /\ i <= Len(programa)
        BY <1>1, <2>1, DelPrograma DEF CierraBien
      <4> QED BY <4>1, <1>1
    <3>2. Previos(pos) = Previos(Len(programa) + 1)
      BY <3>1 DEF Previos
    <3> QED BY <3>2 DEF Num
  <2>2. ASSUME CierraBien PROVE NadaTras(reqQ'.queue_, pc["servidor"] = "fin")
    <3>1. NadaTras(q, pc["servidor"] = "fin") /\ (pc["servidor"] = "fin") \in BOOLEAN
      BY <2>2 DEF Cierre
    <3>2. NadaTras(Append(q, Centinela), pc["servidor"] = "fin")
      BY <1>2, <3>1, UltimaCentinela, LaCentinela, Zenon
    <3> QED BY <1>2, <3>2
  <2>3. CierraBien' = CierraBien /\ pc'["servidor"] = pc["servidor"]
        /\ pc'["tenedor"] = pc["tenedor"] /\ (Num(Len(programa) + 1))' = Num(Len(programa) + 1)
    BY <1>1, <1>3, Fijo DEF Num, Previos
  <2> QED BY <1>1, <1>6, <2>1, <2>2, <2>3 DEF Cierre
<1> QED BY <1>3, <1>4, <1>8, <1>9, <1>10, <1>11 DEF EnOrden

LEMMA PasoTenedorStop ==
  ASSUME EnOrden, Cierre, TenedorStop
  PROVE  EnOrden' /\ Cierre'
<1> DEFINE q == respQ.queue_
<1>1. /\ programa \in Programas /\ pos \in Int /\ pc["main"] = "llamar" /\ pos \notin Envios
      /\ pos >= 1 /\ pos <= Len(programa) /\ Len(programa) \in Nat
      /\ programa[pos] = <<"stop", "tenedor">>
      /\ programa' = programa /\ pos' = pos /\ clients_' = clients_
      /\ requests_' = requests_ /\ store_' = store_ /\ entregas' = entregas
      /\ reqQ' = reqQ /\ req' = req /\ resp' = resp
  BY LlamadaSuya
     DEF TenedorStop, mainVars, servidorVars, tenedorVars, EnOrden, Lugares
<1>2. /\ q \in Seq(Respuestas \cup {Centinela})
      /\ respQ'.queue_ = Append(q, Centinela) /\ respQ' \in ColaDe(Respuestas \cup {Centinela})
  <2> DEFINE S == Respuestas \cup {Centinela}
  <2>1. respQ \in ColaDe(S) /\ Centinela \in S /\ respQ' = RespQ!Meter(respQ, Centinela)
    BY DEF TenedorStop, EnOrden, Colas
  <2> HIDE DEF S
  <2>2. q \in Seq(S) /\ respQ'.queue_ = Append(q, Centinela) /\ respQ' \in ColaDe(S)
    BY <2>1, MeteUno, Zenon
  <2> QED BY <2>2 DEF S
<1>3. /\ pc'["main"] = "senalar respQ"
      /\ \A h \in {"servidor", "tenedor"} : pc'[h] = pc[h]
      /\ Lugares'
  BY <1>1, Mueve, Fijo DEF TenedorStop, EnOrden, Lugares
<1>4. Colas'
  BY <1>1, <1>2 DEF EnOrden, Colas
<1>5. Metidas' = Metidas
  BY <1>1, <1>3, Fijo DEF Metidas, Num, Previos
<1>6. /\ EnFila(Append(q, Centinela), Debidas, Recibidas)
      /\ Todas(Append(q, Centinela)) = Todas(q)
  BY <1>2, ColaMete, LaCentinela DEF EnOrden, RespuestasEnFila
<1>7. /\ Tomadas' = Tomadas /\ Contestadas' = Contestadas
      /\ Recibidas' = Recibidas /\ Dadas' = Dadas
  BY <1>1, <1>2, <1>3, <1>6 DEF Tomadas, Contestadas, Recibidas, Dadas
<1>8. RespuestasEnFila'
  <2>1. EnFila(respQ.queue_, Debidas, Recibidas)'
    BY <1>1, <1>2, <1>6, <1>7, Fijo
  <2> QED BY <1>1, <1>3, <1>7, <2>1, Fijo DEF EnOrden, RespuestasEnFila
<1>9. PedidosEnOrden' /\ AlmacenAlDia' /\ Entregas'
  BY <1>1, <1>3, <1>5, <1>7, PedidosQuietos, AlmacenQuieto, EntregasQuietas DEF EnOrden
<1>10. Registrados'
  BY <1>1, <1>3, RegistradosQuietos DEF EnOrden
<1>11. Cierre'
  <2>1. ASSUME CierraBien PROVE pc["servidor"] = "fin"
    <3>1. pos \in 1 .. Len(programa)
      BY <1>1
    <3>2. \E i \in 1 .. (pos - 1) : programa[i] = <<"waitToFinish", "servidor">>
      BY <2>1, <3>1, <1>1 DEF CierraBien, Antes
    <3> QED BY <3>2 DEF Cierre
  <2>2. ASSUME CierraBien PROVE NadaTras(respQ'.queue_, pc["tenedor"] = "fin")
    <3>1. NadaTras(q, pc["tenedor"] = "fin") /\ (pc["tenedor"] = "fin") \in BOOLEAN
      BY <2>2 DEF Cierre
    <3>2. NadaTras(Append(q, Centinela), pc["tenedor"] = "fin")
      BY <1>2, <3>1, UltimaCentinela, LaCentinela, Zenon
    <3> QED BY <1>2, <3>2
  <2>3. CierraBien' = CierraBien /\ pc'["servidor"] = pc["servidor"]
        /\ pc'["tenedor"] = pc["tenedor"] /\ (Num(Len(programa) + 1))' = Num(Len(programa) + 1)
    BY <1>1, <1>3, Fijo DEF Num, Previos
  <2> QED BY <1>1, <1>5, <2>1, <2>2, <2>3 DEF Cierre
<1> QED BY <1>3, <1>4, <1>8, <1>9, <1>10, <1>11 DEF EnOrden

\* main goes on to its next call, of which nothing has been put yet.
LEMMA Sigue ==
  ASSUME EnOrden, Cierre, programa' = programa, pos' = pos + 1, pc'["main"] = "llamar",
         \A h \in {"servidor", "tenedor"} : pc'[h] = pc[h],
         requests_' = requests_, store_' = store_, entregas' = entregas, clients_' = clients_,
         req' = req, resp' = resp, reqQ'.queue_ = reqQ.queue_, respQ'.queue_ = respQ.queue_,
         pos \in Int, Metidas = Num(pos + 1),
         pos \in Envios => pc["main"] = "senalar reqQ",
         \A h \in {"servidor", "tenedor"} :
           programa[pos] = <<"waitToFinish", h>> => pc[h] = "fin",
         Lugares', Colas'
  PROVE  EnOrden' /\ Cierre'
<1>1. /\ Tomadas' = Tomadas /\ Recibidas' = Recibidas /\ Dadas' = Dadas
  BY CuentasDeMain
<1>2. Metidas' = Metidas
  BY Fijo DEF Metidas, Num, Previos
<1>3. PedidosEnOrden' /\ AlmacenAlDia' /\ RespuestasEnFila' /\ Entregas'
  BY <1>1, <1>2, PedidosQuietos, AlmacenQuieto, RespuestasQuietas, EntregasQuietas DEF EnOrden
<1>4. Registrados'
  <2>1. \A i \in Envios : i < pos + 1 => i < pos \/ i = pos
    <3>1. \A i \in Envios : i \in Int
      BY DelPrograma DEF EnOrden, Lugares
    <3> QED BY <3>1, Uno, Zenon
  <2> QED BY <2>1, Fijo DEF EnOrden, Registrados
<1>5. Cierre'
  <2>1. ASSUME NEW i \in 1 .. (pos + 1) - 1, NEW h \in {"servidor", "tenedor"},
               programa[i] = <<"waitToFinish", h>>
        PROVE  pc[h] = "fin"
    <3>1. i \in 1 .. pos - 1 \/ i = pos
      BY Uno, Zenon
    <3> QED BY <2>1, <3>1 DEF Cierre
  <2>2. CierraBien' = CierraBien /\ (Num(Len(programa) + 1))' = Num(Len(programa) + 1)
    BY Fijo DEF Num, Previos
  <2>3. \A i \in 1 .. pos' - 1 : \A h \in {"servidor", "tenedor"} :
          programa'[i] = <<"waitToFinish", h>> => pc'[h] = "fin"
    BY <2>1
  <2>4. pc'["servidor"] = pc["servidor"] /\ pc'["tenedor"] = pc["tenedor"]
    OBVIOUS
  <2> QED BY <1>2, <2>2, <2>3, <2>4 DEF Cierre
<1> QED BY <1>3, <1>4, <1>5 DEF EnOrden

LEMMA PasoMainSenalar ==
  ASSUME EnOrden, Cierre, MainSenalar
  PROVE  EnOrden' /\ Cierre'
<1>1. /\ programa \in Programas /\ pos \in Int /\ pos >= 1 /\ pos <= Len(programa)
      /\ Len(programa) \in Nat
      /\ programa' = programa /\ pos' = pos + 1 /\ clients_' = clients_
      /\ requests_' = requests_ /\ store_' = store_ /\ entregas' = entregas
      /\ req' = req /\ resp' = resp
      /\ pc["main"] \in {"senalar reqQ", "senalar respQ"}
      /\ \A h \in {"servidor", "tenedor"} : programa[pos] # <<"waitToFinish", h>>
      /\ pos \in Envios => pc["main"] = "senalar reqQ"
  <2>1. /\ Lugares /\ pc["main"] \in {"senalar reqQ", "senalar respQ"}
        /\ programa' = programa /\ pos' = pos + 1 /\ clients_' = clients_
        /\ requests_' = requests_ /\ store_' = store_ /\ entregas' = entregas
        /\ req' = req /\ resp' = resp
    BY DEF MainSenalar, servidorVars, tenedorVars, EnOrden
  <2>2. programa \in Programas /\ pos \in 1 .. Len(programa) + 1 /\ Len(programa) \in Nat
    BY <2>1, DelPrograma DEF Lugares
  <2>3. pos \in Envios => pos <= Len(programa) /\ programa[pos][1] = "send"
    BY <2>2, DelPrograma
  <2>4. \/ pos \in Envios /\ pc["main"] = "senalar reqQ"
        \/ pos <= Len(programa) /\ \E h \in {"servidor", "tenedor"} : programa[pos] = <<"stop", h>>
    BY <2>1 DEF Lugares
  <2>5. pos \in Int /\ pos >= 1
    BY <2>2, Uno
  <2>6. pos <= Len(programa) /\ (pos \in Envios => pc["main"] = "senalar reqQ")
        /\ \A h \in {"servidor", "tenedor"} : programa[pos] # <<"waitToFinish", h>>
    <3>1. CASE pos \in Envios
      <4>1. \A f, h : <<f, h>>[1] = f
        OBVIOUS
      <4>2. \A h : programa[pos] # <<"stop", h>> /\ programa[pos] # <<"waitToFinish", h>>
        BY <2>3, <3>1, <4>1
      <4> QED BY <2>3, <2>4, <3>1, <4>2
    <3>2. CASE pos \notin Envios
      <4>1. \A g, h : <<"stop", g>> # <<"waitToFinish", h>>
        OBVIOUS
      <4> QED BY <2>4, <3>2, <4>1
    <3> QED BY <3>1, <3>2
  <2> QED BY <2>1, <2>2, <2>5, <2>6
<1>2. reqQ'.queue_ = reqQ.queue_ /\ respQ'.queue_ = respQ.queue_ /\ Colas'
  <2>1. reqQ \in ColaDe(Peticiones \cup {Centinela}) /\ respQ \in ColaDe(Respuestas \cup {Centinela})
    BY DEF EnOrden, Colas
  <2>2. /\ reqQ' \in {reqQ, ReqQ!Senalar(reqQ)}
        /\ respQ' \in {respQ, RespQ!Senalar(respQ)}
    BY DEF MainSenalar
  <2> QED BY <2>1, <2>2, Partes DEF Colas
<1>3. Lugares' /\ pc'["main"] = "llamar" /\ \A h \in {"servidor", "tenedor"} : pc'[h] = pc[h]
  <2>1. pos + 1 \in 1 .. Len(programa) + 1
    BY <1>1, Uno, Zenon
  <2> QED BY <1>1, <2>1, Mueve DEF MainSenalar, EnOrden, Lugares
<1>4. Metidas = Num(pos + 1)
  <2>1. pc["main"] = "senalar respQ" => pos \notin Envios
    BY <1>1
  <2> QED BY <1>1, <2>1, Numeros DEF Metidas
<1> QED BY <1>1, <1>2, <1>3, <1>4, Sigue

LEMMA PasoWaitToFinish ==
  ASSUME EnOrden, Cierre, WaitToFinish
  PROVE  EnOrden' /\ Cierre'
<1>1. /\ programa \in Programas /\ pos \in Int /\ pos >= 1 /\ pos <= Len(programa)
      /\ Len(programa) \in Nat /\ pos \notin Envios /\ Num(pos + 1) = Num(pos)
      /\ programa[pos] = <<"waitToFinish", Objeto>> /\ pc["main"] = "llamar"
      /\ programa' = programa /\ pos' = pos + 1 /\ clients_' = clients_ /\ pc' = pc
      /\ requests_' = requests_ /\ store_' = store_ /\ entregas' = entregas
      /\ reqQ' = reqQ /\ respQ' = respQ /\ req' = req /\ resp' = resp
      /\ pc[Objeto] = "fin"
  BY LlamadaSuya
     DEF WaitToFinish, servidorVars, tenedorVars, EnOrden, Lugares
<1>2. Lugares' /\ Colas'
  <2>1. pos + 1 \in 1 .. Len(programa) + 1
    BY <1>1, Uno, Zenon
  <2> QED BY <1>1, <2>1 DEF EnOrden, Lugares, Colas
<1>3. Metidas = Num(pos + 1)
  BY <1>1 DEF Metidas
<1>4. \A h \in {"servidor", "tenedor"} : programa[pos] = <<"waitToFinish", h>> => pc[h] = "fin"
  BY <1>1
<1> QED BY <1>1, <1>2, <1>3, <1>4, Sigue

-----------------------------------------------------------------------------
(***************************************************************************)
(* The steps of the Servidor.                                              *)
(***************************************************************************)
\* A thread that is not at its end goes on, and the sentinels stay put.
LEMMA CierreDeHilo ==
  ASSUME Cierre, programa' = programa, pos' = pos, Metidas' = Metidas,
         \A h \in {"servidor", "tenedor"} : pc[h] = "fin" => pc'[h] = "fin",
         CierraBien =>
           /\ NadaTras(reqQ'.queue_, pc'["servidor"] = "fin")
           /\ NadaTras(respQ'.queue_, pc'["tenedor"] = "fin")
           /\ HayCentinela(reqQ'.queue_) \/ pc'["servidor"] = "fin" =>
                HayCentinela(reqQ.queue_) \/ pc["servidor"] = "fin"
           /\ HayCentinela(respQ'.queue_) \/ pc'["tenedor"] = "fin" => pc'["servidor"] = "fin"
  PROVE  Cierre'
<1>1. CierraBien' = CierraBien /\ (Num(Len(programa) + 1))' = Num(Len(programa) + 1)
  BY Fijo DEF Num, Previos
<1> QED BY <1>1 DEF Cierre

LEMMA PasoServidorEsperar ==
  ASSUME EnOrden, Cierre, ServidorEsperar
  PROVE  EnOrden' /\ Cierre'
<1>1. /\ programa' = programa /\ pos' = pos /\ clients_' = clients_
      /\ requests_' = requests_ /\ store_' = store_ /\ entregas' = entregas
      /\ respQ' = respQ /\ req' = req /\ resp' = resp /\ pc["servidor"] = "esperar"
  BY DEF ServidorEsperar, mainVars, servidorVars, tenedorVars
<1>2. reqQ'.queue_ = reqQ.queue_ /\ Colas'
  BY <1>1, Partes DEF ServidorEsperar, EnOrden, Colas
<1>3. /\ Lugares' /\ pc'["servidor"] = "frente"
      /\ pc'["main"] = pc["main"] /\ pc'["tenedor"] = pc["tenedor"]
  BY <1>1, Mueve, Fijo DEF ServidorEsperar, EnOrden, Lugares
<1>4. /\ Tomadas' = Tomadas /\ Recibidas' = Recibidas /\ Dadas' = Dadas
  BY <1>1, <1>3 DEF Tomadas, Contestadas, Recibidas, Dadas
<1>5. Metidas' = Metidas
  BY <1>1, <1>3, CuentaDeMetidas
<1> QED BY <1>1, <1>2, <1>3, <1>4, <1>5, PedidosQuietos, AlmacenQuieto, RespuestasQuietas,
           EntregasQuietas, RegistradosQuietos, CierreQuieto DEF EnOrden

LEMMA PasoServidorSacar ==
  ASSUME EnOrden, Cierre, ServidorSacar
  PROVE  EnOrden' /\ Cierre'
<1> DEFINE q == reqQ.queue_
           c == IF EsCentinela(Head(q)) THEN 0 ELSE 1
<1>1. /\ programa' = programa /\ pos' = pos /\ clients_' = clients_
      /\ requests_' = requests_ /\ store_' = store_ /\ entregas' = entregas
      /\ respQ' = respQ /\ resp' = resp /\ pc["servidor"] = "frente"
      /\ q # <<>> /\ req' = Head(q)
  BY DEF ServidorSacar, mainVars, tenedorVars
<1>2. /\ q \in Seq(Peticiones \cup {Centinela}) /\ reqQ'.queue_ = Tail(q) /\ Colas'
  <2> DEFINE S == Peticiones \cup {Centinela}
  <2>1. reqQ \in ColaDe(S) /\ reqQ' = ReqQ!Sacar(reqQ)
    BY DEF ServidorSacar, EnOrden, Colas
  <2> HIDE DEF S
  <2>2. q \in Seq(S) /\ reqQ'.queue_ = Tail(q) /\ reqQ' \in ColaDe(S)
    BY <1>1, <2>1, Partes
  <2> QED BY <1>1, <2>2 DEF S, EnOrden, Colas
<1>3. /\ Lugares' /\ pc'["servidor"] = IF EsCentinela(Head(q)) THEN "fin" ELSE "atender"
      /\ pc'["main"] = pc["main"] /\ pc'["tenedor"] = pc["tenedor"]
  <2>1. Ir("servidor", IF EsCentinela(Head(q)) THEN "fin" ELSE "atender")
    BY <1>1 DEF ServidorSacar
  <2> QED BY <1>1, <2>1, Mueve, Fijo DEF EnOrden, Lugares
<1>4. /\ Tomadas = requests_ /\ Tomadas' = requests_ + c /\ requests_ \in Nat
      /\ Recibidas' = Recibidas /\ Dadas' = Dadas
  BY <1>1, <1>3 DEF Tomadas, Contestadas, Recibidas, Dadas, EnOrden, PedidosEnOrden
<1>5. Metidas' = Metidas
  BY <1>1, <1>3, CuentaDeMetidas
<1>6. PedidosEnOrden'
  <2>1. /\ EnFila(Tail(q), Pedidos, requests_ + c)
        /\ Todas(q) = Todas(Tail(q)) + c /\ Todas(Tail(q)) \in Nat
        /\ ~EsCentinela(Head(q)) => \E i \in Envios : Num(i) = requests_ /\ Head(q) = Pedidos[i]
    BY <1>1, <1>2, <1>4, ColaSaca DEF EnOrden, PedidosEnOrden
  <2>2. EnFila(reqQ.queue_, Pedidos, Tomadas)'
    BY <1>1, <1>2, <1>4, <2>1, Fijo
  <2>3. Tomadas' + Todas(reqQ'.queue_) = Metidas'
    BY <1>2, <1>4, <1>5, <2>1 DEF EnOrden, PedidosEnOrden
  <2>4. pc'["servidor"] = "atender" => ~EsCentinela(Head(q))
    BY <1>3
  <2> QED BY <1>1, <1>4, <2>1, <2>2, <2>3, <2>4, Fijo DEF PedidosEnOrden
<1>7. AlmacenAlDia' /\ RespuestasEnFila' /\ Entregas' /\ Registrados'
  BY <1>1, <1>3, <1>4, AlmacenQuieto, RespuestasQuietas, EntregasQuietas, RegistradosQuietos
     DEF EnOrden
<1>8. Cierre'
  <2>1. pc'["servidor"] = "fin" <=> EsCentinela(Head(q))
    BY <1>3
  <2>2. /\ HayCentinela(Tail(q)) \/ EsCentinela(Head(q)) => HayCentinela(q)
        /\ NadaTras(q, FALSE) => NadaTras(Tail(q), EsCentinela(Head(q)))
    BY <1>1, <1>2, PrimeraCentinela
  <2>3. CierraBien =>
           /\ NadaTras(reqQ'.queue_, pc'["servidor"] = "fin")
           /\ NadaTras(respQ'.queue_, pc'["tenedor"] = "fin")
           /\ HayCentinela(reqQ'.queue_) \/ pc'["servidor"] = "fin" =>
                HayCentinela(reqQ.queue_) \/ pc["servidor"] = "fin"
           /\ HayCentinela(respQ'.queue_) \/ pc'["tenedor"] = "fin" => pc'["servidor"] = "fin"
    <3> SUFFICES ASSUME CierraBien
                 PROVE  /\ NadaTras(Tail(q), pc'["servidor"] = "fin")
                        /\ NadaTras(respQ.queue_, pc["tenedor"] = "fin")
                        /\ HayCentinela(Tail(q)) \/ pc'["servidor"] = "fin" => HayCentinela(q)
                        /\ ~(HayCentinela(respQ.queue_) \/ pc["tenedor"] = "fin")
      BY <1>1, <1>2, <1>3
    <3>1. NadaTras(q, pc["servidor"] = "fin") /\ pc["servidor"] # "fin"
      BY <1>1 DEF Cierre
    <3>2. NadaTras(q, FALSE)
      BY <3>1 DEF NadaTras
    <3>3. NadaTras(Tail(q), pc'["servidor"] = "fin")
      BY <3>2, <2>1, <2>2 DEF NadaTras
    <3> QED BY <1>1, <2>1, <2>2, <3>1, <3>3 DEF Cierre
  <2>4. \A h \in {"servidor", "tenedor"} : pc[h] = "fin" => pc'[h] = "fin"
    BY <1>1, <1>3
  <2> QED BY <1>1, <1>5, <2>3, <2>4, CierreDeHilo
<1> QED BY <1>2, <1>3, <1>6, <1>7, <1>8 DEF EnOrden

\* What handle answers to call i, when the store is up to it.
LEMMA Respuesta ==
  ASSUME programa \in Programas, AlmacenAlDia, requests_ \in Nat,
         NEW i \in Envios, Num(i) = requests_
  PROVE  /\ Nombres = Existentes(i) /\ Nombres \subseteq Figuras
         /\ \A n \in Nombres : store_[n] = Cuerpo(i, n) /\ store_[n] \in Cuerpos
         /\ Atender(Texto(i)) = Esperada(i)
<1> DEFINE t == Texto(i)
<1>1. /\ Nombres = Existentes(i) /\ Nombres \subseteq Figuras
      /\ \A n \in Nombres : store_[n] = Cuerpo(i, n) /\ store_[n] \in Cuerpos
  <2>1. i \in 1 .. Len(programa) + 1
    BY DelPrograma
  <2> QED BY <2>1 DEF AlmacenAlDia
<1> SUFFICES Atender(Texto(i)) = Esperada(i)
  BY <1>1
<1>2. t \in Comandos
  BY DelPrograma DEF Texto
<1>3. \A n \in Figuras : n \in Nombres <=> Existe(i, n)
  BY <1>1 DEF Existentes
<1>4. Cardinality({j \in Envios : j <= i}) = requests_ + 1
  BY Mensajes
<1>5. t[1] \in {"GET", "DEL"} => t[2] \in Figuras
  BY <1>2, Textos
<1> HIDE DEF t
<1>6. CASE t[1] = "GET"
  <2>1. /\ t[2] \in Nombres <=> Existe(i, t[2])
        /\ t[2] \in Nombres => store_[t[2]] = Cuerpo(i, t[2])
    BY <1>1, <1>3, <1>5, <1>6
  <2> QED BY <1>6, <2>1 DEF Atender, Esperada, t
<1>7. CASE t[1] = "DEL"
  <2>1. t[2] \in Nombres <=> Existe(i, t[2])
    BY <1>3, <1>5, <1>7
  <2> QED BY <1>7, <2>1 DEF Atender, Esperada, t
<1>8. CASE t[1] \in {"LIST", "STATS"}
  BY <1>1, <1>4, <1>8 DEF Atender, Esperada, t
<1>9. CASE t[1] \notin {"GET", "DEL", "LIST", "STATS"}
  BY <1>9 DEF Atender, Esperada, t
<1> QED BY <1>6, <1>7, <1>8, <1>9

LEMMA PasoServidorAtender ==
  ASSUME EnOrden, Cierre, ServidorAtender
  PROVE  EnOrden' /\ Cierre'
<1>1. /\ programa' = programa /\ pos' = pos /\ clients_' = clients_
      /\ requests_' = requests_ + 1 /\ entregas' = entregas /\ requests_ \in Nat
      /\ reqQ' = reqQ /\ respQ' = respQ /\ resp' = resp /\ pc["servidor"] = "atender"
      /\ programa \in Programas /\ Len(programa) \in Nat
  BY DelPrograma
     DEF ServidorAtender, mainVars, tenedorVars, EnOrden, PedidosEnOrden, Lugares
<1>2. PICK i \in Envios : Num(i) = requests_ /\ req = Pedidos[i]
  BY <1>1 DEF EnOrden, PedidosEnOrden
<1>3. /\ Nombres = Existentes(i) /\ Nombres \subseteq Figuras
      /\ \A n \in Nombres : store_[n] = Cuerpo(i, n) /\ store_[n] \in Cuerpos
      /\ Atender(Texto(i)) = Esperada(i)
  BY <1>1, <1>2, Respuesta DEF EnOrden
<1>4. req' = Debidas[i] /\ req.texto = Texto(i)
  <2>1. /\ req \in [client_id : Clientes, texto : Comandos] /\ req.texto = Texto(i)
        /\ req.client_id = programa[i][2].client_id
    BY <1>1, <1>2, Mensajes DEF Peticiones
  <2>2. req' = [req EXCEPT !.texto = Atender(req.texto)]
    BY DEF ServidorAtender
  <2>3. req' = [client_id |-> programa[i][2].client_id, texto |-> Esperada(i)]
    BY <2>1, <2>2, <1>3
  <2> QED BY <2>1, <2>3 DEF Debidas
<1>5. /\ Lugares' /\ pc'["servidor"] = "responder"
      /\ pc'["main"] = pc["main"] /\ pc'["tenedor"] = pc["tenedor"]
  BY <1>1, Mueve, Fijo DEF ServidorAtender, EnOrden, Lugares
<1>6. /\ Tomadas' = Tomadas /\ Recibidas' = Recibidas /\ Dadas' = Dadas
  BY <1>1, <1>5 DEF Tomadas, Contestadas, Recibidas, Dadas
<1>7. Metidas' = Metidas
  BY <1>1, <1>5, CuentaDeMetidas
<1>8. PedidosEnOrden'
  BY <1>1, <1>5, <1>6, <1>7, Fijo DEF EnOrden, PedidosEnOrden
<1>9. RespuestasEnFila'
  <2>1. \E j \in Envios : Num(j) = requests_' - 1 /\ req' = Debidas[j]
    BY <1>1, <1>2, <1>4
  <2> QED BY <1>1, <1>5, <1>6, <2>1, Fijo DEF EnOrden, RespuestasEnFila
<1>10. Colas' /\ Entregas' /\ Registrados' /\ Cierre'
  <2>1. \A h \in {"servidor", "tenedor"} : pc'[h] = "fin" <=> pc[h] = "fin"
    BY <1>1, <1>5
  <2> QED BY <1>1, <1>5, <1>6, <1>7, <2>1, EntregasQuietas, RegistradosQuietos, CierreQuieto
          DEF EnOrden, Colas
<1>11. AlmacenAlDia'
  <2> DEFINE t == Texto(i)
  <2>1. /\ t \in Comandos /\ (Len(t) > 1 => t[2] \in Figuras) /\ Len(t) \in {1, 2, 3}
        /\ (t[1] = "ADD" => Len(t) \in {1, 3}) /\ (Len(t) = 3 => t[3] \in Cuerpos)
        /\ (t[1] = "DEL" => Len(t) = 2)
    <3>1. t \in Comandos
      BY <1>1, <1>2, DelPrograma DEF Texto
    <3> QED BY <3>1, Textos
  <2>2. \A n : Toca(i, n) <=> t[1] \in {"ADD", "DEL"} /\ Len(t) > 1 /\ t[2] = n
    BY DEF Toca
  <2>3. \A k \in 1 .. Len(programa) + 1 : Num(k) = requests_ + 1 => \A n :
          /\ Toca(i, n) => Existe(k, n) = (t[1] = "ADD") /\ Cuerpo(k, n) = t[3]
          /\ ~Toca(i, n) => Existe(k, n) = Existe(i, n) /\ Cuerpo(k, n) = Cuerpo(i, n)
    BY <1>1, <1>2, Avanza
  <2>4. \A n \in Figuras : n \in Nombres <=> Existe(i, n)
    BY <1>3 DEF Existentes
  <2> HIDE DEF t
  <2> SUFFICES /\ DOMAIN store_' \subseteq Figuras /\ \A n \in DOMAIN store_' : store_'[n] \in Cuerpos
               /\ \A k \in 1 .. Len(programa) + 1 : Num(k) = requests_ + 1 =>
                    /\ \A n \in Figuras : n \in DOMAIN store_' <=> Existe(k, n)
                    /\ \A n \in DOMAIN store_' : store_'[n] = Cuerpo(k, n)
    BY <1>1, Fijo DEF AlmacenAlDia, Nombres, Existentes
  <2>5. CASE t[1] = "ADD" /\ Len(t) = 3
    <3>1. /\ DOMAIN store_' = Nombres \cup {t[2]} /\ store_'[t[2]] = t[3]
          /\ \A n \in Nombres \ {t[2]} : store_'[n] = store_[n]
      BY <1>4, <2>5 DEF ServidorAtender, GuardarFigura, Guardar, t
    <3>2. \A n : Toca(i, n) <=> n = t[2]
      BY <2>2, <2>5
    <3>3. t[2] \in Figuras /\ t[3] \in Cuerpos
      BY <2>1, <2>5
    <3>4. DOMAIN store_' \subseteq Figuras /\ \A n \in DOMAIN store_' : store_'[n] \in Cuerpos
      BY <1>3, <3>1, <3>3
    <3>5. ASSUME NEW k \in 1 .. Len(programa) + 1, Num(k) = requests_ + 1
          PROVE  /\ \A n \in Figuras : n \in DOMAIN store_' <=> Existe(k, n)
                 /\ \A n \in DOMAIN store_' : store_'[n] = Cuerpo(k, n)
      <4>1. Existe(k, t[2]) /\ Cuerpo(k, t[2]) = t[3]
        BY <2>3, <2>5, <3>2, <3>5
      <4>2. \A n : n # t[2] => Existe(k, n) = Existe(i, n) /\ Cuerpo(k, n) = Cuerpo(i, n)
        BY <2>3, <3>2, <3>5
      <4> QED BY <1>3, <2>4, <3>1, <4>1, <4>2
    <3> QED BY <3>4, <3>5
  <2>6. CASE t[1] = "DEL"
    <3>1. /\ DOMAIN store_' = Nombres \ {t[2]}
          /\ \A n \in Nombres \ {t[2]} : store_'[n] = store_[n]
      BY <1>4, <2>6 DEF ServidorAtender, Borrar, t
    <3>2. \A n : Toca(i, n) <=> n = t[2]
      BY <2>1, <2>2, <2>6
    <3>3. DOMAIN store_' \subseteq Figuras /\ \A n \in DOMAIN store_' : store_'[n] \in Cuerpos
      BY <1>3, <3>1
    <3>4. ASSUME NEW k \in 1 .. Len(programa) + 1, Num(k) = requests_ + 1
          PROVE  /\ \A n \in Figuras : n \in DOMAIN store_' <=> Existe(k, n)
                 /\ \A n \in DOMAIN store_' : store_'[n] = Cuerpo(k, n)
      <4>1. ~Existe(k, t[2])
        BY <2>3, <2>6, <3>2, <3>4
      <4>2. \A n : n # t[2] => Existe(k, n) = Existe(i, n) /\ Cuerpo(k, n) = Cuerpo(i, n)
        BY <2>3, <3>2, <3>4
      <4> QED BY <1>3, <2>4, <3>1, <4>1, <4>2
    <3> QED BY <3>3, <3>4
  <2>7. CASE t[1] # "DEL" /\ ~(t[1] = "ADD" /\ Len(t) = 3)
    <3>1. store_' = store_
      BY <1>4, <2>7 DEF ServidorAtender, t
    <3>2. \A n : ~Toca(i, n)
      BY <2>1, <2>2, <2>7
    <3> QED BY <1>3, <2>3, <2>4, <3>1, <3>2 DEF Nombres
  <2> QED BY <2>5, <2>6, <2>7
<1> QED BY <1>5, <1>8, <1>9, <1>10, <1>11 DEF EnOrden

LEMMA PasoServidorEncolar ==
  ASSUME EnOrden, Cierre, ServidorEncolar
  PROVE  EnOrden' /\ Cierre'
<1> DEFINE q == respQ.queue_
<1>1. /\ programa' = programa /\ pos' = pos /\ clients_' = clients_
      /\ requests_' = requests_ /\ store_' = store_ /\ entregas' = entregas
      /\ reqQ' = reqQ /\ req' = req /\ resp' = resp /\ pc["servidor"] = "responder"
      /\ programa \in Programas /\ requests_ \in Nat /\ Recibidas \in Nat
  BY DEF ServidorEncolar, mainVars, servidorVars, tenedorVars, EnOrden, PedidosEnOrden,
         RespuestasEnFila, Lugares
<1>2. PICK i \in Envios : Num(i) = requests_ - 1 /\ req = Debidas[i]
  BY <1>1 DEF EnOrden, RespuestasEnFila
<1>3. req \in Respuestas /\ ~EsCentinela(req)
  BY <1>1, <1>2, Mensajes
<1>4. /\ q \in Seq(Respuestas \cup {Centinela}) /\ respQ'.queue_ = Append(q, req) /\ Colas'
  <2> DEFINE S == Respuestas \cup {Centinela}
  <2>1. respQ \in ColaDe(S) /\ req \in S /\ respQ' = RespQ!Meter(respQ, req)
    BY <1>3 DEF ServidorEncolar, EnOrden, Colas
  <2> HIDE DEF S
  <2>2. q \in Seq(S) /\ respQ'.queue_ = Append(q, req) /\ respQ' \in ColaDe(S)
    BY <2>1, MeteUno, Zenon
  <2> QED BY <1>1, <2>2 DEF S, EnOrden, Colas
<1>5. /\ Lugares' /\ pc'["servidor"] = "senalar"
      /\ pc'["main"] = pc["main"] /\ pc'["tenedor"] = pc["tenedor"]
  BY <1>1, Mueve, Fijo DEF ServidorEncolar, EnOrden, Lugares
<1>6. /\ Contestadas = requests_ - 1 /\ Contestadas' = requests_ /\ Tomadas' = Tomadas
      /\ Recibidas = requests_ - 1 - Todas(q)
  BY <1>1, <1>5 DEF Tomadas, Contestadas, Recibidas
<1>7. Metidas' = Metidas
  BY <1>1, <1>5, CuentaDeMetidas
<1>8. /\ EnFila(Append(q, req), Debidas, Recibidas)
      /\ Todas(Append(q, req)) = Todas(q) + 1 /\ Todas(q) \in Nat
  <2>1. Todas(q) \in Nat
    BY <1>4, Contadas, LenProperties DEF Todas
  <2>2. Num(i) = Recibidas + Todas(q)
    BY <1>1, <1>2, <1>6, <2>1
  <2>3. req \in Respuestas \cup {Centinela}
    BY <1>3
  <2> QED BY <1>1, <1>2, <1>3, <1>4, <2>2, <2>3, ColaMete DEF EnOrden, RespuestasEnFila
<1>9. Recibidas' = Recibidas
  <2>1. Recibidas' = requests_ - Todas(Append(q, req))
    BY <1>4, <1>6 DEF Recibidas
  <2> QED BY <2>1, <1>1, <1>6, <1>8
<1>10. Dadas' = Dadas
  BY <1>5, <1>9 DEF Dadas
<1>11. RespuestasEnFila'
  <2>1. EnFila(respQ.queue_, Debidas, Recibidas)'
    BY <1>1, <1>4, <1>8, <1>9, Fijo
  <2> QED BY <1>1, <1>5, <1>9, <1>10, <2>1, Fijo DEF EnOrden, RespuestasEnFila
<1>12. PedidosEnOrden' /\ AlmacenAlDia' /\ Entregas' /\ Registrados'
  BY <1>1, <1>5, <1>6, <1>7, <1>10, PedidosQuietos, AlmacenQuieto, EntregasQuietas,
     RegistradosQuietos DEF EnOrden
<1>13. Cierre'
  <2>1. CierraBien =>
           /\ NadaTras(reqQ'.queue_, pc'["servidor"] = "fin")
           /\ NadaTras(respQ'.queue_, pc'["tenedor"] = "fin")
           /\ HayCentinela(reqQ'.queue_) \/ pc'["servidor"] = "fin" =>
                HayCentinela(reqQ.queue_) \/ pc["servidor"] = "fin"
           /\ HayCentinela(respQ'.queue_) \/ pc'["tenedor"] = "fin" => pc'["servidor"] = "fin"
    <3> SUFFICES ASSUME CierraBien
                 PROVE  /\ NadaTras(reqQ.queue_, pc'["servidor"] = "fin")
                        /\ NadaTras(Append(q, req), pc["tenedor"] = "fin")
                        /\ pc'["servidor"] # "fin"
                        /\ ~(HayCentinela(Append(q, req)) \/ pc["tenedor"] = "fin")
      BY <1>1, <1>4, <1>5
    <3>1. /\ NadaTras(reqQ.queue_, pc["servidor"] = "fin") /\ pc["servidor"] # "fin"
          /\ pc'["servidor"] # "fin" /\ ~HayCentinela(q) /\ pc["tenedor"] # "fin"
      BY <1>1, <1>5 DEF Cierre
    <3>2. NadaTras(reqQ.queue_, pc'["servidor"] = "fin")
      BY <3>1 DEF NadaTras
    <3>3. req \in Respuestas \cup {Centinela}
      BY <1>3
    <3>4. NadaTras(Append(q, req), FALSE) /\ ~HayCentinela(Append(q, req))
      BY <1>3, <1>4, <3>1, <3>3, UltimaCentinela
    <3>5. NadaTras(Append(q, req), pc["tenedor"] = "fin")
      BY <3>1, <3>4 DEF NadaTras
    <3> QED BY <3>1, <3>2, <3>4, <3>5
  <2>2. \A h \in {"servidor", "tenedor"} : pc[h] = "fin" => pc'[h] = "fin"
    BY <1>1, <1>5
  <2> QED BY <1>1, <1>7, <2>1, <2>2, CierreDeHilo
<1> QED BY <1>4, <1>5, <1>11, <1>12, <1>13 DEF EnOrden

LEMMA PasoServidorSenalar ==
  ASSUME EnOrden, Cierre, ServidorSenalar
  PROVE  EnOrden' /\ Cierre'
<1>1. /\ programa' = programa /\ pos' = pos /\ clients_' = clients_
      /\ requests_' = requests_ /\ store_' = store_ /\ entregas' = entregas
      /\ reqQ' = reqQ /\ req' = req /\ resp' = resp /\ pc["servidor"] = "senalar"
  BY DEF ServidorSenalar, mainVars, servidorVars, tenedorVars
<1>2. respQ'.queue_ = respQ.queue_ /\ Colas'
  BY <1>1, Partes DEF ServidorSenalar, SenalarRespuesta, EnOrden, Colas
<1>3. /\ Lugares' /\ pc'["servidor"] = "esperar"
      /\ pc'["main"] = pc["main"] /\ pc'["tenedor"] = pc["tenedor"]
  BY <1>1, Mueve, Fijo DEF ServidorSenalar, EnOrden, Lugares
<1>4. /\ Tomadas' = Tomadas /\ Recibidas' = Recibidas /\ Dadas' = Dadas
  BY <1>1, <1>2, <1>3 DEF Tomadas, Contestadas, Recibidas, Dadas
<1>5. Metidas' = Metidas
  BY <1>1, <1>3, CuentaDeMetidas
<1> QED BY <1>1, <1>2, <1>3, <1>4, <1>5, PedidosQuietos, AlmacenQuieto, RespuestasQuietas,
           EntregasQuietas, RegistradosQuietos, CierreQuieto DEF EnOrden
-----------------------------------------------------------------------------
(***************************************************************************)
(* The steps of the Tenedor.                                               *)
(***************************************************************************)
LEMMA PasoTenedorEsperar ==
  ASSUME EnOrden, Cierre, TenedorEsperar
  PROVE  EnOrden' /\ Cierre'
<1>1. /\ programa' = programa /\ pos' = pos /\ clients_' = clients_
      /\ requests_' = requests_ /\ store_' = store_ /\ entregas' = entregas
      /\ reqQ' = reqQ /\ req' = req /\ resp' = resp /\ pc["tenedor"] = "esperar"
  BY DEF TenedorEsperar, mainVars, servidorVars, tenedorVars
<1>2. respQ'.queue_ = respQ.queue_ /\ Colas'
  BY <1>1, Partes DEF TenedorEsperar, EnOrden, Colas
<1>3. /\ Lugares' /\ pc'["tenedor"] = "frente"
      /\ pc'["main"] = pc["main"] /\ pc'["servidor"] = pc["servidor"]
  BY <1>1, Mueve, Fijo DEF TenedorEsperar, EnOrden, Lugares
<1>4. /\ Tomadas' = Tomadas /\ Recibidas' = Recibidas /\ Dadas' = Dadas
  BY <1>1, <1>2, <1>3 DEF Tomadas, Contestadas, Recibidas, Dadas
<1>5. Metidas' = Metidas
  BY <1>1, <1>3, CuentaDeMetidas
<1> QED BY <1>1, <1>2, <1>3, <1>4, <1>5, PedidosQuietos, AlmacenQuieto, RespuestasQuietas,
           EntregasQuietas, RegistradosQuietos, CierreQuieto DEF EnOrden

LEMMA PasoTenedorSacar ==
  ASSUME EnOrden, Cierre, TenedorSacar
  PROVE  EnOrden' /\ Cierre'
<1> DEFINE q == respQ.queue_
           c == IF EsCentinela(Head(q)) THEN 0 ELSE 1
<1>1. /\ programa' = programa /\ pos' = pos /\ clients_' = clients_
      /\ requests_' = requests_ /\ store_' = store_ /\ entregas' = entregas
      /\ reqQ' = reqQ /\ req' = req /\ pc["tenedor"] = "frente"
      /\ q # <<>> /\ resp' = Head(q) /\ Recibidas \in Nat /\ requests_ \in Nat
  BY DEF TenedorSacar, mainVars, servidorVars, EnOrden, RespuestasEnFila, PedidosEnOrden
<1>2. /\ q \in Seq(Respuestas \cup {Centinela}) /\ respQ'.queue_ = Tail(q) /\ Colas'
  <2> DEFINE S == Respuestas \cup {Centinela}
  <2>1. respQ \in ColaDe(S) /\ respQ' = RespQ!Sacar(respQ)
    BY DEF TenedorSacar, EnOrden, Colas
  <2> HIDE DEF S
  <2>2. q \in Seq(S) /\ respQ'.queue_ = Tail(q) /\ respQ' \in ColaDe(S)
    BY <1>1, <2>1, Partes
  <2> QED BY <1>1, <2>2 DEF S, EnOrden, Colas
<1>3. /\ Lugares' /\ pc'["tenedor"] = IF EsCentinela(Head(q)) THEN "fin" ELSE "entregar"
      /\ pc'["main"] = pc["main"] /\ pc'["servidor"] = pc["servidor"]
  <2>1. Ir("tenedor", IF EsCentinela(Head(q)) THEN "fin" ELSE "entregar")
    BY <1>1 DEF TenedorSacar
  <2> QED BY <1>1, <2>1, Mueve, Fijo DEF EnOrden, Lugares
<1>4. /\ EnFila(Tail(q), Debidas, Recibidas + c)
      /\ Todas(q) = Todas(Tail(q)) + c /\ Todas(Tail(q)) \in Nat
      /\ ~EsCentinela(Head(q)) => \E i \in Envios : Num(i) = Recibidas /\ Head(q) = Debidas[i]
  BY <1>1, <1>2, ColaSaca DEF EnOrden, RespuestasEnFila
<1>5. /\ Tomadas' = Tomadas /\ Contestadas' = Contestadas /\ Contestadas \in Int
      /\ Dadas = Recibidas
  BY <1>1, <1>3 DEF Tomadas, Contestadas, Dadas
<1>6. Recibidas' = Recibidas + c
  <2>1. Recibidas' = Contestadas - Todas(Tail(q)) /\ Recibidas = Contestadas - Todas(q)
    BY <1>2, <1>5 DEF Recibidas
  <2> QED BY <2>1, <1>4, <1>5
<1>7. Dadas' = Dadas
  BY <1>1, <1>3, <1>5, <1>6 DEF Dadas
<1>8. Metidas' = Metidas
  BY <1>1, <1>3, CuentaDeMetidas
<1>9. RespuestasEnFila'
  <2>1. EnFila(respQ.queue_, Debidas, Recibidas)'
    BY <1>1, <1>2, <1>4, <1>6, Fijo
  <2>2. pc'["tenedor"] = "entregar" => ~EsCentinela(Head(q))
    BY <1>3
  <2>3. Recibidas' \in Nat /\ Dadas' \in Nat
    BY <1>1, <1>5, <1>6, <1>7
  <2> QED BY <1>1, <1>3, <1>4, <1>5, <1>7, <2>1, <2>2, <2>3, Fijo DEF EnOrden, RespuestasEnFila
<1>10. PedidosEnOrden' /\ AlmacenAlDia' /\ Entregas' /\ Registrados'
  BY <1>1, <1>3, <1>5, <1>7, <1>8, PedidosQuietos, AlmacenQuieto, EntregasQuietas,
     RegistradosQuietos DEF EnOrden
<1>11. Cierre'
  <2>1. pc'["tenedor"] = "fin" <=> EsCentinela(Head(q))
    BY <1>3
  <2>2. /\ HayCentinela(Tail(q)) \/ EsCentinela(Head(q)) => HayCentinela(q)
        /\ NadaTras(q, FALSE) => NadaTras(Tail(q), EsCentinela(Head(q)))
    BY <1>1, <1>2, PrimeraCentinela
  <2>3. CierraBien =>
           /\ NadaTras(reqQ'.queue_, pc'["servidor"] = "fin")
           /\ NadaTras(respQ'.queue_, pc'["tenedor"] = "fin")
           /\ HayCentinela(reqQ'.queue_) \/ pc'["servidor"] = "fin" =>
                HayCentinela(reqQ.queue_) \/ pc["servidor"] = "fin"
           /\ HayCentinela(respQ'.queue_) \/ pc'["tenedor"] = "fin" => pc'["servidor"] = "fin"
    <3> SUFFICES ASSUME CierraBien
                 PROVE  /\ NadaTras(reqQ.queue_, pc["servidor"] = "fin")
                        /\ NadaTras(Tail(q), pc'["tenedor"] = "fin")
                        /\ HayCentinela(Tail(q)) \/ pc'["tenedor"] = "fin" => pc["servidor"] = "fin"
      BY <1>1, <1>2, <1>3
    <3>1. NadaTras(q, pc["tenedor"] = "fin") /\ pc["tenedor"] # "fin"
      BY <1>1 DEF Cierre
    <3>2. NadaTras(q, FALSE)
      BY <3>1 DEF NadaTras
    <3>3. NadaTras(Tail(q), pc'["tenedor"] = "fin")
      BY <3>2, <2>1, <2>2 DEF NadaTras
    <3> QED BY <2>1, <2>2, <3>3 DEF Cierre
  <2>4. \A h \in {"servidor", "tenedor"} : pc[h] = "fin" => pc'[h] = "fin"
    BY <1>1, <1>3
  <2> QED BY <1>1, <1>8, <2>3, <2>4, CierreDeHilo
<1> QED BY <1>2, <1>3, <1>9, <1>10, <1>11 DEF EnOrden

\* Among the requests of one client, call i comes after those of lower numbers.
LEMMA Turno ==
  ASSUME programa \in Programas, NEW c \in Clientes, NEW i \in EnviosDe(c)
  PROVE  /\ IsFiniteSet(EnviosDe(c)) /\ Cardinality(EnviosDe(c)) \in Nat
         /\ Vez(c, i) = Cardinality({j \in EnviosDe(c) : Num(j) < Num(i)}) + 1
         /\ IsFiniteSet({j \in EnviosDe(c) : Num(j) < Num(i)})
         /\ Vez(c, i) \in Nat
<1> DEFINE B == {j \in EnviosDe(c) : Num(j) < Num(i)}
<1>1. /\ IsFiniteSet(Envios) /\ EnviosDe(c) \subseteq Envios /\ i \in Envios
      /\ \A j \in Envios : j \in Int
  BY DelPrograma DEF EnviosDe
<1>2. IsFiniteSet(EnviosDe(c)) /\ IsFiniteSet(B)
  <2>1. B \subseteq EnviosDe(c)
    OBVIOUS
  <2> QED BY <2>1, <1>1, FS_Subset
<1>3. ASSUME NEW j \in EnviosDe(c) PROVE j <= i <=> Num(j) < Num(i) \/ j = i
  <2>1. j \in Envios /\ j \in Int /\ i \in Int /\ (j < i <=> Num(j) < Num(i))
    BY <1>1, Numeros
  <2> QED BY <2>1
<1>4. {j \in EnviosDe(c) : j <= i} = B \cup {i}
  BY <1>3
<1>5. i \notin B
  <2>1. Num(i) \in Nat
    BY <1>1, Numeros
  <2> QED BY <2>1
<1> HIDE DEF B
<1>6. Vez(c, i) = Cardinality(B) + 1 /\ Cardinality(B) \in Nat
  BY <1>2, <1>4, <1>5, FS_AddElement, FS_CardinalityType DEF Vez
<1> QED BY <1>2, <1>6, FS_CardinalityType DEF B

\* The call whose answer the Tenedor holds has been registered.
LEMMA Registrado ==
  ASSUME EnOrden, NEW i \in Envios, Num(i) = Dadas, pc["tenedor"] = "entregar"
  PROVE  programa[i][2].client_id \in clients_
<1>1. /\ programa \in Programas /\ pos \in Int /\ i \in Int
      /\ requests_ \in Nat /\ Dadas \in Nat /\ Recibidas \in Nat
  <2>1. programa \in Programas /\ pos \in 1 .. Len(programa) + 1
    BY DEF EnOrden, Lugares
  <2>2. Len(programa) \in Nat /\ i \in Int
    BY <2>1, DelPrograma
  <2>3. pos \in Int
    BY <2>1, <2>2, Uno
  <2> QED BY <2>1, <2>2, <2>3 DEF EnOrden, PedidosEnOrden, RespuestasEnFila
<1>2. Todas(respQ.queue_) \in Nat /\ Todas(reqQ.queue_) \in Nat
  <2>1. \A S : \A q \in ColaDe(S) : q.queue_ \in Seq(S)
    BY DEF ColaDe
  <2>2. Len(respQ.queue_) \in Nat /\ Len(reqQ.queue_) \in Nat
    BY <2>1, LenProperties DEF EnOrden, Colas
  <2> QED BY <2>2, Contadas DEF Todas
<1>3. /\ Dadas = Recibidas - 1
      /\ Recibidas = requests_ - (IF pc["servidor"] = "responder" THEN 1 ELSE 0) - Todas(respQ.queue_)
      /\ requests_ + (IF pc["servidor"] = "atender" THEN 1 ELSE 0) + Todas(reqQ.queue_) = Metidas
  BY DEF Dadas, Recibidas, Contestadas, Tomadas, EnOrden, PedidosEnOrden
<1>4. Num(i) < Metidas
  BY <1>1, <1>2, <1>3
<1>5. CASE pc["main"] = "senalar reqQ"
  <2>1. i < pos + 1
    <3>1. pos + 1 \in Int
      BY <1>1
    <3>2. i < pos + 1 <=> Num(i) < Num(pos + 1)
      BY <1>1, <3>1, Numeros
    <3> QED BY <1>4, <1>5, <3>2 DEF Metidas
  <2>2. i < pos \/ i = pos
    BY <1>1, <2>1, Uno
  <2> QED BY <1>5, <2>2 DEF EnOrden, Registrados
<1>6. CASE pc["main"] # "senalar reqQ"
  <2>1. i < pos
    BY <1>1, <1>4, <1>6, Numeros DEF Metidas
  <2> QED BY <2>1 DEF EnOrden, Registrados
<1> QED BY <1>5, <1>6

LEMMA PasoTenedorEntregar ==
  ASSUME EnOrden, Cierre, TenedorEntregar
  PROVE  EnOrden' /\ Cierre'
<1>1. /\ programa' = programa /\ pos' = pos /\ clients_' = clients_
      /\ requests_' = requests_ /\ store_' = store_
      /\ reqQ' = reqQ /\ respQ' = respQ /\ req' = req /\ resp' = resp
      /\ pc["tenedor"] = "entregar"
      /\ programa \in Programas /\ Dadas \in Nat /\ Recibidas \in Nat
  BY DEF TenedorEntregar, mainVars, servidorVars, EnOrden, RespuestasEnFila, Lugares
<1>2. PICK i \in Envios : Num(i) = Dadas /\ resp = Debidas[i]
  BY <1>1 DEF EnOrden, RespuestasEnFila
<1>3. /\ Lugares' /\ pc'["tenedor"] = "esperar"
      /\ pc'["main"] = pc["main"] /\ pc'["servidor"] = pc["servidor"]
  BY <1>1, Mueve, Fijo DEF TenedorEntregar, EnOrden, Lugares
<1>4. /\ Tomadas' = Tomadas /\ Recibidas' = Recibidas /\ Dadas = Recibidas - 1
      /\ Dadas' = Recibidas
  BY <1>1, <1>3 DEF Tomadas, Contestadas, Recibidas, Dadas
<1>5. Metidas' = Metidas
  BY <1>1, <1>3, CuentaDeMetidas
<1>6. RespuestasEnFila'
  BY <1>1, <1>3, <1>4, Fijo DEF EnOrden, RespuestasEnFila
<1>7. Colas' /\ PedidosEnOrden' /\ AlmacenAlDia' /\ Registrados' /\ Cierre'
  <2>1. \A h \in {"servidor", "tenedor"} : pc'[h] = "fin" <=> pc[h] = "fin"
    BY <1>1, <1>3
  <2> QED BY <1>1, <1>3, <1>4, <1>5, <2>1, PedidosQuietos, AlmacenQuieto, RegistradosQuietos,
             CierreQuieto DEF EnOrden, Colas
<1>8. Entregas'
  <2>a. PICK d \in Clientes : d = programa[i][2].client_id
    BY <1>1, <1>2, DelPrograma
  <2> DEFINE e == entregas[d]
  <2>1. /\ d \in Clientes /\ i \in EnviosDe(d) /\ e \in Seq(Salidas) /\ Esperada(i) \in Salidas
        /\ entregas' = [entregas EXCEPT ![d] = Append(e, Esperada(i))]
    <3>1. /\ d \in Clientes /\ i \in EnviosDe(d) /\ resp.client_id = d /\ resp.texto = Esperada(i)
          /\ Esperada(i) \in Salidas
      BY <1>1, <1>2, <2>a, DelPrograma, Mensajes DEF EnviosDe
    <3>2. d \in clients_
      BY <1>1, <1>2, <2>a, Registrado
    <3> QED BY <3>1, <3>2 DEF TenedorEntregar, EnOrden, Entregas
  <2>2. \A c : \A j \in EnviosDe(c) : Num(j) \in Nat /\ j \in Envios
                                      /\ (Num(j) = Dadas => j = i /\ c = d)
    BY <1>1, <1>2, <2>a, DelPrograma, Numeros DEF EnviosDe
  <2>3. \A c : Servidos(c)' = {j \in EnviosDe(c) : Num(j) < Dadas + 1}
    BY <1>1, <1>4, Fijo DEF Servidos
  <2>4. ASSUME NEW c \in Clientes \ {d}
        PROVE  /\ Len(entregas'[c]) = Cardinality(Servidos(c)')
               /\ \A j \in EnviosDe(c) :
                    Num(j) < Dadas' => entregas'[c][Vez(c, j)] = Esperada(j)
    <3>1. \A j \in EnviosDe(c) : Num(j) < Dadas + 1 <=> Num(j) < Dadas
      BY <1>1, <2>2
    <3>2. Servidos(c)' = Servidos(c)
      BY <2>3, <3>1 DEF Servidos
    <3>3. entregas'[c] = entregas[c]
      BY <2>1
    <3>4. Dadas' = Dadas + 1
      BY <1>4, <1>1
    <3> QED BY <3>1, <3>2, <3>3, <3>4 DEF EnOrden, Entregas
  <2>5. /\ Len(e) = Cardinality(Servidos(d)) /\ IsFiniteSet(Servidos(d)) /\ Len(e) \in Nat
        /\ Vez(d, i) = Len(e) + 1
    <3>1. Servidos(d) = {j \in EnviosDe(d) : Num(j) < Num(i)}
      BY <1>2 DEF Servidos
    <3>2. Len(e) = Cardinality(Servidos(d))
      BY <2>1 DEF EnOrden, Entregas
    <3> QED BY <1>1, <2>1, <3>1, <3>2, Turno, LenProperties
  <2>6. Len(entregas'[d]) = Cardinality(Servidos(d)')
    <3>1. \A j \in EnviosDe(d) : Num(j) < Dadas + 1 <=> Num(j) < Dadas \/ j = i
      BY <1>1, <1>2, <2>2
    <3>2. Servidos(d)' = Servidos(d) \cup {i}
      <4>1. \A j : j \in Servidos(d)' <=> j \in EnviosDe(d) /\ Num(j) < Dadas + 1
        BY <2>3
      <4>2. \A j : j \in Servidos(d) <=> j \in EnviosDe(d) /\ Num(j) < Dadas
        BY DEF Servidos
      <4> QED BY <4>1, <4>2, <3>1, <2>1
    <3>a. i \notin Servidos(d)
      BY <1>1, <1>2 DEF Servidos
    <3>3. entregas'[d] = Append(e, Esperada(i))
      BY <2>1 DEF EnOrden, Entregas
    <3>4. Len(entregas'[d]) = Len(e) + 1
      BY <2>1, <3>3, AppendProperties
    <3> QED BY <2>5, <3>2, <3>a, <3>4, FS_AddElement
  <2>7. ASSUME NEW j \in EnviosDe(d), Num(j) < Dadas'
        PROVE  entregas'[d][Vez(d, j)] = Esperada(j)
    <3>1. entregas'[d] = Append(e, Esperada(i))
      BY <2>1 DEF EnOrden, Entregas
    <3>2. Num(j) < Dadas \/ j = i
      BY <1>1, <1>4, <2>2, <2>7
    <3>3. CASE j = i
      BY <2>1, <2>5, <3>1, <3>3, AppendProperties
    <3>4. CASE Num(j) < Dadas
      <4>1. e[Vez(d, j)] = Esperada(j)
        BY <2>1, <3>4 DEF EnOrden, Entregas
      <4>2. Vez(d, j) \in 1 .. Len(e)
        <5> DEFINE B == {k \in EnviosDe(d) : Num(k) < Num(j)}
        <5>1. IsFiniteSet(B) /\ Vez(d, j) = Cardinality(B) + 1
          BY <1>1, <2>1, Turno
        <5>2. \A k \in EnviosDe(d) : Num(k) < Num(j) => Num(k) < Dadas
          BY <1>1, <2>2, <3>4
        <5>3. B \cup {j} \subseteq Servidos(d)
          BY <3>4, <5>2 DEF Servidos
        <5>4. j \notin B
          BY <2>2
        <5> HIDE DEF B
        <5>5. /\ IsFiniteSet(B \cup {j}) /\ Cardinality(B \cup {j}) = Cardinality(B) + 1
              /\ Cardinality(B) \in Nat
          BY <5>1, <5>4, FS_AddElement, FS_CardinalityType
        <5>6. Cardinality(B \cup {j}) <= Cardinality(Servidos(d))
          BY <2>5, <5>3, <5>5, FS_Subset
        <5> QED BY <2>5, <5>1, <5>5, <5>6
      <4> QED BY <2>1, <3>1, <4>1, <4>2, AppendProperties
    <3> QED BY <3>2, <3>3, <3>4
  <2>8. entregas' \in [Clientes -> Seq(Salidas)]
    <3>1. Append(e, Esperada(i)) \in Seq(Salidas)
      BY <2>1, AppendProperties
    <3> QED BY <2>1, <3>1 DEF EnOrden, Entregas
  <2>9. ASSUME NEW c \in Clientes
        PROVE  /\ Len(entregas'[c]) = Cardinality(Servidos(c)')
               /\ \A j \in EnviosDe(c) :
                    Num(j) < Dadas' => entregas'[c][Vez(c, j)] = Esperada(j)
    <3>1. CASE c = d
      BY <2>6, <2>7, <3>1
    <3>2. CASE c # d
      BY <2>4, <3>2
    <3> QED BY <3>1, <3>2
  <2> QED BY <1>1, <2>8, <2>9, Fijo DEF Entregas
<1> QED BY <1>3, <1>6, <1>7, <1>8 DEF EnOrden

-----------------------------------------------------------------------------
(***************************************************************************)
(* Every step keeps the order and the end in order.                        *)
(***************************************************************************)
EnSuOrden == EnOrden /\ Cierre

LEMMA Quieto ==
  ASSUME EnSuOrden, UNCHANGED vars
  PROVE  EnSuOrden'
<1>1. /\ programa' = programa /\ pos' = pos /\ clients_' = clients_ /\ pc' = pc
      /\ requests_' = requests_ /\ store_' = store_ /\ entregas' = entregas
      /\ reqQ' = reqQ /\ respQ' = respQ /\ req' = req /\ resp' = resp
  BY DEF vars, mainVars, servidorVars, tenedorVars
<1>2. Lugares' /\ Colas'
  BY <1>1, Fijo DEF EnSuOrden, EnOrden, Lugares, Colas
<1>3. /\ Tomadas' = Tomadas /\ Recibidas' = Recibidas /\ Dadas' = Dadas /\ Metidas' = Metidas
  BY <1>1, CuentasDeMain, CuentaDeMetidas
<1> QED BY <1>1, <1>2, <1>3, PedidosQuietos, AlmacenQuieto, RespuestasQuietas,
           EntregasQuietas, RegistradosQuietos, CierreQuieto DEF EnSuOrden, EnOrden

LEMMA CadaPaso == EnSuOrden /\ [Next]_vars => EnSuOrden'
<1> SUFFICES ASSUME EnSuOrden, [Next]_vars PROVE EnSuOrden'
  OBVIOUS
<1>1. CASE Main
  BY <1>1, PasoSubmitRegistrar, PasoSubmitEncolar, PasoServidorStop, PasoTenedorStop,
     PasoMainSenalar, PasoWaitToFinish DEF Main, EnSuOrden
<1>2. CASE Servidor
  BY <1>2, PasoServidorEsperar, PasoServidorSacar, PasoServidorAtender, PasoServidorEncolar,
     PasoServidorSenalar DEF Servidor, EnSuOrden
<1>3. CASE Tenedor
  BY <1>3, PasoTenedorEsperar, PasoTenedorSacar, PasoTenedorEntregar DEF Tenedor, EnSuOrden
<1>4. CASE UNCHANGED vars
  BY <1>4, Quieto
<1> QED BY <1>1, <1>2, <1>3, <1>4 DEF Next

\* The messages that are on their way are those of consecutive requests, and
\* in an orderly end nothing comes after a sentinel.
THEOREM OrdenSiempre == Spec => []EnSuOrden
<1>1. Init => EnSuOrden
  BY Comienzo DEF EnSuOrden
<1> QED BY <1>1, CadaPaso, PTL DEF Spec

\* The Servidor serves no more requests than the program makes.
LEMMA Servidas ==
  ASSUME EnOrden
  PROVE  /\ programa \in Programas /\ pos \in Int /\ Len(programa) \in Nat
         /\ pos >= 1 /\ pos <= Len(programa) + 1
         /\ Todas(reqQ.queue_) \in Nat /\ Todas(respQ.queue_) \in Nat
         /\ requests_ \in Nat /\ Metidas \in Nat
         /\ requests_ <= Metidas /\ Metidas <= Num(Len(programa) + 1)
<1>1. programa \in Programas /\ pos \in 1 .. Len(programa) + 1 /\ requests_ \in Nat
  BY DEF EnOrden, Lugares, PedidosEnOrden
<1>2. Len(programa) \in Nat
  BY <1>1, DelPrograma
<1>3. Todas(respQ.queue_) \in Nat /\ Todas(reqQ.queue_) \in Nat
  <2>1. \A S : \A q \in ColaDe(S) : q.queue_ \in Seq(S)
    BY DEF ColaDe
  <2>2. Len(respQ.queue_) \in Nat /\ Len(reqQ.queue_) \in Nat
    BY <2>1, LenProperties DEF EnOrden, Colas
  <2> QED BY <2>2, Contadas DEF Todas
<1>4. Tomadas + Todas(reqQ.queue_) = Metidas
      /\ Tomadas = requests_ + (IF pc["servidor"] = "atender" THEN 1 ELSE 0)
  BY DEF EnOrden, PedidosEnOrden, Tomadas
<1>5. pos \in Int /\ pos >= 1 /\ pos <= Len(programa) + 1
  BY <1>1, <1>2
<1>6. Metidas <= Num(Len(programa) + 1)
  <2>1. Num(pos) <= Num(Len(programa) + 1)
    BY <1>1, <1>2, <1>5, Numeros
  <2>2. CASE pc["main"] = "senalar reqQ"
    <3>1. pos <= Len(programa)
      BY <1>1, <2>2, DelPrograma DEF EnOrden, Lugares
    <3>2. pos + 1 \in Int /\ Len(programa) + 1 \in Int /\ pos + 1 <= Len(programa) + 1
      BY <1>2, <1>5, <3>1
    <3>3. Num(pos + 1) <= Num(Len(programa) + 1)
      BY <1>1, <3>2, Numeros
    <3> QED BY <2>2, <3>3 DEF Metidas
  <2> QED BY <2>1, <2>2 DEF Metidas
<1>7. requests_ <= Metidas /\ Metidas \in Nat
  BY <1>1, <1>3, <1>4
<1> QED BY <1>1, <1>2, <1>3, <1>5, <1>6, <1>7

\* The queues keep their types, a thread that holds a message holds one meant
\* for it, and the store, the count of requests and the answers given stay
\* within their ranges.
THEOREM TiposSimulacion == Spec => []TypeOK
<1>1. EnSuOrden => TypeOK
  <2> SUFFICES ASSUME EnSuOrden PROVE TypeOK
    OBVIOUS
  <2> USE DEF EnSuOrden, EnOrden
  <2>1. ReqQ!TSQTypeOK /\ RespQ!TSQTypeOK
    <3>1. /\ PasoReq \in [{"main"} \cup {"servidor"} -> {"fuera", "senal", "frente"}]
          /\ \A h \in {"main"} \cup {"servidor"} :
               /\ PasoReq[h] = "senal" => h \in {"main"}
               /\ PasoReq[h] = "frente" => h \in {"servidor"}
      BY DEF PasoReq
    <3>2. /\ PasoResp \in [{"main", "servidor"} \cup {"tenedor"} -> {"fuera", "senal", "frente"}]
          /\ \A h \in {"main", "servidor"} \cup {"tenedor"} :
               /\ PasoResp[h] = "senal" => h \in {"main", "servidor"}
               /\ PasoResp[h] = "frente" => h \in {"tenedor"}
      BY DEF PasoResp
    <3> QED BY <3>1, <3>2 DEF ReqQ!TSQTypeOK, RespQ!TSQTypeOK, ReqQ!Hilos, RespQ!Hilos, Colas, ColaDe
  <2>2. /\ pos \in 1 .. (Len(programa) + 1)
        /\ programa \in Programas
    BY DEF Lugares
  <2>3. /\ pc["servidor"] = "atender" => req \in Peticiones
        /\ pc["servidor"] = "responder" => req \in Respuestas
        /\ pc["tenedor"] = "entregar" => resp \in Respuestas
    BY <2>2, Mensajes DEF PedidosEnOrden, RespuestasEnFila
  <2>4. requests_ \in 0 .. MaxLlamadas
    <3>1. /\ requests_ \in Nat /\ Metidas \in Nat /\ Len(programa) + 1 \in Int
          /\ requests_ <= Metidas /\ Metidas <= Num(Len(programa) + 1)
      BY Servidas
    <3>2. Num(Len(programa) + 1) \in Nat /\ Num(Len(programa) + 1) <= MaxLlamadas
      BY <2>2, <3>1, Numeros
    <3> QED BY <3>1, <3>2, SimulacionValida
  <2> QED BY <2>1, <2>2, <2>3, <2>4 DEF TypeOK, AlmacenAlDia, Registrados, Entregas
<1> QED BY <1>1, OrdenSiempre, PTL

\* Whatever the speed of the threads, each client is given the answers to its
\* own requests in the order it made them, each computed from exactly the
\* requests before it.
THEOREM CadaRespuestaEnOrden == Spec => []RespuestasEnOrden
<1>1. EnSuOrden => RespuestasEnOrden
  <2> SUFFICES ASSUME EnSuOrden, NEW c \in Clientes
               PROVE  /\ Len(entregas[c]) <= Cardinality(EnviosDe(c))
                      /\ \A i \in EnviosDe(c) :
                           Vez(c, i) <= Len(entregas[c]) => entregas[c][Vez(c, i)] = Esperada(i)
    BY DEF RespuestasEnOrden
  <2>1. /\ programa \in Programas /\ Dadas \in Nat
        /\ Len(entregas[c]) = Cardinality(Servidos(c))
        /\ \A i \in EnviosDe(c) : Num(i) < Dadas => entregas[c][Vez(c, i)] = Esperada(i)
    BY DEF EnSuOrden, EnOrden, Lugares, RespuestasEnFila, Entregas
  <2>2. EnviosDe(c) \subseteq Envios /\ IsFiniteSet(EnviosDe(c))
    <3>1. EnviosDe(c) \subseteq Envios /\ IsFiniteSet(Envios)
      BY <2>1, DelPrograma DEF EnviosDe
    <3> QED BY <3>1, FS_Subset
  <2>3. /\ IsFiniteSet(Servidos(c)) /\ Cardinality(Servidos(c)) <= Cardinality(EnviosDe(c))
        /\ Cardinality(Servidos(c)) \in Nat
    <3>1. Servidos(c) \subseteq EnviosDe(c)
      BY DEF Servidos
    <3> QED BY <2>2, <3>1, FS_Subset, FS_CardinalityType
  <2>4. ASSUME NEW i \in EnviosDe(c), ~(Num(i) < Dadas) PROVE ~(Vez(c, i) <= Len(entregas[c]))
    <3> DEFINE B == {j \in EnviosDe(c) : Num(j) < Num(i)}
    <3>1. IsFiniteSet(B) /\ Vez(c, i) = Cardinality(B) + 1
      BY <2>1, Turno
    <3>2. \A j \in EnviosDe(c) : Num(j) \in Nat
      BY <2>1, <2>2, DelPrograma, Numeros
    <3>3. Servidos(c) \subseteq B
      <4>1. \A j \in EnviosDe(c) : Num(j) < Dadas => Num(j) < Num(i)
        BY <2>1, <2>4, <3>2
      <4> QED BY <4>1 DEF Servidos
    <3> HIDE DEF B
    <3>4. Cardinality(Servidos(c)) <= Cardinality(B) /\ Cardinality(B) \in Nat
      BY <3>1, <3>3, FS_Subset, FS_CardinalityType
    <3> QED BY <2>1, <2>3, <3>1, <3>4
  <2> QED BY <2>1, <2>3, <2>4
<1> QED BY <1>1, OrdenSiempre, PTL

\* When main returns after it stopped and joined the Servidor and then the
\* Tenedor, every client has been given all its answers.
THEOREM NadaSePierde == Spec => []CierreSinPerdidas
<1>1. EnSuOrden /\ RespuestasEnOrden => CierreSinPerdidas
  <2> SUFFICES ASSUME EnSuOrden, RespuestasEnOrden, Terminado, CierraBien, ParaAntes,
                      NEW c \in Clientes
               PROVE  Len(entregas[c]) = Cardinality(EnviosDe(c))
    BY DEF CierreSinPerdidas, Entregado
  <2> USE DEF EnSuOrden, EnOrden
  <2>1. /\ programa \in Programas /\ pos \in Int /\ Len(programa) \in Nat /\ requests_ \in Nat
        /\ pos = Len(programa) + 1
    <3>1. /\ programa \in Programas /\ pos \in Int /\ Len(programa) \in Nat /\ requests_ \in Nat
          /\ pos <= Len(programa) + 1
      BY Servidas
    <3> QED BY <3>1 DEF Terminado
  <2>2. pc["servidor"] = "fin" /\ pc["tenedor"] = "fin"
    <3>1. \A h \in {"servidor", "tenedor"} : \E i \in 1 .. pos - 1 : programa[i] = <<"waitToFinish", h>>
      <4>1. 1 .. pos - 1 = 1 .. Len(programa)
        BY <2>1
      <4> QED BY <4>1 DEF ParaAntes
    <3> QED BY <3>1 DEF Cierre
  <2>3. ASSUME NEW S, NEW q \in ColaDe(S), NadaTras(q.queue_, TRUE) PROVE Todas(q.queue_) = 0
    <3>1. DOMAIN q.queue_ = 1 .. Len(q.queue_)
      BY LenProperties DEF ColaDe
    <3>2. Otras(q.queue_, Len(q.queue_)) = {}
      BY <2>3, <3>1 DEF Otras, NadaTras
    <3> QED BY <3>2, FS_EmptySet DEF Todas, Ordenes
  <2>4. Todas(reqQ.queue_) = 0 /\ Todas(respQ.queue_) = 0
    <3>1. NadaTras(reqQ.queue_, TRUE) /\ NadaTras(respQ.queue_, TRUE)
      BY <2>2 DEF Cierre, NadaTras
    <3> QED BY <2>3, <3>1 DEF Colas
  <2>5. Metidas = Num(Len(programa) + 1)
    BY <2>2 DEF Cierre
  <2>6. Dadas = Num(Len(programa) + 1)
    <3>1. Tomadas = requests_ /\ Contestadas = requests_
      BY <2>1, <2>2 DEF Tomadas, Contestadas
    <3>2. Tomadas + Todas(reqQ.queue_) = Metidas
      BY DEF PedidosEnOrden
    <3>3. requests_ = Metidas
      BY <2>1, <2>4, <3>1, <3>2
    <3>4. Dadas = requests_
      BY <2>1, <2>2, <2>4, <3>1 DEF Dadas, Recibidas
    <3> QED BY <2>5, <3>3, <3>4
  <2>7. Servidos(c) = EnviosDe(c)
    <3>1. ASSUME NEW i \in EnviosDe(c) PROVE Num(i) < Num(Len(programa) + 1)
      <4>1. i \in Envios /\ i \in Int /\ i < Len(programa) + 1 /\ Len(programa) + 1 \in Int
        BY <2>1, DelPrograma DEF EnviosDe
      <4> QED BY <2>1, <4>1, Numeros
    <3> QED BY <2>6, <3>1 DEF Servidos
  <2> QED BY <2>7 DEF Entregas
<1> QED BY <1>1, OrdenSiempre, CadaRespuestaEnOrden, PTL

-----------------------------------------------------------------------------
(***************************************************************************)
(* How the threads use the two queues.                                     *)
(***************************************************************************)
\* Where each queue sees a thread, for where the thread is.
LEMMA Pasos ==
  /\ PasoReq = [h \in {"main", "servidor"} |-> PasoReq[h]]
  /\ PasoReq["main"] = IF pc["main"] = "senalar reqQ" THEN "senal" ELSE "fuera"
  /\ PasoReq["servidor"] = IF pc["servidor"] = "frente" THEN "frente" ELSE "fuera"
  /\ PasoResp = [h \in {"main", "servidor", "tenedor"} |-> PasoResp[h]]
  /\ PasoResp["main"] = IF pc["main"] = "senalar respQ" THEN "senal" ELSE "fuera"
  /\ PasoResp["servidor"] = IF pc["servidor"] = "senalar" THEN "senal" ELSE "fuera"
  /\ PasoResp["tenedor"] = IF pc["tenedor"] = "frente" THEN "frente" ELSE "fuera"
BY DEF PasoReq, PasoResp

\* A step of main on reqQ is one of a producer, and one of the Servidor is one
\* of the consumer.
LEMMA UsoDeReqQ ==
  ASSUME EnSuOrden, [Next]_vars
  PROVE  [ReqQ!NextBloqueante]_ReqQ!tsqVars
<1> USE DEF EnSuOrden, EnOrden
<1>a. Lugares
  OBVIOUS
<1>1. CASE SubmitEncolar \/ ServidorStop
  <2>1. PICK e \in Peticiones \cup {Centinela} : reqQ' = ReqQ!Meter(reqQ, e)
    <3>1. CASE SubmitEncolar
      <4>1. Objeto \in Peticiones
        BY <3>1, DelPrograma DEF SubmitEncolar, Lugares, Objeto
      <4> QED BY <3>1, <4>1 DEF SubmitEncolar
    <3>2. CASE ServidorStop
      BY <3>2 DEF ServidorStop
    <3> QED BY <1>1, <3>1, <3>2
  <2>2. /\ pc["main"] \in {"llamar", "encolar"} /\ pc'["main"] = "senalar reqQ"
        /\ pc'["servidor"] = pc["servidor"]
    BY <1>1, <1>a, Mueve DEF SubmitEncolar, ServidorStop
  <2>3. PasoReq["main"] = "fuera" /\ PasoReq' = [PasoReq EXCEPT !["main"] = "senal"]
    BY <2>2 DEF PasoReq
  <2> QED BY <2>1, <2>3 DEF ReqQ!NextBloqueante, ReqQ!Encolar, ReqQ!EnqueuePush
<1>2. CASE MainSenalar
  <2>1. /\ pc'["main"] = "llamar" /\ pc'["servidor"] = pc["servidor"]
    BY <1>2, <1>a, Mueve DEF MainSenalar
  <2>2. CASE pc["main"] = "senalar reqQ"
    <3>1. PasoReq["main"] = "senal" /\ PasoReq' = [PasoReq EXCEPT !["main"] = "fuera"]
      BY <2>1, <2>2 DEF PasoReq
    <3>2. reqQ' = ReqQ!Senalar(reqQ)
      BY <1>2, <2>2 DEF MainSenalar
    <3> QED BY <3>1, <3>2 DEF ReqQ!NextBloqueante, ReqQ!Resto, ReqQ!EnqueueSignal
  <2>3. CASE pc["main"] = "senalar respQ"
    <3>1. PasoReq' = PasoReq /\ reqQ' = reqQ
      BY <1>2, <2>1, <2>3 DEF PasoReq, MainSenalar
    <3> QED BY <3>1 DEF ReqQ!tsqVars
  <2> QED BY <1>2, <2>2, <2>3 DEF MainSenalar
<1>3. CASE ServidorEsperar
  <2>1. /\ pc["servidor"] = "esperar" /\ pc'["servidor"] = "frente" /\ pc'["main"] = pc["main"]
    BY <1>3, <1>a, Mueve DEF ServidorEsperar
  <2>2. PasoReq["servidor"] = "fuera" /\ PasoReq' = [PasoReq EXCEPT !["servidor"] = "frente"]
    BY <2>1 DEF PasoReq
  <2> QED BY <1>3, <2>2
          DEF ServidorEsperar, ReqQ!NextBloqueante, ReqQ!Resto, ReqQ!DequeueWait
<1>4. CASE ServidorSacar
  <2>1. /\ pc["servidor"] = "frente" /\ pc'["servidor"] \in {"fin", "atender"}
        /\ pc'["main"] = pc["main"]
    BY <1>4, <1>a, Mueve DEF ServidorSacar
  <2>2. PasoReq["servidor"] = "frente" /\ PasoReq' = [PasoReq EXCEPT !["servidor"] = "fuera"]
    BY <2>1 DEF PasoReq
  <2> QED BY <1>4, <2>2 DEF ServidorSacar, ReqQ!NextBloqueante, ReqQ!Resto, ReqQ!DequeuePop
<1>5. CASE \/ SubmitRegistrar \/ TenedorStop \/ WaitToFinish
           \/ ServidorAtender \/ ServidorEncolar \/ ServidorSenalar \/ Tenedor \/ UNCHANGED vars
  <2>1. reqQ' = reqQ
    BY <1>5 DEF SubmitRegistrar, TenedorStop, WaitToFinish, ServidorAtender, ServidorEncolar,
                ServidorSenalar, Tenedor, TenedorEsperar, TenedorSacar, TenedorEntregar, vars
  <2>2. PasoReq' = PasoReq
    <3>1. \/ pc' = pc
          \/ /\ pc["main"] = "llamar" /\ pc'["main"] \in {"encolar", "senalar respQ"}
             /\ pc'["servidor"] = pc["servidor"]
          \/ /\ pc["servidor"] \in {"atender", "responder", "senalar"}
             /\ pc'["servidor"] \in {"responder", "senalar", "esperar"}
             /\ pc'["main"] = pc["main"]
          \/ /\ pc'["main"] = pc["main"] /\ pc'["servidor"] = pc["servidor"]
      BY <1>5, <1>a, Mueve
         DEF SubmitRegistrar, TenedorStop, WaitToFinish, ServidorAtender, ServidorEncolar,
             ServidorSenalar, Tenedor, TenedorEsperar, TenedorSacar, TenedorEntregar, vars
    <3> QED BY <3>1 DEF PasoReq
  <2> QED BY <2>1, <2>2 DEF ReqQ!tsqVars
<1> QED BY <1>1, <1>2, <1>3, <1>4, <1>5 DEF Next, Main, Servidor

\* On respQ main and the Servidor produce and the Tenedor consumes.
LEMMA UsoDeRespQ ==
  ASSUME EnSuOrden, [Next]_vars
  PROVE  [RespQ!NextBloqueante]_RespQ!tsqVars
<1> USE DEF EnSuOrden, EnOrden
<1>a. Lugares
  OBVIOUS
<1>1. CASE TenedorStop
  <2>1. /\ pc["main"] = "llamar" /\ pc'["main"] = "senalar respQ"
        /\ pc'["servidor"] = pc["servidor"] /\ pc'["tenedor"] = pc["tenedor"]
    BY <1>1, <1>a, Mueve DEF TenedorStop
  <2>2. PasoResp["main"] = "fuera" /\ PasoResp' = [PasoResp EXCEPT !["main"] = "senal"]
    BY <2>1 DEF PasoResp
  <2>3. respQ' = RespQ!Meter(respQ, Centinela)
    BY <1>1 DEF TenedorStop
  <2> QED BY <2>2, <2>3 DEF RespQ!NextBloqueante, RespQ!Encolar, RespQ!EnqueuePush
<1>2. CASE ServidorEncolar
  <2>1. /\ pc["servidor"] = "responder" /\ pc'["servidor"] = "senalar"
        /\ pc'["main"] = pc["main"] /\ pc'["tenedor"] = pc["tenedor"]
    BY <1>2, <1>a, Mueve DEF ServidorEncolar
  <2>2. PasoResp["servidor"] = "fuera" /\ PasoResp' = [PasoResp EXCEPT !["servidor"] = "senal"]
    BY <2>1 DEF PasoResp
  <2>3. respQ' = RespQ!Meter(respQ, req) /\ req \in Respuestas
    BY <1>2, <2>1, Mensajes DEF ServidorEncolar, RespuestasEnFila, Lugares
  <2> QED BY <2>2, <2>3 DEF RespQ!NextBloqueante, RespQ!Encolar, RespQ!EnqueuePush
<1>3. CASE MainSenalar
  <2>1. /\ pc'["main"] = "llamar" /\ pc'["servidor"] = pc["servidor"]
        /\ pc'["tenedor"] = pc["tenedor"]
    BY <1>3, <1>a, Mueve DEF MainSenalar
  <2>2. CASE pc["main"] = "senalar respQ"
    <3>1. PasoResp["main"] = "senal" /\ PasoResp' = [PasoResp EXCEPT !["main"] = "fuera"]
      BY <2>1, <2>2 DEF PasoResp
    <3>2. respQ' = RespQ!Senalar(respQ)
      BY <1>3, <2>2 DEF MainSenalar
    <3> QED BY <3>1, <3>2 DEF RespQ!NextBloqueante, RespQ!Resto, RespQ!EnqueueSignal
  <2>3. CASE pc["main"] = "senalar reqQ"
    <3>1. PasoResp' = PasoResp /\ respQ' = respQ
      BY <1>3, <2>1, <2>3 DEF PasoResp, MainSenalar
    <3> QED BY <3>1 DEF RespQ!tsqVars
  <2> QED BY <1>3, <2>2, <2>3 DEF MainSenalar
<1>4. CASE ServidorSenalar
  <2>1. /\ pc["servidor"] = "senalar" /\ pc'["servidor"] = "esperar"
        /\ pc'["main"] = pc["main"] /\ pc'["tenedor"] = pc["tenedor"]
    BY <1>4, <1>a, Mueve DEF ServidorSenalar
  <2>2. PasoResp["servidor"] = "senal" /\ PasoResp' = [PasoResp EXCEPT !["servidor"] = "fuera"]
    BY <2>1 DEF PasoResp
  <2>3. respQ' = RespQ!Senalar(respQ)
    BY <1>4 DEF ServidorSenalar, SenalarRespuesta
  <2> QED BY <2>2, <2>3 DEF RespQ!NextBloqueante, RespQ!Resto, RespQ!EnqueueSignal
<1>5. CASE TenedorEsperar
  <2>1. /\ pc["tenedor"] = "esperar" /\ pc'["tenedor"] = "frente"
        /\ pc'["main"] = pc["main"] /\ pc'["servidor"] = pc["servidor"]
    BY <1>5, <1>a, Mueve DEF TenedorEsperar
  <2>2. PasoResp["tenedor"] = "fuera" /\ PasoResp' = [PasoResp EXCEPT !["tenedor"] = "frente"]
    BY <2>1 DEF PasoResp
  <2> QED BY <1>5, <2>2
          DEF TenedorEsperar, RespQ!NextBloqueante, RespQ!Resto, RespQ!DequeueWait
<1>6. CASE TenedorSacar
  <2>1. /\ pc["tenedor"] = "frente" /\ pc'["tenedor"] \in {"fin", "entregar"}
        /\ pc'["main"] = pc["main"] /\ pc'["servidor"] = pc["servidor"]
    BY <1>6, <1>a, Mueve DEF TenedorSacar
  <2>2. PasoResp["tenedor"] = "frente" /\ PasoResp' = [PasoResp EXCEPT !["tenedor"] = "fuera"]
    BY <2>1 DEF PasoResp
  <2> QED BY <1>6, <2>2 DEF TenedorSacar, RespQ!NextBloqueante, RespQ!Resto, RespQ!DequeuePop
<1>7. CASE \/ SubmitRegistrar \/ SubmitEncolar \/ ServidorStop \/ WaitToFinish
           \/ ServidorEsperar \/ ServidorSacar \/ ServidorAtender \/ TenedorEntregar
           \/ UNCHANGED vars
  <2>1. respQ' = respQ
    BY <1>7 DEF SubmitRegistrar, SubmitEncolar, ServidorStop, WaitToFinish, ServidorEsperar,
                ServidorSacar, ServidorAtender, TenedorEntregar, vars
  <2>2. PasoResp' = PasoResp
    <3>1. \/ pc' = pc
          \/ /\ pc["main"] \in {"llamar", "encolar"} /\ pc'["main"] \in {"encolar", "senalar reqQ"}
             /\ pc'["servidor"] = pc["servidor"] /\ pc'["tenedor"] = pc["tenedor"]
          \/ /\ pc["servidor"] \in {"esperar", "frente", "atender"}
             /\ pc'["servidor"] \in {"frente", "fin", "atender", "responder"}
             /\ pc'["main"] = pc["main"] /\ pc'["tenedor"] = pc["tenedor"]
          \/ /\ pc["tenedor"] = "entregar" /\ pc'["tenedor"] = "esperar"
             /\ pc'["main"] = pc["main"] /\ pc'["servidor"] = pc["servidor"]
      BY <1>7, <1>a, Mueve
         DEF SubmitRegistrar, SubmitEncolar, ServidorStop, WaitToFinish, ServidorEsperar,
             ServidorSacar, ServidorAtender, TenedorEntregar, vars
    <3> QED BY <3>1 DEF PasoResp
  <2> QED BY <2>1, <2>2 DEF RespQ!tsqVars
<1> QED BY <1>1, <1>2, <1>3, <1>4, <1>5, <1>6, <1>7 DEF Next, Main, Servidor, Tenedor

\* The threads use each queue as one of blocking calls: they implement the
\* specification under which no consumer finds it empty.
THEOREM UsanColasBloqueantes == Spec => ColasBloqueantes
<1>1. Init => ReqQ!TSQInit /\ RespQ!TSQInit
  BY DEF Init, ReqQ!TSQInit, RespQ!TSQInit, ReqQ!Hilos, RespQ!Hilos, PasoReq, PasoResp
<1>2. EnSuOrden /\ [Next]_vars => [ReqQ!NextBloqueante]_ReqQ!tsqVars /\ [RespQ!NextBloqueante]_RespQ!tsqVars
  BY UsoDeReqQ, UsoDeRespQ
<1> QED BY <1>1, <1>2, OrdenSiempre, PTL
          DEF Spec, ColasBloqueantes, ReqQ!SpecBloqueante, RespQ!SpecBloqueante
-----------------------------------------------------------------------------
(***************************************************************************)
(* The queue by itself, for any number of threads.  Whoever polls, each    *)
(* element has its permit.  With blocking calls only, as those of the      *)
(* simulation are, the semaphore counts exactly: a consumer that came      *)
(* through the wait never finds the queue empty.                           *)
(***************************************************************************)
\* The types, and counts that are numbers.
Contable == TSQTypeOK /\ IsFiniteSet(Senalando) /\ IsFiniteSet(Sacando)

\* With every use of the queue: each element has a permit.
Cubierta == Contable /\ PermisosCubren

\* With blocking calls only: the permits are as many as the elements.
Cuenta == Contable /\ Len(cola.queue_) = Permisos

\* Both sets of threads count as natural numbers.
LEMMA Cuentan ==
  ASSUME Contable
  PROVE  /\ cola.queue_ \in Seq(Elementos) /\ cola.canConsume_ \in Nat
         /\ Cardinality(Senalando) \in Nat /\ Cardinality(Sacando) \in Nat
         /\ cola = [queue_ |-> cola.queue_, canConsume_ |-> cola.canConsume_]
BY FS_CardinalityType DEF Contable, TSQTypeOK

\* A thread that moves into or out of a set of threads changes its size by
\* one, and the set it was not concerned with stays.
LEMMA MueveHilo ==
  ASSUME NEW S, IsFiniteSet(S), NEW h
  PROVE  /\ h \notin S => /\ IsFiniteSet(S \cup {h})
                          /\ Cardinality(S \cup {h}) = Cardinality(S) + 1
         /\ h \in S => /\ IsFiniteSet(S \ {h})
                       /\ Cardinality(S \ {h}) = Cardinality(S) - 1
BY FS_AddElement, FS_RemoveElement

\* enqueue puts an element and, in the hands of its thread, a permit.
LEMMA Empuja ==
  ASSUME Contable, NEW h \in Productores, NEW e \in Elementos, EnqueuePush(h, e)
  PROVE  /\ Contable'
         /\ Len(cola.queue_)' = Len(cola.queue_) + 1 /\ Permisos' = Permisos + 1
<1> DEFINE s == Append(cola.queue_, e)
<1>a. s \in Seq(Elementos)
  BY Cuentan
<1>b. cola' = [queue_ |-> s, canConsume_ |-> cola.canConsume_]
  BY Cuentan DEF EnqueuePush, Meter
<1>1. /\ paso' = [paso EXCEPT ![h] = "senal"] /\ paso[h] = "fuera"
      /\ cola'.queue_ = s /\ cola'.canConsume_ = cola.canConsume_
      /\ cola' \in [queue_ : Seq(Elementos), canConsume_ : Nat]
  <2> HIDE DEF s
  <2> QED BY <1>a, <1>b, Cuentan DEF EnqueuePush
<1>2. Senalando' = Senalando \cup {h} /\ h \notin Senalando /\ Sacando' = Sacando
  BY <1>1 DEF Hilos, Senalando, Sacando, Contable, TSQTypeOK
<1>3. TSQTypeOK'
  BY <1>1 DEF Hilos, Contable, TSQTypeOK
<1>4. /\ IsFiniteSet(Senalando') /\ IsFiniteSet(Sacando')
      /\ Cardinality(Senalando') = Cardinality(Senalando) + 1
      /\ Cardinality(Sacando') = Cardinality(Sacando)
  BY <1>2, MueveHilo DEF Contable
<1>5. Len(cola'.queue_) = Len(cola.queue_) + 1
  BY <1>1, Cuentan
<1>6. Len(cola.queue_)' = Len(cola.queue_) + 1 /\ Permisos' = Permisos + 1
  BY <1>1, <1>4, <1>5, Cuentan DEF Permisos
<1>7. QED BY <1>3, <1>4, <1>6 DEF Contable

\* The signal moves a permit to the semaphore.
LEMMA Senala ==
  ASSUME Contable, NEW h \in Productores, EnqueueSignal(h)
  PROVE  /\ Contable'
         /\ Len(cola.queue_)' = Len(cola.queue_) /\ Permisos' = Permisos
<1>1. /\ paso' = [paso EXCEPT ![h] = "fuera"] /\ paso[h] = "senal"
      /\ cola'.queue_ = cola.queue_ /\ cola'.canConsume_ = cola.canConsume_ + 1
      /\ cola' \in [queue_ : Seq(Elementos), canConsume_ : Nat]
  BY Cuentan DEF EnqueueSignal, Senalar
<1>2. Senalando' = Senalando \ {h} /\ h \in Senalando /\ Sacando' = Sacando
  BY <1>1 DEF Hilos, Senalando, Sacando, Contable, TSQTypeOK
<1>3. TSQTypeOK'
  BY <1>1 DEF Hilos, Contable, TSQTypeOK
<1>4. /\ IsFiniteSet(Senalando') /\ IsFiniteSet(Sacando')
      /\ Cardinality(Senalando') = Cardinality(Senalando) - 1
      /\ Cardinality(Sacando') = Cardinality(Sacando)
  BY <1>2, MueveHilo DEF Contable
<1>5. Len(cola.queue_)' = Len(cola.queue_) /\ Permisos' = Permisos
  BY <1>1, <1>4, Cuentan DEF Permisos
<1>6. QED BY <1>3, <1>4, <1>5 DEF Contable

\* The wait moves a permit to the consumer.
LEMMA Espera ==
  ASSUME Contable, NEW h \in Consumidores, DequeueWait(h)
  PROVE  /\ Contable'
         /\ Len(cola.queue_)' = Len(cola.queue_) /\ Permisos' = Permisos
<1>1. /\ paso' = [paso EXCEPT ![h] = "frente"] /\ paso[h] = "fuera"
      /\ cola'.queue_ = cola.queue_ /\ cola'.canConsume_ = cola.canConsume_ - 1
      /\ cola' \in [queue_ : Seq(Elementos), canConsume_ : Nat]
  BY Cuentan DEF DequeueWait, Tomar
<1>2. Sacando' = Sacando \cup {h} /\ h \notin Sacando /\ Senalando' = Senalando
  BY <1>1 DEF Hilos, Senalando, Sacando, Contable, TSQTypeOK
<1>3. TSQTypeOK'
  BY <1>1 DEF Hilos, Contable, TSQTypeOK
<1>4. /\ IsFiniteSet(Senalando') /\ IsFiniteSet(Sacando')
      /\ Cardinality(Senalando') = Cardinality(Senalando)
      /\ Cardinality(Sacando') = Cardinality(Sacando) + 1
  BY <1>2, MueveHilo DEF Contable
<1>5. Len(cola.queue_)' = Len(cola.queue_) /\ Permisos' = Permisos
  BY <1>1, <1>4, Cuentan DEF Permisos
<1>6. QED BY <1>3, <1>4, <1>5 DEF Contable

\* The consumer takes an element and uses up its permit.
LEMMA Saca ==
  ASSUME Contable, NEW h \in Consumidores, DequeuePop(h)
  PROVE  /\ Contable'
         /\ Len(cola.queue_)' = Len(cola.queue_) - 1 /\ Permisos' = Permisos - 1
<1> DEFINE s == Tail(cola.queue_)
<1>a. cola.queue_ # <<>> /\ s \in Seq(Elementos)
  BY Cuentan DEF DequeuePop
<1>b. cola' = [queue_ |-> s, canConsume_ |-> cola.canConsume_]
  BY Cuentan DEF DequeuePop, Sacar
<1>1. /\ paso' = [paso EXCEPT ![h] = "fuera"] /\ paso[h] = "frente"
      /\ cola'.queue_ = s /\ cola'.canConsume_ = cola.canConsume_
      /\ cola' \in [queue_ : Seq(Elementos), canConsume_ : Nat]
  <2> HIDE DEF s
  <2> QED BY <1>a, <1>b, Cuentan DEF DequeuePop
<1>2. Sacando' = Sacando \ {h} /\ h \in Sacando /\ Senalando' = Senalando
  BY <1>1 DEF Hilos, Senalando, Sacando, Contable, TSQTypeOK
<1>3. TSQTypeOK'
  BY <1>1 DEF Hilos, Contable, TSQTypeOK
<1>4. /\ IsFiniteSet(Senalando') /\ IsFiniteSet(Sacando')
      /\ Cardinality(Senalando') = Cardinality(Senalando)
      /\ Cardinality(Sacando') = Cardinality(Sacando) - 1
  BY <1>2, MueveHilo DEF Contable
<1>5. Len(cola'.queue_) = Len(cola.queue_) - 1
  BY <1>1, <1>a, Cuentan
<1>6. Len(cola.queue_)' = Len(cola.queue_) - 1 /\ Permisos' = Permisos - 1
  BY <1>1, <1>4, <1>5, Cuentan DEF Permisos
<1>7. QED BY <1>3, <1>4, <1>6 DEF Contable

\* try_dequeue takes an element and no permit.
LEMMA Sondea ==
  ASSUME Contable, NEW h \in Sondeadores, TryDequeue(h)
  PROVE  /\ Contable'
         /\ Len(cola.queue_)' = Len(cola.queue_) - 1 /\ Permisos' = Permisos
<1> DEFINE s == Tail(cola.queue_)
<1>1. cola.queue_ # <<>> /\ s \in Seq(Elementos) /\ Len(s) = Len(cola.queue_) - 1
  BY Cuentan DEF TryDequeue
<1>2. cola' = [queue_ |-> s, canConsume_ |-> cola.canConsume_]
  BY Cuentan DEF TryDequeue, Sacar
<1>3. /\ paso' = paso /\ cola'.queue_ = s /\ cola'.canConsume_ = cola.canConsume_
      /\ cola' \in [queue_ : Seq(Elementos), canConsume_ : Nat]
  <2> HIDE DEF s
  <2> QED BY <1>1, <1>2, Cuentan DEF TryDequeue
<1>4. TSQTypeOK' /\ Senalando' = Senalando /\ Sacando' = Sacando
  BY <1>3 DEF Senalando, Sacando, Contable, TSQTypeOK
<1>5. QED BY <1>1, <1>3, <1>4 DEF Contable, Permisos

\* A step of a blocking call changes the elements and the permits alike.
LEMMA PasoBloqueante ==
  ASSUME Contable, Encolar \/ Resto
  PROVE  /\ Contable'
         /\ \E d \in {-1, 0, 1} : /\ Len(cola.queue_)' = Len(cola.queue_) + d
                                  /\ Permisos' = Permisos + d
<1>1. CASE Encolar
  BY <1>1, Empuja DEF Encolar
<1>2. Len(cola.queue_) \in Nat /\ Permisos \in Nat
  BY Cuentan DEF Permisos
<1>3. CASE \E h \in Productores : EnqueueSignal(h)
  BY <1>2, <1>3, Senala
<1>4. CASE \E h \in Consumidores : DequeueWait(h)
  BY <1>2, <1>4, Espera
<1>5. CASE \E h \in Consumidores : DequeuePop(h)
  BY <1>2, <1>5, Saca
<1>6. QED BY <1>1, <1>3, <1>4, <1>5 DEF Resto

\* A step that leaves the queue and the threads as they are.
LEMMA ColaQuieta ==
  ASSUME Contable, UNCHANGED tsqVars
  PROVE  /\ Contable'
         /\ Len(cola.queue_)' = Len(cola.queue_) /\ Permisos' = Permisos
BY DEF tsqVars, Contable, TSQTypeOK, Senalando, Sacando, Permisos

\* The first state has neither elements nor permits.
LEMMA ColaInicial ==
  ASSUME TSQInit
  PROVE  Contable /\ Len(cola.queue_) = 0 /\ Permisos = 0
<1>1. Senalando = {} /\ Sacando = {}
  BY DEF TSQInit, Senalando, Sacando
<1>2. TSQTypeOK /\ Len(cola.queue_) = 0 /\ cola.canConsume_ = 0
  BY DEF TSQInit, TSQTypeOK, ColaVacia
<1>3. QED BY <1>1, <1>2, FS_EmptySet DEF Contable, Permisos

\* With any use of the queue, try_dequeue included, the permits never fall
\* behind the elements.
THEOREM CubiertaSiempre == TSQSpec => []Cubierta
<1>1. TSQInit => Cubierta
  BY ColaInicial DEF Cubierta, PermisosCubren
<1>2. Cubierta /\ [TSQNext]_tsqVars => Cubierta'
  <2> SUFFICES ASSUME Cubierta, [TSQNext]_tsqVars PROVE Cubierta'
    OBVIOUS
  <2>1. Contable /\ Len(cola.queue_) \in Nat /\ Permisos \in Nat
        /\ Len(cola.queue_) <= Permisos
    BY Cuentan DEF Cubierta, Permisos, PermisosCubren
  <2>2. CASE Encolar \/ Resto
    BY <2>1, <2>2, PasoBloqueante DEF Cubierta, PermisosCubren
  <2>3. CASE \E h \in Sondeadores : TryDequeue(h)
    BY <2>1, <2>3, Sondea DEF Cubierta, PermisosCubren
  <2>4. CASE UNCHANGED tsqVars
    BY <2>1, <2>4, ColaQuieta DEF Cubierta, PermisosCubren
  <2>5. QED BY <2>2, <2>3, <2>4 DEF TSQNext
<1>3. QED BY <1>1, <1>2, PTL DEF TSQSpec

\* The queue keeps its types and the semaphore never goes below zero.
THEOREM TiposCola == TSQSpec => []TSQTypeOK
<1>1. Cubierta => TSQTypeOK
  BY DEF Cubierta, Contable
<1>2. QED BY <1>1, CubiertaSiempre, PTL

\* No wakeup is lost: each element in the queue has its permit, whoever
\* polls with try_dequeue.
THEOREM SinSenalPerdida == TSQSpec => []PermisosCubren
<1>1. Cubierta => PermisosCubren
  BY DEF Cubierta
<1>2. QED BY <1>1, CubiertaSiempre, PTL

\* The count is exact in every state when all calls block.
THEOREM CuentaExacta == SpecBloqueante => []Cuenta
<1>1. TSQInit => Cuenta
  BY ColaInicial DEF Cuenta
<1>2. Cuenta /\ [NextBloqueante]_tsqVars => Cuenta'
  <2> SUFFICES ASSUME Cuenta, [NextBloqueante]_tsqVars PROVE Cuenta'
    OBVIOUS
  <2>1. CASE Encolar \/ Resto
    BY <2>1, PasoBloqueante DEF Cuenta
  <2>2. CASE UNCHANGED tsqVars
    BY <2>2, ColaQuieta DEF Cuenta
  <2>3. QED BY <2>1, <2>2 DEF NextBloqueante
<1>3. QED BY <1>1, <1>2, PTL DEF SpecBloqueante

\* A consumer that came through the wait of dequeue always finds an element
\* at the front, as long as nobody calls try_dequeue.
THEOREM FrenteNuncaVacio == SpecBloqueante => []NuncaVacia
<1>1. Cuenta => NuncaVacia
  <2> SUFFICES ASSUME Cuenta, Sacando # {} PROVE cola.queue_ # <<>>
    BY DEF NuncaVacia
  <2>1. Cardinality(Sacando) # 0
    BY FS_EmptySet DEF Cuenta, Contable
  <2>2. Len(cola.queue_) > 0
    BY <2>1, Cuentan DEF Cuenta, Permisos
  <2>3. QED BY <2>2
<1>2. QED BY <1>1, CuentaExacta, PTL
=============================================================================
