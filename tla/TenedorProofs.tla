--------------------------- MODULE TenedorProofs ----------------------------
(***************************************************************************)
(* The register of the Tenedor, for any number of servers, figures and     *)
(* threads and without a bound on requests, starts and anomalies: what a   *)
(* handler found stays true while it holds the mutex, the register agrees  *)
(* with itself as long as the signals come in order, and the round robin   *)
(* is even whatever happens.                                               *)
(***************************************************************************)
EXTENDS Tenedor, Integers, FiniteSetTheorems, SequenceTheorems, TLAPS

ConFigura == {<<c, f>> : c \in {"GET", "ADD", "DELETE"}, f \in Figuras}
Senales == {"CONNECT", "QUIT"}

\* The rest of the types, and which requests a thread is in the middle of.
Tipos ==
  /\ TypeOK
  /\ red \in [Servidores -> Seq(Senales)]
  /\ vivos \subseteq Servidores
  /\ anomalias \in Nat
  /\ reparto \in [Servidores -> Nat]
  /\ elegido \in [Hilos -> Servidores \cup {Ninguno}]
  /\ \A h \in Hilos : /\ pc[h] = "mutex" => pedido[h] \in ConFigura \cup {<<"LIST">>}
                      /\ pc[h] \in ConMutex => pedido[h] \in ConFigura

\* What the handler of h looked up before it talked to its server still holds.
Vigente(h) ==
  IF Es(h, "ADD") THEN elegido[h] \in Activos /\ Figura(h) \notin Registradas
  ELSE Figura(h) \in Registradas /\ figureLocation[Figura(h)] = elegido[h]

EnCurso == \A h \in Hilos : pc[h] \in ConMutex => Vigente(h)

Base == Tipos /\ EnCurso

\* How many active servers come before s.
Rango(s) == Cardinality({t \in Activos : t < s})
-----------------------------------------------------------------------------
\* A finite set of numbers has a member with k smaller ones, for each k less
\* than its size, and no two members have as many.
LEMMA Rangos ==
  ASSUME NEW A \in SUBSET Nat, IsFiniteSet(A)
  PROVE  /\ Cardinality(A) \in Nat
         /\ \A s \in A : Cardinality({t \in A : t < s}) \in 0 .. Cardinality(A) - 1
         /\ \A s, u \in A : Cardinality({t \in A : t < s}) = Cardinality({t \in A : t < u})
                            => s = u
         /\ \A k \in 0 .. Cardinality(A) - 1 :
              \E s \in A : Cardinality({t \in A : t < s}) = k
<1> DEFINE Antes(s) == {t \in A : t < s}
           R == [s \in A |-> Cardinality(Antes(s))]
           n == Cardinality(A)
<1>1. n \in Nat
  BY FS_CardinalityType
<1>2. ASSUME NEW s \in A PROVE IsFiniteSet(Antes(s)) /\ Cardinality(Antes(s)) \in Nat
  BY FS_Subset, FS_CardinalityType, Antes(s) \in SUBSET A
<1>3. ASSUME NEW B, IsFiniteSet(B), NEW C \in SUBSET B, NEW x \in B, x \notin C
      PROVE  Cardinality(C) < Cardinality(B)
  <2>1. Cardinality(C) <= Cardinality(B) /\ Cardinality(C) # Cardinality(B)
    BY <1>3, FS_Subset
  <2>2. Cardinality(C) \in Nat /\ Cardinality(B) \in Nat
    BY <1>3, FS_Subset, FS_CardinalityType
  <2> QED BY <2>1, <2>2
<1>4. ASSUME NEW s \in A PROVE Cardinality(Antes(s)) \in 0 .. n - 1
  <2>1. Antes(s) \in SUBSET A /\ s \notin Antes(s)
    OBVIOUS
  <2>2. Cardinality(Antes(s)) < n
    BY <2>1, <1>3
  <2> QED BY <2>2, <1>1, <1>2
<1>5. ASSUME NEW s \in A, NEW u \in A, s < u
      PROVE  Cardinality(Antes(s)) < Cardinality(Antes(u))
  <2>1. /\ s \in Nat /\ u \in Nat
        /\ \A t \in Antes(s) : t \in A /\ t \in Nat /\ t < s
    OBVIOUS
  <2>2. \A t \in Antes(s) : t < u
    BY <1>5, <2>1
  <2>3. Antes(s) \subseteq Antes(u)
    BY <2>2
  <2>4. s \in Antes(u)
    BY <1>5
  <2>5. s \notin Antes(s)
    BY <2>1
  <2> HIDE DEF Antes
  <2> QED BY <2>3, <2>4, <2>5, <1>2, <1>3
<1>6. ASSUME NEW s \in A, NEW u \in A, Cardinality(Antes(s)) = Cardinality(Antes(u))
      PROVE  s = u
  <2>1. CASE s < u
    BY <2>1, <1>5, <1>6, <1>2
  <2>2. CASE u < s
    BY <2>2, <1>5, <1>6, <1>2
  <2>3. s \in Nat /\ u \in Nat
    OBVIOUS
  <2> QED BY <2>1, <2>2, <2>3
<1>7. R \in Injection(A, 0 .. n - 1)
  BY <1>4, <1>6 DEF Injection, IsInjective
<1>8. IsFiniteSet(0 .. n - 1) /\ Cardinality(0 .. n - 1) = n
  <2> HIDE DEF n
  <2>1. 0 \in Int /\ n - 1 \in Int /\ (0 > n - 1 <=> n = 0) /\ n - 1 - 0 + 1 = n
    BY <1>1
  <2> QED BY <2>1, <1>1, FS_Interval
<1>9. R \in Surjection(A, 0 .. n - 1)
  BY <1>7, <1>8, FS_Injection
<1>10. \A k \in 0 .. n - 1 : \E s \in A : R[s] = k
  BY <1>9 DEF Surjection
<1> QED BY <1>1, <1>4, <1>6, <1>10

\* The server whose turn it is is active, and the one with that many before it.
LEMMA TurnoActivo ==
  ASSUME Activos # {}, currentServerIndex \in Nat
  PROVE  /\ Cardinality(Activos) \in Nat \ {0}
         /\ Turno \in Activos
         /\ Rango(Turno) = currentServerIndex % Cardinality(Activos)
<1>1. Activos \in SUBSET Nat /\ IsFiniteSet(Activos)
  <2>1. Activos \in SUBSET Servidores
    BY DEF Activos
  <2> QED BY <2>1, TenedorValido, FS_Subset
<1>2. Cardinality(Activos) \in Nat \ {0}
  BY <1>1, FS_CardinalityType, FS_EmptySet
<1>3. currentServerIndex % Cardinality(Activos) \in 0 .. Cardinality(Activos) - 1
  BY <1>2
<1>4. \E s \in Activos : Cardinality({t \in Activos : t < s})
                         = currentServerIndex % Cardinality(Activos)
  BY <1>1, <1>3, Rangos
<1> QED BY <1>2, <1>4 DEF Turno, Rango
-----------------------------------------------------------------------------
\* A request with a figure names one of the three commands and a figure.
LEMMA FormaDePedido ==
  ASSUME NEW p \in ConFigura
  PROVE  p[1] \in {"GET", "ADD", "DELETE"} /\ p[2] \in Figuras /\ p \in Comandos
BY DEF ConFigura, Comandos

\* Any request but a bad one is LIST or has a figure.
LEMMA PedidoBueno ==
  ASSUME NEW p \in Comandos, p # <<"MALO">>
  PROVE  p \in ConFigura \cup {<<"LIST">>}
BY DEF ConFigura, Comandos

\* A handler that needs a server has found what Vigente says.
LEMMA HayServidor ==
  ASSUME Base, NEW h \in Hilos, pc[h] = "mutex", CodigoInmediato(h) = 0
  PROVE  /\ pedido[h] \in ConFigura
         /\ Es(h, "ADD") => Figura(h) \notin Registradas /\ Activos # {}
         /\ ~Es(h, "ADD") => Figura(h) \in Registradas
<1>1. pedido[h] \in ConFigura \cup {<<"LIST">>}
  BY DEF Base, Tipos
<1>2. pedido[h] # <<"LIST">>
  BY DEF CodigoInmediato, Es
<1>3. pedido[h] \in ConFigura
  BY <1>1, <1>2
<1>4. pedido[h][1] \in {"GET", "ADD", "DELETE"}
  BY <1>3, FormaDePedido
<1>5. CASE pedido[h][1] = "GET"
  BY <1>3, <1>5 DEF CodigoInmediato, Es
<1>6. CASE pedido[h][1] = "ADD"
  BY <1>3, <1>6 DEF CodigoInmediato, Es
<1>7. CASE pedido[h][1] = "DELETE"
  BY <1>3, <1>7 DEF CodigoInmediato, Es
<1> QED BY <1>4, <1>5, <1>6, <1>7

\* While nobody holds the mutex no thread is in the middle of an exchange.
LEMMA Libre ==
  ASSUME Base, serversMutex = Nadie
  PROVE  \A h \in Hilos : pc[h] \notin ConMutex
BY TenedorValido DEF Base, Tipos, TypeOK

\* Who holds it is alone.
LEMMA Solo ==
  ASSUME Base, NEW h \in Hilos, pc[h] \in ConMutex
  PROVE  serversMutex = h /\ \A g \in Hilos \ {h} : pc[g] \notin ConMutex
BY DEF Base, Tipos, TypeOK

LEMMA BaseInicial ==
  ASSUME Init
  PROVE  Base
<1>1. Activos = {} /\ Registradas = {}
  BY DEF Init, Activos, Registradas
<1>2. <<"MALO">> \in Comandos
  BY DEF Comandos
<1>3. TypeOK
  BY <1>1, <1>2, TenedorValido DEF Init, TypeOK, ConMutex, Registradas
<1>4. Tipos
  BY <1>3 DEF Init, Tipos, ConMutex
<1> QED BY <1>4 DEF Base, EnCurso, Init, ConMutex

LEMMA BaseAceptar ==
  ASSUME Base, NEW h \in Hilos, NEW p \in Comandos, Aceptar(h, p)
  PROVE  Base'
<1> USE DEF Base
<1>1. /\ pc[h] = "libre" /\ pedido' = [pedido EXCEPT ![h] = p]
      /\ pc' = [pc EXCEPT ![h] = pc'[h]] /\ pc'[h] \in {"responder", "mutex"}
      /\ pc'[h] = "mutex" => p # <<"MALO">>
      /\ UNCHANGED <<servers, figureLocation, currentServerIndex, reparto, serversMutex,
                     elegido, red, vivos, anomalias>>
  BY DEF Tipos, TypeOK, Aceptar, Ir, Decir, registroVars, servidorVars
<1>2. \A g \in Hilos \ {h} : pc'[g] = pc[g] /\ pedido'[g] = pedido[g]
  BY <1>1 DEF Tipos, TypeOK
<1>3. pc'[h] \notin ConMutex /\ pc[h] \notin ConMutex /\ pedido'[h] = p
  BY <1>1 DEF ConMutex, Tipos, TypeOK
<1>4. /\ pc' \in [Hilos -> {"libre", "mutex", "responder"} \cup ConMutex]
      /\ pedido' \in [Hilos -> Comandos]
  BY <1>1 DEF Tipos, TypeOK
<1>5. TypeOK'
  BY <1>1, <1>2, <1>3, <1>4 DEF Tipos, TypeOK, Registradas
<1>6. \A g \in Hilos : /\ pc'[g] = "mutex" => pedido'[g] \in ConFigura \cup {<<"LIST">>}
                       /\ pc'[g] \in ConMutex => pedido'[g] \in ConFigura
  BY <1>1, <1>2, <1>3, PedidoBueno DEF Tipos
<1>7. Tipos'
  BY <1>1, <1>5, <1>6 DEF Tipos
<1>8. EnCurso'
  BY <1>1, <1>2, <1>3 DEF EnCurso, Vigente, Es, Figura, Activos, Registradas
<1> QED BY <1>7, <1>8

\* A step of a thread that keeps the register, the servers and the request,
\* and stays in the middle of an exchange or ends it.
LEMMA BaseMismoRegistro ==
  ASSUME Base, NEW h \in Hilos,
         UNCHANGED <<servers, figureLocation, currentServerIndex, pedido, elegido>>,
         UNCHANGED <<red, vivos, anomalias, reparto>>,
         pc' = [pc EXCEPT ![h] = pc'[h]],
         \/ /\ pc[h] \in ConMutex /\ pc'[h] \in ConMutex /\ UNCHANGED serversMutex
         \/ pc[h] \in ConMutex /\ pc'[h] = "responder" /\ serversMutex' = Nadie
         \/ pc[h] = "mutex" /\ pc'[h] = "responder" /\ UNCHANGED serversMutex
  PROVE  Base'
<1> USE DEF Base
<1>1. \A g \in Hilos \ {h} : pc'[g] = pc[g]
  BY DEF Tipos, TypeOK
<1>2. /\ pc' \in [Hilos -> {"libre", "mutex", "responder"} \cup ConMutex]
      /\ serversMutex' \in Hilos \cup {Nadie}
  BY DEF Tipos, TypeOK, ConMutex
<1>3. ASSUME NEW g \in Hilos PROVE pc'[g] \in ConMutex <=> serversMutex' = g
  BY <1>1, Solo, TenedorValido DEF Tipos, TypeOK, ConMutex
<1>4. ASSUME NEW g \in Hilos PROVE pc'[g] \in ConMutex => pc[g] \in ConMutex
  BY <1>1 DEF ConMutex
<1>5. TypeOK'
  BY <1>2, <1>3, <1>4 DEF Tipos, TypeOK, Registradas
<1>6. ASSUME NEW g \in Hilos PROVE pc'[g] = "mutex" => pc[g] = "mutex"
  BY <1>1 DEF ConMutex
<1>7. Tipos'
  BY <1>4, <1>5, <1>6 DEF Tipos
<1>8. EnCurso'
  BY <1>4 DEF EnCurso, Vigente, Es, Figura, Activos, Registradas
<1> QED BY <1>7, <1>8

\* A handler takes the mutex and keeps it for a server that is registered.
LEMMA BaseAtenderConServidor ==
  ASSUME Base, NEW h \in Hilos, AtenderConServidor(h)
  PROVE  Base'
<1> USE DEF Base
<1>1. /\ pc[h] = "mutex" /\ serversMutex = Nadie /\ CodigoInmediato(h) = 0
      /\ pc' = [pc EXCEPT ![h] = "conectar"] /\ serversMutex' = h
      /\ elegido' = [elegido EXCEPT ![h] = elegido'[h]]
      /\ UNCHANGED <<servers, figureLocation, pedido, red, vivos, anomalias>>
  BY DEF Tipos, TypeOK, AtenderConServidor, Tomar, Ir, servidorVars
<1>2. /\ pedido[h] \in ConFigura
      /\ Es(h, "ADD") => Figura(h) \notin Registradas /\ Activos # {}
      /\ ~Es(h, "ADD") => Figura(h) \in Registradas
  BY <1>1, HayServidor
<1>3. /\ elegido'[h] \in Servidores
      /\ currentServerIndex' \in Nat /\ reparto' \in [Servidores -> Nat]
      /\ Vigente(h)'
  <2>1. CASE Es(h, "ADD")
    <3>1. /\ elegido'[h] = Turno /\ currentServerIndex' = currentServerIndex + 1
          /\ reparto' = [reparto EXCEPT ![Turno] = @ + 1]
      BY <2>1 DEF AtenderConServidor, Avanzar, Tipos
    <3>2. Turno \in Activos
      BY <1>2, <2>1, TurnoActivo DEF Tipos, TypeOK
    <3>3. Turno \in Servidores
      BY <3>2 DEF Activos
    <3> HIDE DEF Base
    <3> QED BY <1>1, <1>2, <2>1, <3>1, <3>2, <3>3
           DEF Base, Tipos, TypeOK, Vigente, Es, Figura, Activos, Registradas
  <2>2. CASE ~Es(h, "ADD")
    <3>1. /\ elegido'[h] = figureLocation[Figura(h)]
          /\ UNCHANGED <<currentServerIndex, reparto>>
      BY <2>2 DEF AtenderConServidor, Tipos
    <3>2. figureLocation[Figura(h)] \in Servidores
      BY <1>2, <2>2 DEF Tipos, TypeOK
    <3> QED BY <1>1, <1>2, <2>2, <3>1, <3>2
           DEF Tipos, TypeOK, Vigente, Es, Figura, Activos, Registradas
  <2> QED BY <2>1, <2>2
<1>4. \A g \in Hilos \ {h} : pc'[g] = pc[g] /\ elegido'[g] = elegido[g] /\ pc[g] \notin ConMutex
  BY <1>1, Libre DEF Tipos, TypeOK
<1>5. pc'[h] \in ConMutex /\ pc'[h] # "mutex"
  BY <1>1 DEF Tipos, TypeOK, ConMutex
<1>6. /\ pc' \in [Hilos -> {"libre", "mutex", "responder"} \cup ConMutex]
      /\ elegido' \in [Hilos -> Servidores \cup {Ninguno}]
  BY <1>1, <1>3 DEF Tipos, TypeOK, ConMutex
<1>7. \A g \in Hilos : /\ pc'[g] \in ConMutex <=> serversMutex' = g
                       /\ pc'[g] \in ConMutex => elegido'[g] \in Servidores
  BY <1>1, <1>3, <1>4, <1>5
<1>8. TypeOK'
  BY <1>1, <1>3, <1>6, <1>7 DEF Tipos, TypeOK, Registradas
<1>9. Tipos'
  BY <1>1, <1>2, <1>3, <1>4, <1>5, <1>6, <1>8 DEF Tipos
<1>10. EnCurso'
  BY <1>3, <1>4 DEF EnCurso
<1> QED BY <1>9, <1>10

\* The one thread that held the mutex has given it back, whatever it did to
\* the register.
LEMMA BaseRegistrar ==
  ASSUME Base, NEW h \in Hilos, Registrar(h)
  PROVE  Base'
<1> USE DEF Base
<1>1. /\ pc[h] \in ConMutex
      /\ pc' = [pc EXCEPT ![h] = "responder"] /\ serversMutex' = Nadie
      /\ UNCHANGED <<currentServerIndex, reparto, pedido, elegido, red, vivos, anomalias>>
  BY DEF Tipos, TypeOK, Registrar, Soltar, Ir, servidorVars, ConMutex
<1>2. Figura(h) \in Figuras /\ elegido[h] \in Servidores
  BY <1>1, FormaDePedido DEF Tipos, TypeOK, Figura
<1>3. /\ servers' \in [Servidores -> [active : BOOLEAN, figures : SUBSET Figuras]]
      /\ Registradas' \subseteq Figuras
      /\ figureLocation' \in [Registradas' -> Servidores]
  <2>1. CASE Es(h, "GET") /\ UNCHANGED <<servers, figureLocation>>
    BY <2>1 DEF Tipos, TypeOK, Registradas
  <2>2. CASE /\ Ubicar(Figura(h), elegido[h])
             /\ servers' = [servers EXCEPT ![elegido[h]].figures = @ \cup {Figura(h)}]
    <3>1. Registradas' = Registradas \cup {Figura(h)}
      BY <2>2 DEF Ubicar, Registradas
    <3> QED BY <1>2, <2>2, <3>1 DEF Tipos, TypeOK, Ubicar
  <2>3. CASE /\ Olvidar({Figura(h)})
             /\ servers' = [servers EXCEPT ![elegido[h]].figures = @ \ {Figura(h)}]
    <3>1. Registradas' = Registradas \ {Figura(h)}
      BY <2>3 DEF Olvidar, Registradas
    <3> QED BY <1>2, <2>3, <3>1 DEF Tipos, TypeOK, Olvidar
  <2> QED BY <2>1, <2>2, <2>3 DEF Registrar
<1>4. \A g \in Hilos \ {h} : pc'[g] = pc[g] /\ pc[g] \notin ConMutex
  BY <1>1, Solo DEF Tipos, TypeOK
<1>5. pc'[h] \notin ConMutex /\ pc'[h] # "mutex"
  BY <1>1 DEF Tipos, TypeOK, ConMutex
<1>6. pc' \in [Hilos -> {"libre", "mutex", "responder"} \cup ConMutex]
  BY <1>1 DEF Tipos, TypeOK
<1>7. \A g \in Hilos : pc'[g] \notin ConMutex /\ serversMutex' # g
  BY <1>1, <1>4, <1>5, TenedorValido
<1>8. TypeOK'
  BY <1>1, <1>3, <1>6, <1>7 DEF Tipos, TypeOK
<1>9. Tipos'
  BY <1>1, <1>4, <1>5, <1>7, <1>8 DEF Tipos
<1>10. EnCurso'
  BY <1>7 DEF EnCurso
<1> QED BY <1>9, <1>10

LEMMA BaseResponder ==
  ASSUME Base, NEW h \in Hilos, Responder(h)
  PROVE  Base'
<1> USE DEF Base
<1>1. /\ pc[h] = "responder" /\ pc' = [pc EXCEPT ![h] = "libre"]
      /\ pedido' = [pedido EXCEPT ![h] = <<"MALO">>]
      /\ elegido' = [elegido EXCEPT ![h] = Ninguno]
      /\ UNCHANGED <<servers, figureLocation, currentServerIndex, reparto, serversMutex,
                     red, vivos, anomalias>>
  BY DEF Responder, Ir, registroVars, servidorVars
<1>2. \A g \in Hilos \ {h} : pc'[g] = pc[g] /\ pedido'[g] = pedido[g] /\ elegido'[g] = elegido[g]
  BY <1>1 DEF Tipos, TypeOK
<1>3. pc[h] \notin ConMutex /\ pc'[h] \notin ConMutex /\ pc'[h] # "mutex"
  BY <1>1 DEF Tipos, TypeOK, ConMutex
<1>4. /\ pc' \in [Hilos -> {"libre", "mutex", "responder"} \cup ConMutex]
      /\ pedido' \in [Hilos -> Comandos]
      /\ elegido' \in [Hilos -> Servidores \cup {Ninguno}]
  BY <1>1 DEF Tipos, TypeOK, Comandos
<1>5. TypeOK'
  BY <1>1, <1>2, <1>3, <1>4 DEF Tipos, TypeOK, Registradas
<1>6. Tipos'
  BY <1>1, <1>2, <1>3, <1>4, <1>5 DEF Tipos
<1>7. EnCurso'
  BY <1>1, <1>2, <1>3 DEF EnCurso, Vigente, Es, Figura, Activos, Registradas
<1> QED BY <1>6, <1>7

\* The UDP thread changes the register while nobody holds the mutex.
LEMMA BaseUdp ==
  ASSUME Base, NEW s \in Servidores, UdpConnect(s) \/ UdpQuit(s)
  PROVE  Base'
<1> USE DEF Base
<1>1. /\ serversMutex = Nadie /\ red[s] # <<>> /\ red' = [red EXCEPT ![s] = Tail(@)]
      /\ UNCHANGED <<currentServerIndex, serversMutex, pc, pedido, elegido, vivos, anomalias>>
  BY DEF UdpConnect, UdpQuit, hiloVars
<1>2. /\ servers' \in [Servidores -> [active : BOOLEAN, figures : SUBSET Figuras]]
      /\ Registradas' \subseteq Figuras
      /\ figureLocation' \in [Registradas' -> Servidores]
  <2>1. CASE UdpConnect(s)
    BY <2>1 DEF Tipos, TypeOK, UdpConnect, Registradas
  <2>2. CASE UdpQuit(s)
    <3>1. /\ servers' = [servers EXCEPT ![s].active = FALSE]
          /\ figureLocation' = [g \in Registradas \ servers[s].figures |-> figureLocation[g]]
      BY <2>2 DEF UdpQuit, OlvidarDe, Olvidar
    <3>2. Registradas' = Registradas \ servers[s].figures
      BY <3>1 DEF Registradas
    <3> QED BY <3>1, <3>2 DEF Tipos, TypeOK
  <2> QED BY <2>1, <2>2
<1>3. reparto' \in [Servidores -> Nat]
  BY DEF Tipos, UdpConnect, UdpQuit, Recontar
<1>4. red' \in [Servidores -> Seq(Senales)]
  <2>1. Tail(red[s]) \in Seq(Senales)
    BY <1>1 DEF Tipos
  <2> QED BY <1>1, <2>1 DEF Tipos
<1>5. \A g \in Hilos : pc[g] \notin ConMutex
  BY <1>1, Libre
<1>6. TypeOK'
  BY <1>1, <1>2, <1>5 DEF Tipos, TypeOK
<1>7. Tipos'
  BY <1>1, <1>3, <1>4, <1>6 DEF Tipos
<1>8. EnCurso'
  BY <1>1, <1>5 DEF EnCurso
<1> QED BY <1>7, <1>8

\* The servers and the network move a thread at most from its read to the
\* answer or the cut.
LEMMA BaseServidores ==
  ASSUME Base,
         UNCHANGED <<servers, figureLocation, currentServerIndex, reparto, serversMutex,
                     pedido, elegido>>,
         pc' \in [Hilos -> {"libre", "mutex", "responder"} \cup ConMutex],
         \A g \in Hilos : \/ pc'[g] = pc[g]
                          \/ pc[g] = "leyendo" /\ pc'[g] \in {"cortado", "contestado"},
         red' \in [Servidores -> Seq(Senales)], vivos' \subseteq Servidores,
         anomalias' \in Nat
  PROVE  Base'
<1> USE DEF Base
<1>1. ASSUME NEW g \in Hilos
      PROVE  (pc'[g] \in ConMutex <=> pc[g] \in ConMutex) /\ (pc'[g] = "mutex" => pc[g] = "mutex")
  BY DEF ConMutex
<1>2. TypeOK'
  BY <1>1 DEF Tipos, TypeOK, Registradas
<1>3. Tipos'
  BY <1>1, <1>2 DEF Tipos
<1>4. EnCurso'
  BY <1>1 DEF EnCurso, Vigente, Es, Figura, Activos, Registradas
<1> QED BY <1>3, <1>4

\* What the servers and the network do to the signals under way.
LEMMA TiposRed ==
  ASSUME Tipos, NEW s \in Servidores
  PROVE  /\ Perder(s) \/ Duplicar(s) \/ Desordenar(s) =>
              red' \in [Servidores -> Seq(Senales)] /\ anomalias' = anomalias + 1
         /\ \A w \in Senales : [red EXCEPT ![s] = Append(@, w)] \in [Servidores -> Seq(Senales)]
<1>1. red[s] \in Seq(Senales) /\ red \in [Servidores -> Seq(Senales)]
  BY DEF Tipos
<1>2. ASSUME NEW w \in Senales
      PROVE  [red EXCEPT ![s] = Append(@, w)] \in [Servidores -> Seq(Senales)]
  BY <1>1
<1>3. CASE Perder(s)
  <2>1. Tail(red[s]) \in Seq(Senales) /\ red' = [red EXCEPT ![s] = Tail(red[s])]
    BY <1>1, <1>3 DEF Perder
  <2> QED BY <1>1, <1>3, <2>1 DEF Perder, Falla
<1>4. CASE Duplicar(s)
  <2>1. red[s] \o red[s] \in Seq(Senales) /\ red' = [red EXCEPT ![s] = red[s] \o red[s]]
    BY <1>1, <1>4 DEF Duplicar
  <2> QED BY <1>1, <1>4, <2>1 DEF Duplicar, Falla
<1>5. CASE Desordenar(s)
  <2> DEFINE r == red[s]
             w == <<r[2], r[1]>> \o SubSeq(r, 3, Len(r))
  <2>1. r \in Seq(Senales) /\ Len(r) > 1 /\ Len(r) \in Nat /\ red' = [red EXCEPT ![s] = w]
    BY <1>1, <1>5 DEF Desordenar
  <2>2. r[1] \in Senales /\ r[2] \in Senales
    BY <2>1
  <2>3. SubSeq(r, 3, Len(r)) \in Seq(Senales)
    BY <2>1, SubSeqProperties
  <2>4. <<r[2], r[1]>> \in Seq(Senales)
    BY <2>2
  <2>5. w \in Seq(Senales)
    <3> HIDE DEF r
    <3> QED BY <2>3, <2>4, ConcatProperties
  <2> HIDE DEF w
  <2> QED BY <1>1, <1>5, <2>1, <2>5 DEF Desordenar, Falla
<1> QED BY <1>2, <1>3, <1>4, <1>5

\* The steps of the servers and of the network, all under BaseServidores.
LEMMA BaseEntorno ==
  ASSUME Base,
         Entorno \/ \E h \in Hilos : ServidorAtiende(h)
  PROVE  Base'
<1> USE DEF Base
<1>0. pc \in [Hilos -> {"libre", "mutex", "responder"} \cup ConMutex]
  BY DEF Tipos, TypeOK
<1>1. /\ red \in [Servidores -> Seq(Senales)] /\ vivos \subseteq Servidores /\ anomalias \in Nat
      /\ \A s \in Servidores :
           /\ [red EXCEPT ![s] = Append(@, "CONNECT")] \in [Servidores -> Seq(Senales)]
           /\ [red EXCEPT ![s] = Append(@, "QUIT")] \in [Servidores -> Seq(Senales)]
  BY TiposRed DEF Tipos, TypeOK, Senales
<1>2. ASSUME NEW s \in Servidores, Encender(s) PROVE Base'
  <2>1. red' \in [Servidores -> Seq(Senales)] /\ vivos' \subseteq Servidores
    BY <1>1, <1>2 DEF Encender
  <2> QED BY <1>1, <1>2, <2>1, <1>0, BaseServidores DEF Encender, registroVars, hiloVars
<1>3. ASSUME NEW s \in Servidores, Apagar(s) \/ Caer(s) PROVE Base'
  <2>1. red' \in [Servidores -> Seq(Senales)] /\ vivos' \subseteq Servidores
    <3>1. red' = red \/ red' = [red EXCEPT ![s] = Append(@, "QUIT")]
      BY <1>3 DEF Apagar, Caer
    <3>2. vivos' = vivos \ {s}
      BY <1>3 DEF Apagar, Caer
    <3> QED BY <1>1, <3>1, <3>2
  <2>2. /\ pc' \in [Hilos -> {"libre", "mutex", "responder"} \cup ConMutex]
        /\ \A g \in Hilos : pc'[g] = pc[g] \/ (pc[g] = "leyendo" /\ pc'[g] = "cortado")
    <3>1. Cortar(s)
      BY <1>3 DEF Apagar, Caer
    <3> QED BY <1>0, <3>1 DEF Cortar, ConMutex
  <2>3. anomalias' \in Nat
    BY <1>1, <1>3 DEF Apagar, Caer, Falla
  <2> QED BY <1>3, <2>1, <2>2, <2>3, <1>0, BaseServidores DEF Apagar, Caer, registroVars
<1>4. ASSUME NEW s \in Servidores, Red(s) PROVE Base'
  <2>1. red' \in [Servidores -> Seq(Senales)] /\ anomalias' = anomalias + 1
    BY <1>4, TiposRed DEF Red
  <2> QED BY <1>1, <1>4, <2>1, <1>0, BaseServidores DEF Red, registroVars, hiloVars
<1>5. ASSUME NEW h \in Hilos, ServidorAtiende(h) \/ ServidorRechaza(h) PROVE Base'
  <2>1. pc[h] = "leyendo" /\ \E codigo, figuras : Contestar(h, codigo, figuras)
    <3>1. pc[h] = "leyendo"
      BY <1>5 DEF ServidorAtiende, ServidorRechaza
    <3>2. CASE ServidorAtiende(h)
      BY <3>2 DEF ServidorAtiende
    <3>3. CASE ServidorRechaza(h)
      BY <3>3 DEF ServidorRechaza
    <3> QED BY <1>5, <3>1, <3>2, <3>3
  <2>2. PICK codigo, figuras : Contestar(h, codigo, figuras)
    BY <2>1
  <2>3. /\ pc' \in [Hilos -> {"libre", "mutex", "responder"} \cup ConMutex]
        /\ \A g \in Hilos : pc'[g] = pc[g] \/ (pc[g] = "leyendo" /\ pc'[g] = "contestado")
    <3>1. pc' = [pc EXCEPT ![h] = "contestado"]
      BY <2>2 DEF Contestar, Ir
    <3> QED BY <1>0, <2>1, <3>1 DEF ConMutex
  <2> QED BY <1>1, <2>2, <2>3, <1>0, BaseServidores DEF Contestar, registroVars
<1> QED BY <1>2, <1>3, <1>4, <1>5 DEF Entorno

LEMMA PasoBase ==
  ASSUME Base, [Next]_vars
  PROVE  Base'
<1>1. ASSUME NEW h \in Hilos, NEW p \in Comandos, Aceptar(h, p) PROVE Base'
  BY <1>1, BaseAceptar
<1>2. ASSUME NEW h \in Hilos, AtenderSinServidor(h) \/ Conectar(h) \/ Excepcion(h) PROVE Base'
  <2>1. /\ UNCHANGED <<servers, figureLocation, currentServerIndex, pedido, elegido>>
        /\ UNCHANGED <<red, vivos, anomalias, reparto>>
    BY <1>2 DEF AtenderSinServidor, Conectar, Excepcion, registroVars, servidorVars
  <2>2. /\ pc' = [pc EXCEPT ![h] = pc'[h]]
        /\ \/ /\ pc[h] \in ConMutex /\ pc'[h] \in ConMutex /\ UNCHANGED serversMutex
           \/ pc[h] \in ConMutex /\ pc'[h] = "responder" /\ serversMutex' = Nadie
           \/ pc[h] = "mutex" /\ pc'[h] = "responder" /\ UNCHANGED serversMutex
    BY <1>2 DEF AtenderSinServidor, Conectar, Excepcion, Ir, Soltar, ConMutex, Base, Tipos, TypeOK
  <2> QED BY <2>1, <2>2, BaseMismoRegistro
<1>3. ASSUME NEW h \in Hilos, AtenderConServidor(h) PROVE Base'
  BY <1>3, BaseAtenderConServidor
<1>4. ASSUME NEW h \in Hilos, Registrar(h) PROVE Base'
  BY <1>4, BaseRegistrar
<1>5. ASSUME NEW h \in Hilos, Responder(h) PROVE Base'
  BY <1>5, BaseResponder
<1>6. ASSUME NEW h \in Hilos, ServidorAtiende(h) PROVE Base'
  BY <1>6, BaseEntorno
<1>7. CASE Udp
  BY <1>7, BaseUdp DEF Udp
<1>8. CASE Entorno
  BY <1>8, BaseEntorno
<1>9. CASE UNCHANGED vars
  BY <1>9 DEF vars, registroVars, hiloVars, servidorVars, Base, Tipos, TypeOK, EnCurso, Vigente,
              Es, Figura, Activos, Registradas
<1> QED BY <1>1, <1>2, <1>3, <1>4, <1>5, <1>6, <1>7, <1>8, <1>9 DEF Next, Hilo

\* While a handler keeps the mutex for its exchange with a server, what it
\* found in the register stays true: the server it chose for a figure is
\* active and the figure not yet registered, or the figure is still where it
\* was; with it the types hold.
THEOREM LoHalladoVale == Spec => []Base
<1>1. Init => Base
  BY BaseInicial
<1>2. Base /\ [Next]_vars => Base'
  BY PasoBase
<1> QED BY <1>1, <1>2, PTL DEF Spec

\* The register keeps its type and the mutex belongs to the one thread in the
\* middle of an exchange, for any number of threads and servers.
THEOREM TiposTenedor == Spec => []TypeOK
<1>1. Base => TypeOK
  BY DEF Base, Tipos
<1> QED BY <1>1, LoHalladoVale, PTL
-----------------------------------------------------------------------------
\* The signals of one server under way, p the one that would change what the
\* Tenedor thinks of it and u the one the server sent last: they alternate
\* from p to u.
EnOrden(w, p, u) ==
  /\ \A i \in 1 .. Len(w) - 1 : w[i] # w[i + 1]
  /\ IF Len(w) = 0 THEN p # u ELSE w[1] = p /\ w[Len(w)] = u

Proxima(s) == IF s \in Activos THEN "QUIT" ELSE "CONNECT"
Ultima(s) == IF s \in vivos THEN "CONNECT" ELSE "QUIT"

\* Without anomalies each server's signals are in order, and the register
\* agrees with itself.
SenalesEnOrden ==
  anomalias = 0 => \A s \in Servidores : EnOrden(red[s], Proxima(s), Ultima(s))

Concorde == Base /\ SenalesEnOrden /\ IndiceExacto

\* The Tenedor reads a signal, and the next one is the other.
LEMMA Leida ==
  ASSUME NEW w \in Seq(Senales), NEW p \in Senales, NEW q \in Senales, NEW u \in Senales,
         w # <<>>, EnOrden(w, p, u), p # q
  PROVE  EnOrden(Tail(w), q, u)
<1> DEFINE x == Tail(w)
<1> SUFFICES EnOrden(x, q, u)
  OBVIOUS
<1>1. /\ Len(w) \in Nat /\ Len(w) > 0 /\ Len(x) = Len(w) - 1
      /\ \A i \in 1 .. Len(w) - 1 : x[i] = w[i + 1]
  BY HeadTailProperties, EmptySeq
<1> HIDE DEF x
<1>2. w[1] = p /\ w[Len(w)] = u
  BY <1>1 DEF EnOrden
<1>3. \A i \in 1 .. Len(x) - 1 : x[i] # x[i + 1]
  BY <1>1 DEF EnOrden
<1>4. CASE Len(w) = 1
  BY <1>1, <1>2, <1>3, <1>4 DEF EnOrden
<1>5. CASE Len(w) > 1
  <2>1. w[1] # w[2]
    BY <1>1, <1>5 DEF EnOrden
  <2>2. w[2] \in Senales
    BY <1>1, <1>5
  <2>3. w[2] = q
    BY <1>2, <2>1, <2>2 DEF Senales
  <2>4. x[1] = q /\ x[Len(x)] = u /\ Len(x) # 0
    BY <1>1, <1>2, <1>5, <2>3
  <2> QED BY <1>3, <2>4 DEF EnOrden
<1> QED BY <1>1, <1>4, <1>5

\* A server sends its next signal after the ones under way.
LEMMA Enviada ==
  ASSUME NEW w \in Seq(Senales), NEW p \in Senales, NEW u \in Senales, NEW v \in Senales,
         EnOrden(w, p, u), u # v
  PROVE  EnOrden(Append(w, v), p, v)
<1> DEFINE x == Append(w, v)
<1> SUFFICES EnOrden(x, p, v)
  OBVIOUS
<1>1. /\ Len(w) \in Nat /\ Len(x) = Len(w) + 1 /\ x[Len(w) + 1] = v
      /\ \A i \in 1 .. Len(w) : x[i] = w[i]
  BY AppendProperties
<1> HIDE DEF x
<1>2. CASE Len(w) = 0
  <2>1. p = v
    BY <1>2 DEF EnOrden, Senales
  <2> QED BY <1>1, <1>2, <2>1 DEF EnOrden
<1>3. CASE Len(w) > 0
  <2>1. w[1] = p /\ w[Len(w)] = u
    BY <1>3 DEF EnOrden
  <2>2. x[1] = p /\ x[Len(w)] = u /\ x[Len(x)] = v
    BY <1>1, <1>3, <2>1
  <2>3. ASSUME NEW i \in 1 .. Len(x) - 1 PROVE x[i] # x[i + 1]
    <3>1. CASE i = Len(w)
      BY <1>1, <2>2, <3>1
    <3>2. CASE i < Len(w)
      BY <1>1, <3>2 DEF EnOrden
    <3> QED BY <1>1, <3>1, <3>2
  <2> QED BY <1>1, <2>2, <2>3 DEF EnOrden
<1> QED BY <1>1, <1>2, <1>3

\* A change of a server's figures leaves all else of the register.
LEMMA SoloSusFiguras ==
  ASSUME NEW r \in [Servidores -> [active : BOOLEAN, figures : SUBSET Figuras]],
         NEW u \in Servidores, NEW fs
  PROVE  \A s \in Servidores :
           /\ [r EXCEPT ![u].figures = fs][s].active = r[s].active
           /\ [r EXCEPT ![u].figures = fs][s].figures = IF s = u THEN fs ELSE r[s].figures
OBVIOUS

\* What the threads of clients and the answers of servers leave alone.
LEMMA LosHilosNoSenalan ==
  ASSUME Base, NEW h \in Hilos,
         \/ \E p \in Comandos : Aceptar(h, p)
         \/ Hilo(h) \/ ServidorAtiende(h) \/ ServidorRechaza(h)
  PROVE  /\ UNCHANGED <<red, vivos, anomalias>>
         /\ Activos' = Activos
         /\ Registrar(h) \/ UNCHANGED <<servers, figureLocation>>
<1>1. CASE \E p \in Comandos : Aceptar(h, p)
  BY <1>1 DEF Aceptar, registroVars, servidorVars, Activos
<1>2. CASE AtenderSinServidor(h) \/ Conectar(h) \/ Excepcion(h) \/ Responder(h)
  BY <1>2 DEF AtenderSinServidor, Conectar, Excepcion, Responder, registroVars, servidorVars,
              Activos
<1>3. CASE AtenderConServidor(h)
  BY <1>3 DEF AtenderConServidor, servidorVars, Activos
<1>4. CASE Registrar(h)
  <2>1. UNCHANGED <<red, vivos, anomalias>>
    BY <1>4 DEF Registrar, servidorVars
  <2>2. \A s \in Servidores : servers'[s].active = servers[s].active
    <3>1. \/ servers' = servers
          \/ servers' = [servers EXCEPT
               ![elegido[h]].figures = servers[elegido[h]].figures \cup {Figura(h)}]
          \/ servers' = [servers EXCEPT
               ![elegido[h]].figures = servers[elegido[h]].figures \ {Figura(h)}]
      BY <1>4 DEF Registrar
    <3>2. /\ elegido[h] \in Servidores
          /\ servers \in [Servidores -> [active : BOOLEAN, figures : SUBSET Figuras]]
      BY <1>4 DEF Registrar, Base, Tipos, TypeOK, ConMutex
    <3> QED BY <3>1, <3>2, SoloSusFiguras
  <2> QED BY <1>4, <2>1, <2>2 DEF Activos
<1>5. CASE ServidorAtiende(h) \/ ServidorRechaza(h)
  <2>1. \E codigo, figuras : Contestar(h, codigo, figuras)
    <3>1. CASE ServidorAtiende(h)
      BY <3>1 DEF ServidorAtiende
    <3>2. CASE ServidorRechaza(h)
      BY <3>2 DEF ServidorRechaza
    <3> QED BY <1>5, <3>1, <3>2
  <2> QED BY <2>1 DEF Contestar, registroVars, Activos
<1> QED BY <1>1, <1>2, <1>3, <1>4, <1>5 DEF Hilo

\* A signal that is read is news: the server was off before its CONNECT and on
\* before its QUIT.
LEMMA EsNoticia ==
  ASSUME Base, SenalesEnOrden, anomalias = 0, NEW s \in Servidores, red[s] # <<>>
  PROVE  /\ Head(red[s]) = Proxima(s)
         /\ Proxima(s) \in Senales /\ Ultima(s) \in Senales
         /\ red[s] \in Seq(Senales) /\ EnOrden(red[s], Proxima(s), Ultima(s))
<1>1. red[s] \in Seq(Senales) /\ EnOrden(red[s], Proxima(s), Ultima(s))
  BY DEF Base, Tipos, SenalesEnOrden
<1>2. Len(red[s]) # 0
  BY <1>1, EmptySeq
<1>3. red[s][1] = Proxima(s) /\ Head(red[s]) = red[s][1]
  BY <1>1, <1>2, HeadTailProperties DEF EnOrden
<1> QED BY <1>1, <1>3 DEF Proxima, Ultima, Senales

\* What the UDP thread does to the active servers.
LEMMA ActivosUdp ==
  ASSUME Base, NEW s \in Servidores
  PROVE  /\ UdpConnect(s) => Activos' = Activos \cup {s}
         /\ UdpQuit(s) => Activos' = Activos \ {s}
<1>1. servers \in [Servidores -> [active : BOOLEAN, figures : SUBSET Figuras]]
  BY DEF Base, Tipos, TypeOK
<1>2. ASSUME UdpConnect(s) PROVE Activos' = Activos \cup {s}
  BY <1>1, <1>2 DEF UdpConnect, Activos
<1>3. ASSUME UdpQuit(s) PROVE Activos' = Activos \ {s}
  <2>1. servers' = [servers EXCEPT ![s].active = FALSE]
    BY <1>3 DEF UdpQuit
  <2>2. \A t \in Servidores : servers'[t].active = IF t = s THEN FALSE ELSE servers[t].active
    BY <1>1, <2>1
  <2> QED BY <1>1, <2>2 DEF Activos
<1> QED BY <1>2, <1>3

LEMMA PasoSenales ==
  ASSUME Base, SenalesEnOrden, [Next]_vars
  PROVE  SenalesEnOrden'
<1> SUFFICES ASSUME anomalias' = 0, NEW s \in Servidores
             PROVE  EnOrden(red'[s], Proxima(s)', Ultima(s)')
  BY DEF SenalesEnOrden
<1>1. ASSUME UNCHANGED <<red, vivos, anomalias>>, Activos' = Activos
      PROVE  EnOrden(red'[s], Proxima(s)', Ultima(s)')
  BY <1>1 DEF SenalesEnOrden, Proxima, Ultima
<1>2. ASSUME NEW t \in Servidores, UdpConnect(t) \/ UdpQuit(t)
      PROVE  EnOrden(red'[s], Proxima(s)', Ultima(s)')
  <2>1. /\ red[t] # <<>> /\ red' = [red EXCEPT ![t] = Tail(@)] /\ UNCHANGED vivos
        /\ anomalias = 0
    BY <1>2 DEF UdpConnect, UdpQuit
  <2>2. CASE s = t
    <3>1. Proxima(s)' \in Senales /\ Proxima(s)' # Proxima(s)
      BY <1>2, <2>1, <2>2, EsNoticia, ActivosUdp DEF Proxima, UdpConnect, UdpQuit, Senales
    <3>2. EnOrden(Tail(red[s]), Proxima(s)', Ultima(s))
      <4> DEFINE q == Proxima(s)'
      <4>1. q \in Senales /\ q # Proxima(s)
        BY <3>1
      <4> HIDE DEF q
      <4>2. EnOrden(Tail(red[s]), q, Ultima(s))
        BY <4>1, <2>1, <2>2, EsNoticia, Leida
      <4> QED BY <4>2 DEF q
    <3> QED BY <2>1, <2>2, <3>2 DEF Base, Tipos, Ultima
  <2>3. CASE s # t
    BY <1>2, <2>1, <2>3, ActivosUdp DEF Base, Tipos, SenalesEnOrden, Proxima, Ultima
  <2> QED BY <2>2, <2>3
<1>3. ASSUME NEW t \in Servidores, Encender(t) \/ Apagar(t)
      PROVE  EnOrden(red'[s], Proxima(s)', Ultima(s)')
  <2> DEFINE v == IF Encender(t) THEN "CONNECT" ELSE "QUIT"
  <2>1. /\ red' = [red EXCEPT ![t] = Append(@, Ultima(t)')]
        /\ Ultima(t)' # Ultima(t) /\ Ultima(t)' \in Senales
        /\ \A u \in Servidores \ {t} : Ultima(u)' = Ultima(u)
        /\ anomalias = 0 /\ UNCHANGED servers
    BY <1>3 DEF Encender, Apagar, Ultima, Senales, registroVars
  <2>2. Proxima(s)' = Proxima(s) /\ Proxima(s) \in Senales /\ Ultima(s) \in Senales
    BY <2>1 DEF Proxima, Ultima, Activos, Senales
  <2>3. EnOrden(red[s], Proxima(s), Ultima(s)) /\ red[s] \in Seq(Senales)
    BY <2>1 DEF SenalesEnOrden, Base, Tipos
  <2>4. CASE s = t
    <3> DEFINE u == Ultima(s)'
    <3>1. u # Ultima(s) /\ u \in Senales /\ red'[s] = Append(red[s], u)
      BY <2>1, <2>4 DEF Base, Tipos
    <3> HIDE DEF u
    <3>2. EnOrden(Append(red[s], u), Proxima(s), u)
      BY <2>2, <2>3, <3>1, Enviada
    <3> QED BY <2>2, <3>1, <3>2 DEF u
  <2>5. CASE s # t
    BY <2>1, <2>2, <2>3, <2>5 DEF Base, Tipos
  <2> QED BY <2>4, <2>5
<1>4. ASSUME NEW t \in Servidores, Caer(t) \/ Red(t) PROVE FALSE
  BY <1>4, TiposRed DEF Caer, Red, Falla, Base, Tipos
<1>5. CASE UNCHANGED vars
  BY <1>1, <1>5 DEF vars, registroVars, servidorVars, Activos
<1> QED BY <1>1, <1>2, <1>3, <1>4, <1>5, LosHilosNoSenalan DEF Next, Udp, Entorno
-----------------------------------------------------------------------------
\* The register seen from the figures and seen from the servers is the same.
Exacto ==
  \A f \in Figuras, s \in Servidores :
    (f \in Registradas /\ figureLocation[f] = s) <=> (s \in Activos /\ f \in servers[s].figures)

LEMMA ExactoRegistrar ==
  ASSUME Base, Exacto, NEW h \in Hilos, Registrar(h)
  PROVE  /\ Exacto'
         /\ Activos' = Activos
         /\ \/ UNCHANGED figureLocation
            \/ /\ Figura(h) \in Figuras \ Registradas /\ elegido[h] \in Activos
               /\ Ubicar(Figura(h), elegido[h])
            \/ Figura(h) \in Registradas /\ Olvidar({Figura(h)})
<1> DEFINE f == Figura(h)
           s == elegido[h]
<1>1. /\ Vigente(h) /\ f \in Figuras /\ s \in Servidores
      /\ servers \in [Servidores -> [active : BOOLEAN, figures : SUBSET Figuras]]
  BY FormaDePedido DEF Registrar, Base, EnCurso, Tipos, TypeOK, ConMutex, Figura
<1>2. Activos' = Activos
  BY LosHilosNoSenalan DEF Hilo
<1>3. CASE UNCHANGED <<servers, figureLocation>>
  BY <1>3 DEF Exacto, Activos, Registradas
<1>4. CASE /\ Es(h, "ADD") /\ Ubicar(f, s)
           /\ servers' = [servers EXCEPT ![s].figures = @ \cup {f}]
  <2>1. f \notin Registradas /\ s \in Activos
    BY <1>1, <1>4 DEF Vigente
  <2>2. \A u \in Servidores :
          servers'[u].figures = IF u = s THEN servers[s].figures \cup {f} ELSE servers[u].figures
    BY <1>1, <1>4, SoloSusFiguras
  <2>3. /\ Registradas' = Registradas \cup {f}
        /\ \A g \in Registradas' :
             figureLocation'[g] = IF g = f THEN s ELSE figureLocation[g]
    BY <1>4 DEF Ubicar, Registradas
  <2>4. Exacto'
    <3> HIDE DEF f, s
    <3> QED BY <1>1, <1>2, <2>1, <2>2, <2>3 DEF Exacto
  <2> QED BY <1>1, <1>2, <1>4, <2>1, <2>4
<1>5. CASE /\ Es(h, "DELETE") /\ Olvidar({f})
           /\ servers' = [servers EXCEPT ![s].figures = @ \ {f}]
  <2>1. f \in Registradas /\ figureLocation[f] = s
    BY <1>1, <1>5 DEF Vigente, Es
  <2>2. \A u \in Servidores :
          servers'[u].figures = IF u = s THEN servers[s].figures \ {f} ELSE servers[u].figures
    BY <1>1, <1>5, SoloSusFiguras
  <2>3. /\ Registradas' = Registradas \ {f}
        /\ \A g \in Registradas' : figureLocation'[g] = figureLocation[g]
    BY <1>5 DEF Olvidar, Registradas
  <2>4. Exacto'
    <3> HIDE DEF f, s
    <3> QED BY <1>1, <1>2, <2>1, <2>2, <2>3 DEF Exacto
  <2> QED BY <1>2, <1>5, <2>1, <2>4
<1> QED BY <1>2, <1>3, <1>4, <1>5 DEF Registrar

\* A server that comes has no figures registered, and one that goes takes
\* those that are registered at it.
LEMMA ExactoUdp ==
  ASSUME Base, SenalesEnOrden, anomalias = 0, Exacto, NEW s \in Servidores
  PROVE  /\ UdpConnect(s) => /\ Exacto' /\ s \notin Activos /\ Activos' = Activos \cup {s}
                             /\ UNCHANGED figureLocation
         /\ UdpQuit(s) => /\ Exacto' /\ s \in Activos /\ Activos' = Activos \ {s}
                          /\ \A f \in Registradas :
                               f \in servers[s].figures <=> figureLocation[f] = s
                          /\ Olvidar(servers[s].figures)
<1>1. servers \in [Servidores -> [active : BOOLEAN, figures : SUBSET Figuras]]
  BY DEF Base, Tipos, TypeOK
<1>2. ASSUME UdpConnect(s)
      PROVE  /\ Exacto' /\ s \notin Activos /\ Activos' = Activos \cup {s}
             /\ UNCHANGED figureLocation
  <2>1. s \notin Activos
    BY <1>2, EsNoticia DEF UdpConnect, Proxima
  <2>2. Activos' = Activos \cup {s} /\ UNCHANGED figureLocation
    BY <1>2, ActivosUdp DEF UdpConnect
  <2>3. \A u \in Servidores :
          servers'[u].figures = IF u = s THEN {} ELSE servers[u].figures
    BY <1>1, <1>2 DEF UdpConnect
  <2> QED BY <2>1, <2>2, <2>3 DEF Exacto, Registradas
<1>3. ASSUME UdpQuit(s)
      PROVE  /\ Exacto' /\ s \in Activos /\ Activos' = Activos \ {s}
             /\ \A f \in Registradas : f \in servers[s].figures <=> figureLocation[f] = s
             /\ Olvidar(servers[s].figures)
  <2>1. s \in Activos
    BY <1>3, EsNoticia DEF UdpQuit, Proxima
  <2>2. Activos' = Activos \ {s} /\ Olvidar(servers[s].figures)
    BY <1>3, ActivosUdp DEF UdpQuit, OlvidarDe
  <2>3. \A u \in Servidores : servers'[u].figures = servers[u].figures
    BY <1>1, <1>3 DEF UdpQuit
  <2>4. /\ Registradas' = Registradas \ servers[s].figures
        /\ \A g \in Registradas' : figureLocation'[g] = figureLocation[g]
    BY <2>2 DEF Olvidar, Registradas
  <2>5. \A f \in Registradas : f \in servers[s].figures <=> figureLocation[f] = s
    BY <2>1 DEF Exacto, Base, Tipos, TypeOK
  <2>6. Exacto'
    BY <2>1, <2>2, <2>3, <2>4, <2>5 DEF Exacto
  <2> QED BY <2>1, <2>2, <2>5, <2>6
<1> QED BY <1>2, <1>3

\* A step after which there is still no anomaly is one of a thread, of the UDP
\* thread, or of a server that starts or stops and leaves the register alone.
LEMMA SinAnomalia ==
  ASSUME Base, [Next]_vars, anomalias' = 0
  PROVE  /\ anomalias = 0
         /\ \/ UNCHANGED <<servers, figureLocation>>
            \/ \E h \in Hilos : Registrar(h)
            \/ \E s \in Servidores : UdpConnect(s) \/ UdpQuit(s)
<1>1. ASSUME NEW h \in Hilos,
             \/ \E p \in Comandos : Aceptar(h, p)
             \/ Hilo(h) \/ ServidorAtiende(h) \/ ServidorRechaza(h)
      PROVE  /\ anomalias = 0
             /\ Registrar(h) \/ UNCHANGED <<servers, figureLocation>>
  BY <1>1, LosHilosNoSenalan
<1>2. ASSUME NEW s \in Servidores, UdpConnect(s) \/ UdpQuit(s) PROVE anomalias = 0
  BY <1>2 DEF UdpConnect, UdpQuit
<1>3. ASSUME NEW s \in Servidores, Encender(s) \/ Apagar(s)
      PROVE  anomalias = 0 /\ UNCHANGED <<servers, figureLocation>>
  BY <1>3 DEF Encender, Apagar, registroVars
<1>4. ASSUME NEW s \in Servidores, Caer(s) \/ Red(s) PROVE FALSE
  BY <1>4, TiposRed DEF Caer, Red, Falla, Base, Tipos
<1>5. CASE UNCHANGED vars
  BY <1>5 DEF vars, registroVars, servidorVars
<1> QED BY <1>1, <1>2, <1>3, <1>4, <1>5 DEF Next, Udp, Entorno

LEMMA PasoIndice ==
  ASSUME Concorde, [Next]_vars
  PROVE  IndiceExacto'
<1> USE DEF Concorde
<1> SUFFICES ASSUME anomalias' = 0 PROVE Exacto'
  BY DEF IndiceExacto, Exacto
<1>1. anomalias = 0 /\ Exacto
  BY SinAnomalia DEF IndiceExacto, Exacto
<1>2. CASE UNCHANGED <<servers, figureLocation>>
  BY <1>1, <1>2 DEF Exacto, Activos, Registradas
<1> QED BY <1>1, <1>2, SinAnomalia, ExactoRegistrar, ExactoUdp

LEMMA ConcordeInicial ==
  ASSUME Init
  PROVE  Concorde
<1>1. Base
  BY BaseInicial
<1>2. Activos = {} /\ Registradas = {}
  BY DEF Init, Activos, Registradas
<1>3. ASSUME NEW s \in Servidores PROVE EnOrden(red[s], Proxima(s), Ultima(s))
  BY <1>2 DEF Init, EnOrden, Proxima, Ultima
<1> QED BY <1>1, <1>2, <1>3 DEF Concorde, SenalesEnOrden, IndiceExacto

\* As long as there is no crash and the network keeps the signals in order, the
\* register of the Tenedor agrees with itself: a figure has a location exactly
\* when that server is active and lists it; the signals under way alternate.
THEOREM RegistroConcorde == Spec => []Concorde
<1>1. Init => Concorde
  BY ConcordeInicial
<1>2. Concorde /\ [Next]_vars => Concorde'
  BY PasoBase, PasoSenales, PasoIndice DEF Concorde
<1> QED BY <1>1, <1>2, PTL DEF Spec

\* figureLocation and the figures of the active servers are one relation.
THEOREM IndiceSinContradiccion == Spec => []IndiceExacto
<1>1. Concorde => IndiceExacto
  BY DEF Concorde
<1> QED BY <1>1, RegistroConcorde, PTL

\* Each step without an anomaly adds a figure at a server that is on, removes
\* one, or follows one server on or off.
LEMMA PasoDelIndice ==
  ASSUME Concorde, [Next]_vars
  PROVE  [anomalias' = 0 => ElIndice!Next]_(ElIndice!vars)
<1> USE DEF Concorde
<1> SUFFICES ASSUME anomalias' = 0, ~(UNCHANGED ElIndice!vars)
             PROVE  ElIndice!Next
  OBVIOUS
<1>1. anomalias = 0 /\ Exacto
  BY SinAnomalia DEF IndiceExacto, Exacto
<1>2. CASE UNCHANGED <<servers, figureLocation>>
  BY <1>2 DEF ElIndice!vars, Activos
<1>3. ASSUME NEW h \in Hilos, Registrar(h) PROVE ElIndice!Next
  <2> DEFINE f == Figura(h)
             s == elegido[h]
  <2>1. /\ Activos' = Activos
        /\ \/ UNCHANGED figureLocation
           \/ f \in Figuras \ Registradas /\ s \in Activos /\ Ubicar(f, s)
           \/ f \in Registradas /\ Olvidar({f})
    BY <1>1, <1>3, ExactoRegistrar
  <2>2. CASE UNCHANGED figureLocation
    BY <2>1, <2>2 DEF ElIndice!vars
  <2>3. CASE f \in Figuras \ Registradas /\ s \in Activos /\ Ubicar(f, s)
    <3>1. ElIndice!Agregar(f, s)
      BY <2>1, <2>3 DEF ElIndice!Agregar, Ubicar, Registradas
    <3> QED BY <2>3, <3>1 DEF ElIndice!Next, Activos
  <2>4. CASE f \in Registradas /\ Olvidar({f})
    <3>1. ElIndice!Eliminar(f)
      BY <2>1, <2>4 DEF ElIndice!Eliminar, Olvidar, Registradas
    <3>2. f \in Figuras
      BY <2>4 DEF Base, Tipos, TypeOK
    <3> QED BY <3>1, <3>2 DEF ElIndice!Next
  <2> QED BY <2>1, <2>2, <2>3, <2>4
<1>4. ASSUME NEW s \in Servidores, UdpConnect(s) PROVE ElIndice!Next
  <2>1. ElIndice!Conectar(s)
    BY <1>1, <1>4, ExactoUdp DEF ElIndice!Conectar
  <2> QED BY <2>1 DEF ElIndice!Next
<1>5. ASSUME NEW s \in Servidores, UdpQuit(s) PROVE ElIndice!Next
  <2>1. /\ s \in Activos /\ Activos' = Activos \ {s} /\ Olvidar(servers[s].figures)
        /\ \A f \in Registradas : f \in servers[s].figures <=> figureLocation[f] = s
    BY <1>1, <1>5, ExactoUdp
  <2>2. Registradas \ servers[s].figures = {h \in Registradas : figureLocation[h] # s}
    BY <2>1
  <2>3. ElIndice!Desconectar(s)
    BY <2>1, <2>2 DEF ElIndice!Desconectar, Olvidar, Registradas
  <2> QED BY <2>3 DEF ElIndice!Next
<1> QED BY <1>2, <1>3, <1>4, <1>5, SinAnomalia

\* Until a crash or a fault of the network the Tenedor does what Indice says:
\* a figure is added at one server that is on, a server that goes off takes
\* exactly its own figures along.
THEOREM TenedorImplementaIndice == Spec => ImplementaIndice
<1>1. Init => ElIndice!Init
  BY DEF Init, ElIndice!Init, Activos
<1>2. Concorde /\ [Next]_vars => [anomalias' = 0 => ElIndice!Next]_(ElIndice!vars)
  BY PasoDelIndice
<1> QED BY <1>1, <1>2, RegistroConcorde, PTL DEF Spec, ImplementaIndice
-----------------------------------------------------------------------------
\* Going round from a one comes past r before c.
Dentro(r, a, c) == IF a <= c THEN a <= r /\ r < c ELSE r < c \/ a <= r

\* The round robin since the active servers last changed: it began at some
\* place a, and each server has q figures, or q + 1 when it has had its turn in
\* the round under way.
Ronda ==
  Activos # {} =>
    \E q \in Nat, a \in 0 .. Cardinality(Activos) - 1 :
      \A s \in Activos :
        reparto[s] = IF Dentro(Rango(s), a, currentServerIndex % Cardinality(Activos))
                     THEN q + 1 ELSE q

\* The turn after the last is the first.
LEMMA Vuelta ==
  ASSUME NEW i \in Nat, NEW n \in Nat \ {0}
  PROVE  (i + 1) % n = IF (i % n) + 1 = n THEN 0 ELSE (i % n) + 1
<1> DEFINE q == i \div n
           r == i % n
           u == (i + 1) \div n
           v == (i + 1) % n
<1>1. /\ q \in Int /\ r \in 0 .. n - 1 /\ i = n * q + r
      /\ u \in Int /\ v \in 0 .. n - 1 /\ i + 1 = n * u + v
  OBVIOUS
<1> HIDE DEF q, r, u, v
<1> DEFINE d == u - q
<1>2. d \in Int /\ n * d = r + 1 - v /\ u = q + d
  <2>1. n * u - n * q = n * (u - q)
    BY <1>1
  <2> QED BY <1>1, <2>1
<1> HIDE DEF d
<1>3. r + 1 - v \in (1 - n) + 1 .. n
  BY <1>1
<1>4. d <= 1
  <2>1. d >= 2 => n * d >= n + n
    BY <1>2
  <2> QED BY <1>1, <1>2, <1>3, <2>1
<1>5. d >= 0
  <2>1. d <= -1 => n * d <= -n
    BY <1>2
  <2> QED BY <1>1, <1>2, <1>3, <2>1
<1>6. CASE d = 0
  BY <1>1, <1>2, <1>6 DEF r, v
<1>7. CASE d = 1
  BY <1>1, <1>2, <1>7 DEF r, v
<1> QED BY <1>2, <1>4, <1>5, <1>6, <1>7

\* One more turn: the round grows by the server at c, and one that is complete
\* counts for every server.
LEMMA UnaMas ==
  ASSUME NEW n \in Nat \ {0}, NEW a \in 0 .. n - 1, NEW c \in 0 .. n - 1, NEW e \in 0 .. n - 1,
         e = IF c + 1 = n THEN 0 ELSE c + 1
  PROVE  /\ ~Dentro(c, a, c)
         /\ \/ \A r \in 0 .. n - 1 : Dentro(r, a, e) <=> (Dentro(r, a, c) \/ r = c)
            \/ \A r \in 0 .. n - 1 : ~Dentro(r, a, e) /\ (Dentro(r, a, c) \/ r = c)
BY DEF Dentro

\* The places of a set of servers are 0 .. n - 1, each its own, and the turn is
\* one of them.
LEMMA LugaresDe ==
  ASSUME NEW A \in SUBSET Servidores, A # {}, NEW i \in Nat
  PROVE  /\ Cardinality(A) \in Nat \ {0}
         /\ i % Cardinality(A) \in 0 .. Cardinality(A) - 1
         /\ \A s \in A : Cardinality({t \in A : t < s}) \in 0 .. Cardinality(A) - 1
         /\ \A s, u \in A : Cardinality({t \in A : t < s}) = Cardinality({t \in A : t < u})
                            => s = u
<1>1. A \in SUBSET Nat /\ IsFiniteSet(A)
  BY TenedorValido, FS_Subset
<1>2. Cardinality(A) \in Nat \ {0}
  BY <1>1, FS_CardinalityType, FS_EmptySet
<1>3. i % Cardinality(A) \in 0 .. Cardinality(A) - 1
  BY <1>2
<1> QED BY <1>1, <1>2, <1>3, Rangos

LEMMA Lugares ==
  ASSUME Tipos, Activos # {}
  PROVE  /\ Cardinality(Activos) \in Nat \ {0}
         /\ currentServerIndex % Cardinality(Activos) \in 0 .. Cardinality(Activos) - 1
         /\ \A s \in Activos : Rango(s) \in 0 .. Cardinality(Activos) - 1
         /\ \A s, u \in Activos : Rango(s) = Rango(u) => s = u
<1>1. Activos \in SUBSET Servidores /\ currentServerIndex \in Nat
  BY DEF Activos, Tipos, TypeOK
<1> QED BY <1>1, LugaresDe DEF Rango

LEMMA RondaIgual ==
  ASSUME Ronda, UNCHANGED <<reparto, currentServerIndex>>, Activos' = Activos
  PROVE  Ronda'
BY DEF Ronda, Rango

LEMMA RondaNueva ==
  ASSUME Tipos', reparto' = [s \in Servidores |-> 0]
  PROVE  Ronda'
<1> SUFFICES ASSUME (Activos # {})'
             PROVE  (\E q \in Nat, a \in 0 .. Cardinality(Activos) - 1 :
                       \A s \in Activos :
                         reparto[s] = IF Dentro(Rango(s), a,
                                                currentServerIndex % Cardinality(Activos))
                                      THEN q + 1 ELSE q)'
  BY DEF Ronda
<1> DEFINE c == (currentServerIndex % Cardinality(Activos))'
<1>1. /\ c \in (0 .. Cardinality(Activos) - 1)'
      /\ \A s \in Activos' : Rango(s)' \in Int
  <2>1. Activos' \in SUBSET Servidores /\ currentServerIndex' \in Nat
    BY DEF Activos, Tipos, TypeOK
  <2>2. /\ currentServerIndex' % Cardinality(Activos') \in 0 .. Cardinality(Activos') - 1
        /\ Cardinality(Activos') \in Nat
        /\ \A s \in Activos' :
             Cardinality({t \in Activos' : t < s}) \in 0 .. Cardinality(Activos') - 1
    BY <2>1, LugaresDe
  <2>3. \A s \in Activos' : Rango(s)' \in Int
    BY <2>2 DEF Rango
  <2> QED BY <2>2, <2>3
<1>2. \A s \in Activos' : ~Dentro(Rango(s)', c, c)
  <2> HIDE DEF c
  <2>1. c \in Int
    BY <1>1
  <2> QED BY <1>1, <2>1 DEF Dentro
<1>3. \A s \in Activos' : reparto'[s] = 0
  BY DEF Activos
<1> QED BY <1>1, <1>2, <1>3

\* A figure that is sent out goes to the server whose turn it is.
LEMMA RondaAvanza ==
  ASSUME Base, Ronda, Activos # {}, Activos' = Activos,
         reparto' = [reparto EXCEPT ![Turno] = @ + 1],
         currentServerIndex' = currentServerIndex + 1
  PROVE  Ronda'
<1> DEFINE n == Cardinality(Activos)
           c == currentServerIndex % n
           e == (currentServerIndex + 1) % n
<1>1. /\ n \in Nat \ {0} /\ c \in 0 .. n - 1 /\ e \in 0 .. n - 1
      /\ e = IF c + 1 = n THEN 0 ELSE c + 1
  <2>1. currentServerIndex \in Nat
    BY DEF Base, Tipos, TypeOK
  <2>2. n \in Nat \ {0} /\ c \in 0 .. n - 1
    BY Lugares DEF Base
  <2> HIDE DEF n
  <2>3. e = IF c + 1 = n THEN 0 ELSE c + 1
    BY <2>1, <2>2, Vuelta
  <2> HIDE DEF e, c
  <2> QED BY <2>2, <2>3
<1>2. PICK q \in Nat, a \in 0 .. n - 1 :
        \A s \in Activos : reparto[s] = IF Dentro(Rango(s), a, c) THEN q + 1 ELSE q
  BY DEF Ronda
<1>3. /\ Turno \in Activos /\ Rango(Turno) = c
      /\ \A s \in Activos : /\ Rango(s) \in 0 .. n - 1
                            /\ Rango(s) = c <=> s = Turno
  <2>1. Turno \in Activos /\ Rango(Turno) = c
    BY TurnoActivo DEF Base, Tipos, TypeOK
  <2> HIDE DEF c, n
  <2> QED BY <2>1, Lugares DEF Base, n
<1>4. \A s \in Activos : reparto'[s] = IF s = Turno THEN reparto[s] + 1 ELSE reparto[s]
  BY DEF Base, Tipos, Activos
<1>5. \A s \in Activos :
        reparto'[s] = IF Dentro(Rango(s), a, c) \/ Rango(s) = c THEN q + 1 ELSE q
  <2>1. ~Dentro(c, a, c)
    <3> HIDE DEF n, c, e
    <3> QED BY <1>1, UnaMas
  <2> HIDE DEF n, c, e
  <2> QED BY <1>2, <1>3, <1>4, <2>1
<1>6. \E p \in Nat : \A s \in Activos :
        reparto'[s] = IF Dentro(Rango(s), a, e) THEN p + 1 ELSE p
  <2> HIDE DEF n, c, e
  <2>1. \/ \A r \in 0 .. n - 1 : Dentro(r, a, e) <=> (Dentro(r, a, c) \/ r = c)
        \/ \A r \in 0 .. n - 1 : ~Dentro(r, a, e) /\ (Dentro(r, a, c) \/ r = c)
    <3>1. n \in Nat \ {0} /\ a \in 0 .. n - 1 /\ c \in 0 .. n - 1 /\ e \in 0 .. n - 1
      BY <1>1, <1>2
    <3>2. e = IF c + 1 = n THEN 0 ELSE c + 1
      BY <1>1
    <3> QED BY <3>1, <3>2 DEF Dentro
  <2>2. CASE \A r \in 0 .. n - 1 : Dentro(r, a, e) <=> (Dentro(r, a, c) \/ r = c)
    <3>1. \A s \in Activos :
            Dentro(Rango(s), a, e) <=> (Dentro(Rango(s), a, c) \/ Rango(s) = c)
      BY <1>3, <2>2
    <3>2. \A s \in Activos : reparto'[s] = IF Dentro(Rango(s), a, e) THEN q + 1 ELSE q
      BY <1>5, <3>1
    <3> QED BY <3>2
  <2>3. CASE \A r \in 0 .. n - 1 : ~Dentro(r, a, e) /\ (Dentro(r, a, c) \/ r = c)
    <3>1. \A s \in Activos : reparto'[s] = q + 1 /\ ~Dentro(Rango(s), a, e)
      BY <1>3, <1>5, <2>3
    <3>2. q + 1 \in Nat
      OBVIOUS
    <3> QED BY <3>1, <3>2
  <2> QED BY <2>1, <2>2, <2>3
<1>7. /\ Cardinality(Activos)' = n
      /\ (currentServerIndex % Cardinality(Activos))' = e
      /\ \A s : Rango(s)' = Rango(s)
  BY DEF Rango
<1> QED BY <1>6, <1>7 DEF Ronda

LEMMA PasoRonda ==
  ASSUME Base, Ronda, [Next]_vars
  PROVE  Ronda'
<1>1. ASSUME NEW h \in Hilos,
             \/ \E p \in Comandos : Aceptar(h, p)
             \/ Hilo(h) \/ ServidorAtiende(h) \/ ServidorRechaza(h)
      PROVE  Ronda'
  <2>1. Activos' = Activos
    BY <1>1, LosHilosNoSenalan
  <2>2. CASE UNCHANGED <<reparto, currentServerIndex>>
    BY <2>1, <2>2, RondaIgual
  <2>3. CASE AtenderConServidor(h)
    <3>1. CASE Es(h, "ADD")
      <4>1. Activos # {}
        BY <2>3, <3>1, HayServidor DEF AtenderConServidor
      <4>2. /\ reparto' = [reparto EXCEPT ![Turno] = @ + 1]
            /\ currentServerIndex' = currentServerIndex + 1
        BY <2>3, <3>1 DEF AtenderConServidor, Avanzar
      <4> QED BY <2>1, <4>1, <4>2, RondaAvanza
    <3>2. CASE ~Es(h, "ADD")
      BY <2>2, <2>3, <3>2 DEF AtenderConServidor
    <3> QED BY <3>1, <3>2
  <2>4. CASE \/ \E p \in Comandos : Aceptar(h, p)
             \/ AtenderSinServidor(h) \/ Conectar(h) \/ Excepcion(h) \/ Registrar(h)
             \/ Responder(h)
    <3>1. UNCHANGED <<reparto, currentServerIndex>>
      BY <2>4 DEF Aceptar, AtenderSinServidor, Conectar, Excepcion, Registrar, Responder,
                  registroVars
    <3> QED BY <2>2, <3>1
  <2>5. CASE ServidorAtiende(h) \/ ServidorRechaza(h)
    <3>1. \E codigo, figuras : Contestar(h, codigo, figuras)
      <4>1. CASE ServidorAtiende(h)
        BY <4>1 DEF ServidorAtiende
      <4>2. CASE ServidorRechaza(h)
        BY <4>2 DEF ServidorRechaza
      <4> QED BY <2>5, <4>1, <4>2
    <3> QED BY <2>2, <3>1 DEF Contestar, registroVars
  <2> QED BY <1>1, <2>3, <2>4, <2>5 DEF Hilo
<1>2. ASSUME NEW s \in Servidores, UdpConnect(s) \/ UdpQuit(s) PROVE Ronda'
  <2>1. /\ UNCHANGED currentServerIndex
        /\ reparto' = IF Activos' = Activos THEN reparto ELSE [t \in Servidores |-> 0]
    BY <1>2, ActivosUdp DEF UdpConnect, UdpQuit, Recontar
  <2>2. Tipos'
    BY <1>2, BaseUdp DEF Base
  <2> QED BY <2>1, <2>2, RondaIgual, RondaNueva
<1>3. ASSUME NEW s \in Servidores, Encender(s) \/ Apagar(s) \/ Caer(s) \/ Red(s) PROVE Ronda'
  <2>1. UNCHANGED registroVars
    BY <1>3 DEF Encender, Apagar, Caer, Red
  <2> QED BY <2>1, RondaIgual DEF registroVars, Activos
<1>4. CASE UNCHANGED vars
  BY <1>4, RondaIgual DEF vars, registroVars, Activos
<1> QED BY <1>1, <1>2, <1>3, <1>4 DEF Next, Udp, Entorno

\* Whatever crashes, gets lost or comes twice: since the set of active servers
\* last changed no active server was sent two figures more than another.
THEOREM RepartoParejo == Spec => []Reparto
<1>1. Init => Base /\ Ronda
  BY BaseInicial DEF Init, Ronda, Activos
<1>2. Base /\ Ronda /\ [Next]_vars => (Base /\ Ronda)'
  BY PasoBase, PasoRonda
<1>3. Base /\ Ronda => Reparto
  BY DEF Ronda, Reparto
<1> QED BY <1>1, <1>2, <1>3, PTL DEF Spec
=============================================================================
