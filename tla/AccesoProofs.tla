---------------------------- MODULE AccesoProofs ----------------------------
(***************************************************************************)
(* The login server ends for the three reasons of CaidaConCausa alone, for *)
(* any number of clients, descriptors, threads and restarts.               *)
(***************************************************************************)
EXTENDS Acceso, FiniteSetTheorems, SequenceTheorems, TLAPS

Hilos == {"no", "saludo", "lee", "contesta", "cierra", "fin"}

Pasos == {"nuevo", "conectando", "sin saludo", "escribiendo", "esperando", "fin", "error",
          "muerto"}

TiposAcceso ==
  /\ paso \in [Clientes -> Pasos]
  /\ vivo \in BOOLEAN /\ descriptores \in Nat
  /\ cola \in Seq(Clientes) /\ hilo \in [Clientes -> Hilos]
  /\ IsFiniteSet(EnServicio)

\* Each connection is in the queue once, and only before it has a thread.
ColaSinRepetir ==
  /\ \A i, j \in DOMAIN cola : cola[i] = cola[j] => i = j
  /\ \A c \in EnCola : hilo[c] = "no"
  /\ \A c \in Clientes : paso[c] = "nuevo" => hilo[c] = "no" /\ c \notin EnCola

\* The server has its own descriptor and one for each session under way, and
\* each session has its SSL.
Justos ==
  vivo => descriptores = 1 + Cardinality(EnServicio) /\ EnServicio \subseteq ssl

\* A server that is off serves nobody.
Apagado == ~vivo => EnServicio = {} /\ cola = <<>>

InvAcceso == TiposAcceso /\ ColaSinRepetir /\ Justos /\ Apagado

-----------------------------------------------------------------------------
\* A session more, or one less.
LEMMA CuentaSesiones ==
  ASSUME NEW S, IsFiniteSet(S), NEW c
  PROVE  /\ IsFiniteSet(S \cup {c}) /\ IsFiniteSet(S \ {c}) /\ Cardinality(S) \in Nat
         /\ c \notin S => Cardinality(S \cup {c}) = Cardinality(S) + 1
         /\ c \in S => Cardinality(S \ {c}) = Cardinality(S) - 1
BY FS_AddElement, FS_RemoveElement, FS_CardinalityType

\* A step that leaves the server as it was.
LEMMA SinCambio ==
  ASSUME InvAcceso, UNCHANGED <<vivo, descriptores, cola, hilo, ssl>>,
         paso' \in [Clientes -> Pasos],
         \A c \in Clientes : paso'[c] = "nuevo" => paso[c] = "nuevo"
  PROVE  InvAcceso'
BY DEF InvAcceso, TiposAcceso, ColaSinRepetir, Justos, Apagado, EnServicio, EnCola

\* A connection waits behind those that wait already.
LEMMA Llega ==
  ASSUME InvAcceso, NEW c \in Clientes, EstablishConnection(c)
  PROVE  InvAcceso'
<1> USE DEF InvAcceso
<1>1. /\ paso[c] = "nuevo" /\ vivo /\ cola' = Append(cola, c)
      /\ UNCHANGED <<vivo, descriptores, hilo, ssl>>
      /\ paso' \in [Clientes -> Pasos]
      /\ \A d \in Clientes : paso'[d] = "nuevo" => paso[d] = "nuevo" /\ d # c
  BY DEF EstablishConnection, Pasa, TiposAcceso, Pasos
<1>2. /\ cola \in Seq(Clientes) /\ cola' \in Seq(Clientes) /\ Len(cola) \in Nat
      /\ Len(cola') = Len(cola) + 1 /\ cola'[Len(cola) + 1] = c
      /\ \A i \in 1 .. Len(cola) : cola'[i] = cola[i]
      /\ DOMAIN cola = 1 .. Len(cola) /\ DOMAIN cola' = 1 .. Len(cola) + 1
  BY <1>1, AppendProperties, LenProperties DEF TiposAcceso
<1>3. EnCola' = EnCola \cup {c} /\ c \notin EnCola /\ hilo[c] = "no"
  BY <1>1, <1>2 DEF EnCola, ColaSinRepetir
<1>4. ASSUME NEW i \in DOMAIN cola', NEW j \in DOMAIN cola', cola'[i] = cola'[j]
      PROVE  i = j
  <2>1. \A k \in 1 .. Len(cola) : cola[k] # c
    BY <1>2, <1>3 DEF EnCola
  <2> QED BY <1>2, <1>4, <2>1 DEF ColaSinRepetir
<1>5. EnServicio' = EnServicio
  BY <1>1 DEF EnServicio
<1>6. TiposAcceso'
  BY <1>1, <1>2, <1>5 DEF TiposAcceso
<1>7. ColaSinRepetir'
  BY <1>1, <1>3, <1>4 DEF ColaSinRepetir
<1> QED BY <1>1, <1>5, <1>6, <1>7 DEF Justos, Apagado

\* main takes the first connection, which has a thread from then on.
LEMMA Acepta ==
  ASSUME InvAcceso, NEW c \in Clientes, AcceptConnection(c)
  PROVE  InvAcceso'
<1> USE DEF InvAcceso
<1>1. /\ vivo /\ cola # <<>> /\ Head(cola) = c /\ cola' = Tail(cola)
      /\ descriptores' = descriptores + 1 /\ hilo' = [hilo EXCEPT ![c] = "saludo"]
      /\ ssl' = ssl \cup {c} /\ UNCHANGED <<vivo, paso>>
  BY DEF AcceptConnection
<1>2. /\ cola \in Seq(Clientes) /\ cola' \in Seq(Clientes) /\ Len(cola) \in Nat \ {0}
      /\ Len(cola') = Len(cola) - 1 /\ cola[1] = c
      /\ \A i \in 1 .. Len(cola) - 1 : cola'[i] = cola[i + 1]
      /\ DOMAIN cola = 1 .. Len(cola) /\ DOMAIN cola' = 1 .. Len(cola) - 1
  BY <1>1, HeadTailProperties, EmptySeq, LenProperties DEF TiposAcceso
<1>3. /\ c \in EnCola /\ hilo[c] = "no" /\ c \notin EnServicio
      /\ \A d \in Clientes \ {c} : hilo'[d] = hilo[d]
      /\ hilo'[c] = "saludo" /\ hilo' \in [Clientes -> Hilos]
  <2>1. c \in EnCola
    BY <1>2 DEF EnCola
  <2>2. hilo[c] = "no" /\ c \notin EnServicio
    BY <2>1 DEF ColaSinRepetir, EnServicio
  <2> QED BY <1>1, <2>1, <2>2 DEF TiposAcceso, Hilos
<1>4. EnServicio' = EnServicio \cup {c}
  BY <1>3 DEF EnServicio
<1>5. \A d \in EnCola' : d \in EnCola \ {c}
  BY <1>2 DEF EnCola, ColaSinRepetir
<1>6. ASSUME NEW i \in DOMAIN cola', NEW j \in DOMAIN cola', cola'[i] = cola'[j]
      PROVE  i = j
  <2>1. i + 1 \in DOMAIN cola /\ j + 1 \in DOMAIN cola /\ cola[i + 1] = cola[j + 1]
    BY <1>2, <1>6
  <2>2. i + 1 = j + 1
    BY <2>1 DEF ColaSinRepetir
  <2> QED BY <1>2, <2>2
<1>7. TiposAcceso'
  BY <1>1, <1>2, <1>3, <1>4, CuentaSesiones DEF TiposAcceso
<1>8. ColaSinRepetir'
  <2>1. \A d \in EnCola' : d \in Clientes
    BY <1>2 DEF EnCola
  <2> QED BY <1>1, <1>3, <1>5, <1>6, <2>1 DEF ColaSinRepetir
<1>9. Justos'
  <2>1. Cardinality(EnServicio') = Cardinality(EnServicio) + 1 /\ Cardinality(EnServicio) \in Nat
    BY <1>3, <1>4, CuentaSesiones DEF TiposAcceso
  <2> QED BY <1>1, <1>4, <2>1 DEF Justos
<1> QED BY <1>1, <1>7, <1>8, <1>9 DEF Apagado

\* A thread goes on with its session.
LEMMA Sigue ==
  ASSUME InvAcceso, NEW c \in Clientes, AcceptSSL(c) \/ Read(c) \/ Write(c)
  PROVE  InvAcceso'
<1> USE DEF InvAcceso
<1>1. /\ hilo[c] \notin {"no", "fin"} /\ hilo'[c] \notin {"no", "fin"}
      /\ hilo' \in [Clientes -> Hilos] /\ \A d \in Clientes \ {c} : hilo'[d] = hilo[d]
      /\ UNCHANGED <<vivo, descriptores, cola, ssl>>
  BY DEF AcceptSSL, Read, Write, TiposAcceso, Hilos
<1>2. /\ paso' \in [Clientes -> Pasos]
      /\ \A d \in Clientes : paso'[d] = "nuevo" => paso[d] = "nuevo"
  BY DEF AcceptSSL, Read, Write, Pasa, TiposAcceso, Pasos
<1>3. EnServicio' = EnServicio /\ EnCola' = EnCola
  BY <1>1 DEF EnServicio, EnCola
<1>4. \A d \in EnCola : d \in Clientes /\ d # c
  BY <1>1, ElementOfSeq, LenProperties DEF EnCola, ColaSinRepetir, TiposAcceso
<1>5. TiposAcceso'
  BY <1>1, <1>2, <1>3 DEF TiposAcceso
<1>6. ColaSinRepetir'
  BY <1>1, <1>2, <1>3, <1>4 DEF ColaSinRepetir
<1> QED BY <1>1, <1>3, <1>5, <1>6 DEF Justos, Apagado

\* Close gives the session's descriptor back.
LEMMA Cierra ==
  ASSUME InvAcceso, NEW c \in Clientes, Close(c)
  PROVE  InvAcceso'
<1> USE DEF InvAcceso
<1>1. /\ c \in EnServicio /\ hilo[c] = "cierra" /\ hilo'[c] = "fin"
      /\ hilo' \in [Clientes -> Hilos] /\ \A d \in Clientes \ {c} : hilo'[d] = hilo[d]
      /\ descriptores' = descriptores - 1 /\ UNCHANGED <<vivo, cola, ssl, paso>>
  BY DEF Close, TiposAcceso, Hilos, EnServicio
<1>2. EnServicio' = EnServicio \ {c} /\ EnCola' = EnCola
  BY <1>1 DEF EnServicio, EnCola
<1>3. \A d \in EnCola : d \in Clientes /\ d # c
  BY <1>1, ElementOfSeq, LenProperties DEF EnCola, ColaSinRepetir, TiposAcceso
<1>4. /\ IsFiniteSet(EnServicio') /\ Cardinality(EnServicio) \in Nat
      /\ Cardinality(EnServicio') = Cardinality(EnServicio) - 1
      /\ Cardinality(EnServicio') \in Nat
  BY <1>1, <1>2, CuentaSesiones DEF TiposAcceso
<1>5. vivo
  BY <1>1 DEF Apagado
<1>6. descriptores' = 1 + Cardinality(EnServicio') /\ descriptores' \in Nat
  BY <1>1, <1>4, <1>5 DEF Justos
<1>7. TiposAcceso'
  BY <1>1, <1>4, <1>6 DEF TiposAcceso
<1>8. ColaSinRepetir'
  BY <1>1, <1>2, <1>3 DEF ColaSinRepetir
<1> QED BY <1>1, <1>2, <1>5, <1>6, <1>7, <1>8 DEF Justos, Apagado

\* The process ends with everything it had open.
LEMMA Termina ==
  ASSUME InvAcceso, Terminar
  PROVE  InvAcceso'
<1> USE DEF InvAcceso
<1>1. /\ ~vivo' /\ vivo' \in BOOLEAN /\ descriptores' = 0 /\ cola' = <<>> /\ UNCHANGED paso
      /\ hilo' = [c \in Clientes |-> IF hilo[c] = "no" THEN "no" ELSE "fin"]
  BY DEF Terminar
<1>2. EnServicio' = {} /\ IsFiniteSet(EnServicio') /\ hilo' \in [Clientes -> Hilos]
  BY <1>1, FS_EmptySet DEF EnServicio, Hilos
<1>3. DOMAIN cola' = {} /\ EnCola' = {} /\ cola' \in Seq(Clientes)
  BY <1>1 DEF EnCola
<1>4. TiposAcceso'
  BY <1>1, <1>2, <1>3 DEF TiposAcceso
<1>5. ColaSinRepetir'
  BY <1>1, <1>3 DEF ColaSinRepetir, TiposAcceso
<1> QED BY <1>1, <1>2, <1>4, <1>5 DEF Justos, Apagado

LEMMA Arranca ==
  ASSUME InvAcceso, Arrancar
  PROVE  InvAcceso'
<1> USE DEF InvAcceso
<1>1. /\ ~vivo /\ vivo' /\ vivo' \in BOOLEAN /\ descriptores' = 1
      /\ UNCHANGED <<cola, hilo, ssl, paso>>
  BY DEF Arrancar
<1>2. EnServicio = {} /\ EnServicio' = EnServicio /\ EnCola' = EnCola
  BY <1>1 DEF Apagado, EnServicio, EnCola
<1>3. Cardinality(EnServicio') = 0
  BY <1>2, FS_EmptySet
<1> QED BY <1>1, <1>2, <1>3 DEF TiposAcceso, ColaSinRepetir, Justos, Apagado

\* What ends the process: a thread that met a dead client, or main without a
\* descriptor or room for a thread.
LEMMA PorQueTermina ==
  ASSUME InvAcceso, vivo,
         \/ WaitForConnectionFalla \/ HiloFalla
         \/ \E c \in Clientes : AcceptSSLFalla(c) \/ ReadFalla(c) \/ WriteFalla(c)
  PROVE  \/ \E c \in EnServicio : paso[c] = "muerto"
         \/ Cardinality(EnServicio) = Limite - 1
         \/ Cardinality(hilos) >= MaxHilos /\ EnCola # {}
<1> USE DEF InvAcceso
<1>1. CASE WaitForConnectionFalla
  <2>1. descriptores = Limite
    BY <1>1 DEF WaitForConnectionFalla
  <2>2. Cardinality(EnServicio) \in Nat
    BY FS_CardinalityType DEF TiposAcceso
  <2> QED BY <2>1, <2>2, AccesoValido DEF Justos
<1>3. CASE HiloFalla
  <2>1. cola # <<>> /\ Cardinality(hilos) >= MaxHilos
    BY <1>3 DEF HiloFalla
  <2>2. 1 \in DOMAIN cola
    BY <2>1, EmptySeq, LenProperties DEF TiposAcceso
  <2>3. EnCola # {}
    BY <2>2 DEF EnCola
  <2> QED BY <2>1, <2>3
<1>2. ASSUME NEW c \in Clientes, AcceptSSLFalla(c) \/ ReadFalla(c) \/ WriteFalla(c)
      PROVE  c \in EnServicio /\ paso[c] = "muerto"
  BY <1>2 DEF AcceptSSLFalla, ReadFalla, WriteFalla, EnServicio, Justos
<1> QED BY <1>1, <1>2, <1>3

\* Each step keeps the invariant, and ends the server for a reason only.
LEMMA PasoAcceso ==
  ASSUME InvAcceso, [Next]_vars
  PROVE  /\ InvAcceso'
         /\ vivo /\ ~vivo' => \/ \E c \in EnServicio : paso[c] = "muerto"
                              \/ Cardinality(EnServicio) = Limite - 1
                              \/ Cardinality(hilos) >= MaxHilos /\ EnCola # {}
<1>1. CASE \/ WaitForConnectionFalla \/ HiloFalla
           \/ \E c \in Clientes : AcceptSSLFalla(c) \/ ReadFalla(c) \/ WriteFalla(c)
  <2>1. Terminar
    BY <1>1 DEF WaitForConnectionFalla, HiloFalla, AcceptSSLFalla, ReadFalla, WriteFalla
  <2> QED BY <1>1, <2>1, Termina, PorQueTermina
<1>2. CASE Arrancar
  BY <1>2, Arranca DEF Arrancar
<1>3. ASSUME NEW c \in Clientes, EstablishConnection(c) \/ AcceptConnection(c)
      PROVE  InvAcceso' /\ UNCHANGED vivo
  BY <1>3, Llega, Acepta DEF EstablishConnection, AcceptConnection
<1>4. ASSUME NEW c \in Clientes, AcceptSSL(c) \/ Read(c) \/ Write(c) \/ Close(c)
      PROVE  InvAcceso' /\ UNCHANGED vivo
  BY <1>4, Sigue, Cierra DEF AcceptSSL, Read, Write, Close
<1>5. ASSUME NEW c \in Clientes,
             \/ EstablishConnectionFalla(c) \/ WriteCliente(c) \/ WriteClienteFalla(c)
             \/ Sola(c) \/ Matar(c)
      PROVE  InvAcceso' /\ UNCHANGED vivo
  <2>1. /\ UNCHANGED <<vivo, descriptores, cola, hilo, ssl>>
        /\ \E p \in Pasos \ {"nuevo"} : paso' = [paso EXCEPT ![c] = p]
    BY <1>5 DEF EstablishConnectionFalla, WriteCliente, WriteClienteFalla, Sola,
            MakeConnectionFalla, ReadCliente, ReadClienteFalla, Matar, SinServidor, servidorVars,
            Pasa, Pasos
  <2>2. /\ paso' \in [Clientes -> Pasos]
        /\ \A d \in Clientes : paso'[d] = "nuevo" => paso[d] = "nuevo"
    BY <2>1 DEF InvAcceso, TiposAcceso
  <2> QED BY <2>1, <2>2, SinCambio
<1>6. CASE UNCHANGED vars
  BY <1>6, SinCambio DEF vars, servidorVars, InvAcceso, TiposAcceso
<1> QED BY <1>1, <1>2, <1>3, <1>4, <1>5, <1>6 DEF Next, Aceptar, Service, Cliente

LEMMA AccesoInicial ==
  ASSUME Init
  PROVE  InvAcceso
<1>1. /\ EnServicio = {} /\ cola = <<>> /\ DOMAIN cola = {} /\ EnCola = {}
      /\ cola \in Seq(Clientes)
  BY DEF Init, EnServicio, EnCola
<1>2. IsFiniteSet(EnServicio) /\ Cardinality(EnServicio) = 0
  BY <1>1, FS_EmptySet
<1> QED BY <1>1, <1>2 DEF Init, InvAcceso, TiposAcceso, ColaSinRepetir, Justos, Apagado, Hilos, Pasos

\* While the server runs it has one descriptor for each session under way and
\* its own, and each session has its SSL: those that ended hold no descriptor.
THEOREM DescriptoresDeSesiones == Spec => []InvAcceso
<1>1. Init => InvAcceso
  BY AccesoInicial
<1>2. InvAcceso /\ [Next]_vars => InvAcceso'
  BY PasoAcceso
<1> QED BY <1>1, <1>2, PTL DEF Spec

\* The server ends only because a client was killed in the middle of its
\* session, because open sessions took every descriptor or because there were
\* as many sessions since its start as it has room for threads.
THEOREM CaidasConCausa == Spec => CaidaConCausa
<1>1. InvAcceso /\ [Next]_vars =>
        [vivo /\ ~vivo' =>
           \/ \E c \in EnServicio : paso[c] = "muerto"
           \/ Cardinality(EnServicio) = Limite - 1
           \/ Cardinality(hilos) >= MaxHilos /\ EnCola # {}]_vars
  BY PasoAcceso
<1> QED BY <1>1, DescriptoresDeSesiones, PTL DEF Spec, CaidaConCausa
=============================================================================
