------------------------------- MODULE Acceso -------------------------------
(***************************************************************************)
(* The login server of 09:20250916 and its clients (SSLServer.cc,          *)
(* SSLClient.cc and the SSLSocket and VSocket they use).  main accepts a   *)
(* connection, gives its socket an SSL of the server's context and leaves  *)
(* it to a thread, which makes the handshake, reads one message, answers   *)
(* it and closes.  Nothing catches what a thread throws: it ends the       *)
(* process, the other threads and the connections not yet accepted.        *)
(* Nobody joins a thread: one that returned keeps its stack, and the       *)
(* process has room for so many.                                           *)
(*                                                                         *)
(* A client is one run of SSLClient.cc.  It does not look at what          *)
(* MakeConnection returns, and finds out when it writes.                   *)
(***************************************************************************)
EXTENDS Integers, Sequences, FiniteSets

CONSTANTS
  Clientes,  \* runs of SSLClient.cc
  Limite,    \* descriptors the server may have open
  MaxHilos,  \* threads the process has room for
  MaxVidas   \* times the server is started

ASSUME AccesoValido == Limite \in Nat /\ Limite > 1 /\ MaxHilos \in Nat /\ MaxVidas \in Nat

VARIABLES
  vivo,          \* the server is running
  vidas,         \* times it has been started
  descriptores,  \* descriptors it has open
  cola,          \* connections it has not accepted
  hilo,          \* the thread of each client: "no", "saludo", "lee", "contesta", "cierra", "fin"
  hilos,         \* clients whose thread nobody joined, those that returned with the rest
  ssl,           \* clients whose socket on the server has an SSL
  paso,          \* each client: "nuevo", "conectando", "sin saludo", "escribiendo",
                 \* "esperando", "fin", "error" (threw), "muerto" (was killed)
  dicho,         \* the message each client wrote
  contestado,    \* the answer the server wrote to each
  rotas          \* clients whose connection ended with the server

servidorVars == <<vivo, vidas, descriptores, cola, hilo, hilos, ssl>>
vars == <<servidorVars, paso, dicho, contestado, rotas>>

Nada == "nada"
Mensajes == {"valido", "otro"}
EnServicio == {c \in Clientes : hilo[c] \notin {"no", "fin"}}
EnCola == {cola[i] : i \in DOMAIN cola}

Init ==
  /\ vivo = TRUE /\ vidas = 1 /\ descriptores = 1 /\ cola = <<>>
  /\ hilo = [c \in Clientes |-> "no"] /\ hilos = {} /\ ssl = {}
  /\ paso = [c \in Clientes |-> "nuevo"]
  /\ dicho = [c \in Clientes |-> Nada] /\ contestado = [c \in Clientes |-> Nada]
  /\ rotas = {}

-----------------------------------------------------------------------------
\* The client.
Pasa(c, p) == paso' = [paso EXCEPT ![c] = p]
SinServidor == UNCHANGED <<servidorVars, contestado, rotas>>

EstablishConnection(c) ==
  /\ paso[c] = "nuevo" /\ vivo
  /\ cola' = Append(cola, c) /\ Pasa(c, "conectando")
  /\ UNCHANGED <<vivo, vidas, descriptores, hilo, hilos, ssl, dicho, contestado, rotas>>

\* connect fails: it throws, and nothing in main catches it.
EstablishConnectionFalla(c) ==
  paso[c] = "nuevo" /\ ~vivo /\ Pasa(c, "error") /\ SinServidor /\ UNCHANGED dicho

\* SSL_connect fails: MakeConnection returns a code that main ignores.
MakeConnectionFalla(c) ==
  /\ paso[c] = "conectando" /\ c \in rotas
  /\ Pasa(c, "sin saludo") /\ SinServidor /\ UNCHANGED dicho

\* The user has answered both prompts.  What is written to a connection that
\* the server has left may still be taken, and the Read fails then.
WriteCliente(c) ==
  /\ paso[c] = "escribiendo"
  /\ \E m \in Mensajes : dicho' = [dicho EXCEPT ![c] = m]
  /\ Pasa(c, "esperando") /\ SinServidor
WriteClienteFalla(c) ==
  /\ \/ paso[c] = "sin saludo"
     \/ paso[c] = "escribiendo" /\ c \in rotas
  /\ Pasa(c, "error") /\ SinServidor /\ UNCHANGED dicho

ReadCliente(c) ==
  /\ paso[c] = "esperando" /\ contestado[c] # Nada
  /\ Pasa(c, "fin") /\ SinServidor /\ UNCHANGED dicho
ReadClienteFalla(c) ==
  /\ paso[c] = "esperando" /\ c \in rotas
  /\ Pasa(c, "error") /\ SinServidor /\ UNCHANGED dicho

\* The client is killed, at a prompt most likely.
Matar(c) ==
  /\ paso[c] \in {"conectando", "sin saludo", "escribiendo", "esperando"}
  /\ Pasa(c, "muerto") /\ SinServidor /\ UNCHANGED dicho

-----------------------------------------------------------------------------
\* The server.

\* A slip: main waits for the thread before it accepts again.
AcceptConnectionYEsperar(c) ==
  /\ vivo /\ cola # <<>> /\ Head(cola) = c /\ descriptores < Limite /\ EnServicio = {}
  /\ Cardinality(hilos) < MaxHilos /\ hilos' = hilos \cup {c}
  /\ descriptores' = descriptores + 1 /\ cola' = Tail(cola)
  /\ hilo' = [hilo EXCEPT ![c] = "saludo"] /\ ssl' = ssl \cup {c}
  /\ UNCHANGED <<vivo, vidas, paso, dicho, contestado, rotas>>

\* AcceptConnection, Copy and the new thread, one pass of main's loop.
AcceptConnection(c) ==
  /\ vivo /\ cola # <<>> /\ Head(cola) = c /\ descriptores < Limite
  /\ Cardinality(hilos) < MaxHilos /\ hilos' = hilos \cup {c}
  /\ descriptores' = descriptores + 1 /\ cola' = Tail(cola)
  /\ hilo' = [hilo EXCEPT ![c] = "saludo"] /\ ssl' = ssl \cup {c}
  /\ UNCHANGED <<vivo, vidas, paso, dicho, contestado, rotas>>

\* An exception leaves main or a thread.
Terminar ==
  /\ vivo' = FALSE /\ descriptores' = 0 /\ cola' = <<>>
  /\ hilo' = [c \in Clientes |-> IF hilo[c] = "no" THEN "no" ELSE "fin"] /\ hilos' = {} /\ ssl' = {}
  /\ rotas' = rotas \cup EnServicio \cup EnCola
  /\ UNCHANGED <<vidas, paso, dicho, contestado>>

\* accept takes its descriptor before it waits: without one it fails whether
\* a connection is there or not.
WaitForConnectionFalla == vivo /\ descriptores = Limite /\ Terminar

\* std::thread throws: there is no room for one more.
HiloFalla ==
  /\ vivo /\ cola # <<>> /\ descriptores < Limite /\ Cardinality(hilos) >= MaxHilos
  /\ Terminar

\* Both ends return from the handshake: the server from SSL_accept, the
\* client from SSL_connect.
AcceptSSL(c) ==
  /\ hilo[c] = "saludo" /\ c \in ssl /\ paso[c] = "conectando"
  /\ hilo' = [hilo EXCEPT ![c] = "lee"] /\ Pasa(c, "escribiendo")
  /\ UNCHANGED <<vivo, vidas, descriptores, cola, hilos, ssl, dicho, contestado, rotas>>
AcceptSSLFalla(c) ==
  /\ hilo[c] = "saludo" /\ (c \notin ssl \/ paso[c] = "muerto")
  /\ Terminar

Read(c) ==
  /\ hilo[c] = "lee" /\ dicho[c] # Nada
  /\ hilo' = [hilo EXCEPT ![c] = "contesta"]
  /\ UNCHANGED <<vivo, vidas, descriptores, cola, hilos, ssl, paso, dicho, contestado, rotas>>
\* The client died, before it wrote or after: a reset discards what it wrote.
ReadFalla(c) == hilo[c] = "lee" /\ paso[c] = "muerto" /\ Terminar

\* strcmp with the valid message.
Respuesta(m) == IF m = "valido" THEN "datos" ELSE "Invalid Message"

Write(c) ==
  /\ hilo[c] = "contesta"
  /\ contestado' = [contestado EXCEPT ![c] = Respuesta(dicho[c])]
  /\ hilo' = [hilo EXCEPT ![c] = "cierra"]
  /\ UNCHANGED <<vivo, vidas, descriptores, cola, hilos, ssl, paso, dicho, rotas>>
WriteFalla(c) == hilo[c] = "contesta" /\ paso[c] = "muerto" /\ Terminar

\* A slip: the thread returns without closing.
NoCerrar(c) ==
  /\ hilo[c] = "cierra" /\ hilo' = [hilo EXCEPT ![c] = "fin"]
  /\ UNCHANGED <<vivo, vidas, descriptores, cola, hilos, ssl, paso, dicho, contestado, rotas>>
\* Close.  The SSL, its socket's object and the thread's stack are never freed.
Close(c) ==
  /\ hilo[c] = "cierra" /\ hilo' = [hilo EXCEPT ![c] = "fin"]
  /\ descriptores' = descriptores - 1
  /\ UNCHANGED <<vivo, vidas, cola, hilos, ssl, paso, dicho, contestado, rotas>>

\* Someone starts the server again.
Arrancar ==
  /\ ~vivo /\ vidas < MaxVidas
  /\ vivo' = TRUE /\ vidas' = vidas + 1 /\ descriptores' = 1
  /\ UNCHANGED <<cola, hilo, hilos, ssl, paso, dicho, contestado, rotas>>

Service(c) ==
  \/ AcceptSSL(c) \/ AcceptSSLFalla(c)
  \/ Read(c) \/ ReadFalla(c) \/ Write(c) \/ WriteFalla(c) \/ Close(c)
Aceptar ==
  (\E c \in Clientes : AcceptConnection(c)) \/ WaitForConnectionFalla \/ HiloFalla
\* What a client does when nobody types and nobody kills it.
Sola(c) ==
  MakeConnectionFalla(c) \/ ReadCliente(c) \/ ReadClienteFalla(c)
Cliente(c) ==
  \/ EstablishConnection(c) \/ EstablishConnectionFalla(c)
  \/ WriteCliente(c) \/ WriteClienteFalla(c) \/ Sola(c) \/ Matar(c)

Next == Aceptar \/ Arrancar \/ \E c \in Clientes : Service(c) \/ Cliente(c)

\* main and every thread go on while they can.  Nobody has to type, and
\* nobody has to start the server again.
Fairness == WF_vars(Aceptar) /\ \A c \in Clientes : WF_vars(Service(c)) /\ WF_vars(Sola(c))

Spec == Init /\ [][Next]_vars /\ Fairness

-----------------------------------------------------------------------------
(***************************************************************************)
(* The server ends, with every session in it, for three reasons only: a    *)
(* client that was killed while a thread served it, sessions really open   *)
(* that took every descriptor, or a connection that came after as many     *)
(* sessions, ended ones too, as the process has room for threads.  So a    *)
(* session that ended costs a thread and nothing else.                     *)
(***************************************************************************)
CaidaConCausa ==
  [][vivo /\ ~vivo' =>
       \/ \E c \in EnServicio : paso[c] = "muerto"
       \/ Cardinality(EnServicio) = Limite - 1
       \/ Cardinality(hilos) >= MaxHilos /\ EnCola # {}]_vars

(***************************************************************************)
(* A client in MakeConnection or in Read comes out of it, with what it     *)
(* asked or with an error, while others stay at their prompts for ever and *)
(* whatever the server has been through.                                   *)
(***************************************************************************)
ClienteSuelto ==
  LET espera(c) == paso[c] \in {"conectando", "esperando"}
  IN \A c \in Clientes : espera(c) ~> ~espera(c)
=============================================================================
