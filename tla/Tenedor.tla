------------------------------ MODULE Tenedor -------------------------------
(***************************************************************************)
(* The Tenedor of 27:20251128: one detached thread per client, one thread  *)
(* for the UDP signals of the servers, and a mutex over the register of    *)
(* servers and figures that a handler keeps while it talks to a server.    *)
(* The network and the servers in Conformes are what the protocol document *)
(* describes.  The other servers are SSLServer.cc as it is: its thread     *)
(* reads until an empty line that no message of the Tenedor has, so it     *)
(* never answers, and it ends without a QUIT.                              *)
(***************************************************************************)
EXTENDS Naturals, FiniteSets, Sequences

CONSTANTS
  Servidores,           \* their addresses, in the order of the map
  Conformes,            \* those that follow the protocol of the document
  Figuras,
  Hilos,                \* threads of clients
  MaxPedidos,           \* bound on the requests of all clients
  MaxArranques,         \* bound on the starts of all servers
  Anomalias,            \* what may go wrong with the servers and the network
  MaxAnomalias,         \* bound on the crashes and the faults of the network
  Nadie,                \* the mutex is free
  Ninguno               \* no server chosen yet

ASSUME TenedorValido ==
  /\ Servidores \subseteq Nat /\ IsFiniteSet(Servidores) /\ Conformes \subseteq Servidores
  /\ MaxPedidos \in Nat /\ MaxArranques \in Nat
  /\ Anomalias \subseteq {"caida", "perdida", "duplicado", "desorden", "rechazo"}
  /\ MaxAnomalias \in Nat
  /\ Nadie \notin Hilos /\ Ninguno \notin Servidores

\* parseMessage gives a command with its figure, or one that is refused.
Comandos ==
  {<<"LIST">>, <<"MALO">>} \cup {<<c, f>> : c \in {"GET", "ADD", "DELETE"}, f \in Figuras}

VARIABLES
  servers,              \* active, and the vector figures as a set; an address
                        \* never heard of is like an inactive one
  figureLocation,       \* from the figures registered to their server
  serversMutex,         \* who holds it
  currentServerIndex,
  pc,                   \* where each client's thread is
  pedido,               \* its request,
  elegido,              \* the server its handler talks to
  respuesta,            \* and the code it has for its client
  red,                  \* for each server, the datagrams on their way
  vivos,                \* the servers that run
  almacen,              \* and the figures each keeps on its disk
  arranques, pedidos,   \* counters for the bounds, that of the crashes and
  anomalias,            \* faults of the network so far among them
  reparto               \* the figures sent to each server since the set of
                        \* active servers last changed

registroVars == <<servers, figureLocation, currentServerIndex, reparto>>
hiloVars == <<pc, pedido, elegido, respuesta, pedidos>>
servidorVars == <<red, vivos, almacen, arranques, anomalias>>
vars == <<registroVars, serversMutex, hiloVars, servidorVars>>

Activos == {s \in Servidores : servers[s].active}
Registradas == DOMAIN figureLocation

Init ==
  /\ servers = [s \in Servidores |-> [active |-> FALSE, figures |-> {}]]
  /\ figureLocation = [f \in {} |-> 0]
  /\ serversMutex = Nadie
  /\ currentServerIndex = 0
  /\ pc = [h \in Hilos |-> "libre"]
  /\ pedido = [h \in Hilos |-> <<"MALO">>]
  /\ elegido = [h \in Hilos |-> Ninguno]
  /\ respuesta = [h \in Hilos |-> 0]
  /\ red = [s \in Servidores |-> <<>>]
  /\ vivos = {}
  /\ almacen = [s \in Servidores |-> {}]
  /\ arranques = 0
  /\ pedidos = 0
  /\ anomalias = 0
  /\ reparto = [s \in Servidores |-> 0]
-----------------------------------------------------------------------------
Ir(h, l) == pc' = [pc EXCEPT ![h] = l]
Es(h, c) == pedido[h][1] = c
Figura(h) == pedido[h][2]
Decir(h, codigo) == respuesta' = [respuesta EXCEPT ![h] = codigo]

\* A client is accepted and its request read and parsed; a bad one gets its
\* 400 without a look at the register.
Aceptar(h, p) ==
  /\ pc[h] = "libre" /\ pedidos < MaxPedidos
  /\ pedidos' = pedidos + 1
  /\ pedido' = [pedido EXCEPT ![h] = p]
  /\ IF p = <<"MALO">> THEN Ir(h, "responder") /\ Decir(h, 400)
                       ELSE Ir(h, "mutex") /\ Decir(h, 0)
  /\ UNCHANGED <<registroVars, serversMutex, elegido, servidorVars>>

\* What the handlers answer under the mutex without talking to a server, 0
\* when there is a server to talk to.
CodigoInmediato(h) ==
  CASE Es(h, "LIST") -> 200
    [] Es(h, "GET") -> IF Figura(h) \notin Registradas THEN 400
                       ELSE IF figureLocation[Figura(h)] \notin Activos THEN 500 ELSE 0
    [] Es(h, "ADD") -> IF Figura(h) \in Registradas THEN 400
                       ELSE IF Activos = {} THEN 500 ELSE 0
    [] Es(h, "DELETE") -> IF Figura(h) \notin Registradas THEN 400 ELSE 0

AtenderSinServidor(h) ==
  /\ pc[h] = "mutex" /\ serversMutex = Nadie
  /\ CodigoInmediato(h) # 0
  /\ Decir(h, CodigoInmediato(h))
  /\ Ir(h, "responder")
  /\ UNCHANGED <<registroVars, serversMutex, pedido, elegido, pedidos, servidorVars>>

\* The active server whose turn it is, counted in the order of the map.
Turno ==
  LET k == currentServerIndex % Cardinality(Activos)
  IN  CHOOSE s \in Activos : Cardinality({t \in Activos : t < s}) = k

\* A slip: the lock lasts for the look at the register only.
TomarSuelto(h) == UNCHANGED serversMutex
Tomar(h) == serversMutex' = h
\* A slip: the turn goes by the number of figures registered so far.
AvanzarPorFiguras == Cardinality(Registradas)
Avanzar == currentServerIndex + 1

\* The handlers find their server and connect to it, mutex in hand.
AtenderConServidor(h) ==
  /\ pc[h] = "mutex" /\ serversMutex = Nadie
  /\ CodigoInmediato(h) = 0
  /\ Tomar(h)
  /\ Ir(h, "conectar")
  /\ \/ /\ Es(h, "ADD")
        /\ elegido' = [elegido EXCEPT ![h] = Turno]
        /\ currentServerIndex' = Avanzar
        /\ reparto' = [reparto EXCEPT ![Turno] = @ + 1]
     \/ /\ ~Es(h, "ADD")
        /\ elegido' = [elegido EXCEPT ![h] = figureLocation[Figura(h)]]
        /\ UNCHANGED <<currentServerIndex, reparto>>
  /\ UNCHANGED <<servers, figureLocation, pedido, respuesta, pedidos, servidorVars>>

Conectar(h) ==
  /\ pc[h] = "conectar" /\ elegido[h] \in vivos
  /\ Ir(h, "leyendo")
  /\ UNCHANGED <<registroVars, serversMutex, pedido, elegido, respuesta, pedidos,
                 servidorVars>>

\* A slip: the exception leaves the mutex locked.
SoltarNunca(h) == UNCHANGED serversMutex
Soltar(h) == serversMutex' = Nadie

\* MakeConnection or Read throws: the handler's catch answers 500.
Excepcion(h) ==
  /\ \/ pc[h] = "conectar" /\ elegido[h] \notin vivos
     \/ pc[h] = "cortado"
  /\ Decir(h, 500)
  /\ Soltar(h)
  /\ Ir(h, "responder")
  /\ UNCHANGED <<registroVars, pedido, elegido, pedidos, servidorVars>>

Ubicar(f, s) ==
  figureLocation' = [g \in Registradas \cup {f} |-> IF g = f THEN s ELSE figureLocation[g]]
Olvidar(fs) == figureLocation' = [g \in Registradas \ fs |-> figureLocation[g]]

\* The answer has come, or the end of the file: add and delete update the
\* register without a look at it, get passes it on.
Registrar(h) ==
  LET f == Figura(h) s == elegido[h] IN
  /\ pc[h] \in {"contestado", "cortado"}
  /\ \/ /\ Es(h, "GET")
        /\ UNCHANGED <<servers, figureLocation, respuesta>>
     \/ /\ Es(h, "ADD")
        /\ Ubicar(f, s)
        /\ servers' = [servers EXCEPT ![s].figures = @ \cup {f}]
        /\ Decir(h, 200)
     \/ /\ Es(h, "DELETE")
        /\ Olvidar({f})
        /\ servers' = [servers EXCEPT ![s].figures = @ \ {f}]
        /\ Decir(h, 200)
  /\ Soltar(h)
  /\ Ir(h, "responder")
  /\ UNCHANGED <<currentServerIndex, reparto, pedido, elegido, pedidos, servidorVars>>

\* The client is answered and the thread ends, its locals with it.
Responder(h) ==
  /\ pc[h] = "responder"
  /\ Ir(h, "libre")
  /\ Decir(h, 0)
  /\ pedido' = [pedido EXCEPT ![h] = <<"MALO">>]
  /\ elegido' = [elegido EXCEPT ![h] = Ninguno]
  /\ UNCHANGED <<registroVars, serversMutex, pedidos, servidorVars>>

Hilo(h) ==
  \/ AtenderSinServidor(h) \/ AtenderConServidor(h) \/ Conectar(h) \/ Excepcion(h)
  \/ Registrar(h) \/ Responder(h)
-----------------------------------------------------------------------------
\* handleUDPSignaling: a datagram is read and applied under the mutex; while
\* it waits for the mutex nobody else sees it.
Recontar(antes, despues) == IF antes = despues THEN reparto ELSE [s \in Servidores |-> 0]

\* A slip: the figures of the server stay registered.
OlvidarNinguna(fs) == UNCHANGED figureLocation
OlvidarDe(fs) == Olvidar(fs)

UdpConnect(s) ==
  /\ red[s] # <<>> /\ Head(red[s]) = "CONNECT" /\ serversMutex = Nadie
  /\ servers' = [servers EXCEPT ![s] = [active |-> TRUE, figures |-> {}]]
  /\ reparto' = Recontar(Activos, Activos \cup {s})
  /\ red' = [red EXCEPT ![s] = Tail(@)]
  /\ UNCHANGED <<figureLocation, currentServerIndex, serversMutex, hiloVars, vivos, almacen,
                 arranques, anomalias>>

UdpQuit(s) ==
  /\ red[s] # <<>> /\ Head(red[s]) = "QUIT" /\ serversMutex = Nadie
  /\ servers' = [servers EXCEPT ![s].active = FALSE]
  /\ OlvidarDe(servers[s].figures)
  /\ reparto' = Recontar(Activos, Activos \ {s})
  /\ red' = [red EXCEPT ![s] = Tail(@)]
  /\ UNCHANGED <<currentServerIndex, serversMutex, hiloVars, vivos, almacen, arranques,
                 anomalias>>

Udp == \E s \in Servidores : UdpConnect(s) \/ UdpQuit(s)
-----------------------------------------------------------------------------
\* The servers: each signals its start; one that follows the protocol signals
\* its end too, and answers what it is asked.
Encender(s) ==
  /\ s \notin vivos /\ arranques < MaxArranques
  /\ vivos' = vivos \cup {s}
  /\ arranques' = arranques + 1
  /\ red' = [red EXCEPT ![s] = Append(@, "CONNECT")]
  /\ UNCHANGED <<registroVars, serversMutex, hiloVars, almacen, anomalias>>

\* The connections of a server that stops are cut.
Cortar(s) ==
  pc' = [h \in Hilos |-> IF pc[h] = "leyendo" /\ elegido[h] = s THEN "cortado" ELSE pc[h]]

Apagar(s) ==
  /\ s \in vivos \cap Conformes
  /\ vivos' = vivos \ {s}
  /\ Cortar(s)
  /\ red' = [red EXCEPT ![s] = Append(@, "QUIT")]
  /\ UNCHANGED <<registroVars, serversMutex, pedido, elegido, respuesta, pedidos,
                 almacen, arranques, anomalias>>

\* A crash or a fault of the network.
Falla(a) ==
  /\ a \in Anomalias /\ anomalias < MaxAnomalias
  /\ anomalias' = anomalias + 1

\* A crash, or the end of SSLServer.cc: a signal interrupts its accept, which
\* throws before the branch that would send QUIT.
Caer(s) ==
  /\ Falla("caida") /\ s \in vivos
  /\ vivos' = vivos \ {s}
  /\ Cortar(s)
  /\ UNCHANGED <<registroVars, serversMutex, pedido, elegido, respuesta, pedidos,
                 red, almacen, arranques>>

Contestar(h, codigo, figuras) ==
  /\ almacen' = [almacen EXCEPT ![elegido[h]] = figuras]
  /\ Decir(h, codigo)
  /\ Ir(h, "contestado")
  /\ UNCHANGED <<registroVars, serversMutex, pedido, elegido, pedidos, red, vivos,
                 arranques, anomalias>>

ServidorAtiende(h) ==
  LET f == Figura(h) fs == almacen[elegido[h]] IN
  /\ pc[h] = "leyendo" /\ elegido[h] \in Conformes
  /\ \/ Es(h, "GET") /\ Contestar(h, IF f \in fs THEN 200 ELSE 400, fs)
     \/ Es(h, "ADD") /\ Contestar(h, 200, fs \cup {f})
     \/ Es(h, "DELETE") /\ Contestar(h, 200, fs \ {f})

\* A server that cannot store the figure says so.
ServidorRechaza(h) ==
  /\ "rechazo" \in Anomalias /\ pc[h] = "leyendo" /\ elegido[h] \in Conformes /\ Es(h, "ADD")
  /\ Contestar(h, 500, almacen[elegido[h]])

\* UDP loses, repeats and reorders datagrams.
Perder(s) == Falla("perdida") /\ red[s] # <<>> /\ red' = [red EXCEPT ![s] = Tail(@)]
Duplicar(s) ==
  /\ Falla("duplicado") /\ Len(red[s]) = 1
  /\ red' = [red EXCEPT ![s] = @ \o @]
Desordenar(s) ==
  /\ Falla("desorden") /\ Len(red[s]) > 1
  /\ red' = [red EXCEPT ![s] = <<@[2], @[1]>> \o SubSeq(@, 3, Len(@))]

Red(s) ==
  /\ Perder(s) \/ Duplicar(s) \/ Desordenar(s)
  /\ UNCHANGED <<registroVars, serversMutex, hiloVars, vivos, almacen, arranques>>

Entorno ==
  \/ \E s \in Servidores : Encender(s) \/ Apagar(s) \/ Caer(s) \/ Red(s)
  \/ \E h \in Hilos : ServidorRechaza(h)

Next ==
  \/ \E h \in Hilos : (\E p \in Comandos : Aceptar(h, p)) \/ Hilo(h) \/ ServidorAtiende(h)
  \/ Udp
  \/ Entorno

\* Every thread of the Tenedor that can go on does, and a server that runs and
\* follows the protocol answers what it was asked.
Fairness == \A h \in Hilos : WF_vars(Hilo(h)) /\ WF_vars(ServidorAtiende(h))

Spec == Init /\ [][Next]_vars /\ WF_vars(Udp) /\ Fairness
-----------------------------------------------------------------------------
ConMutex == {"conectar", "leyendo", "contestado", "cortado"}

\* The register has its type, and the mutex belongs to the one thread that is
\* in the middle of an exchange.
TypeOK ==
  /\ servers \in [Servidores -> [active : BOOLEAN, figures : SUBSET Figuras]]
  /\ Registradas \subseteq Figuras
  /\ figureLocation \in [Registradas -> Servidores]
  /\ currentServerIndex \in Nat
  /\ serversMutex \in Hilos \cup {Nadie}
  /\ pc \in [Hilos -> {"libre", "mutex", "responder"} \cup ConMutex]
  /\ pedido \in [Hilos -> Comandos]
  /\ \A h \in Hilos : /\ pc[h] \in ConMutex <=> serversMutex = h
                      /\ pc[h] \in ConMutex => elegido[h] \in Servidores

\* With servers that signal their starts and ends in order, a figure is
\* registered at a server exactly when the server is active and has it.
IndiceExacto ==
  anomalias = 0 =>
    \A f \in Figuras, s \in Servidores :
      (f \in Registradas /\ figureLocation[f] = s) <=> (s \in Activos /\ f \in servers[s].figures)

\* Whatever goes wrong, the figures sent out since the set of active servers
\* changed are spread over them evenly.
Reparto == \A s, t \in Activos : reparto[s] <= reparto[t] + 1

\* A handler waits, mutex in hand, for a server that waits for more of its
\* request.
Callado(s) == s \in vivos \ Conformes
Colgado(h) == pc[h] = "leyendo" /\ Callado(elegido[h])

\* Every client is answered, whatever stops, is lost or is refused meanwhile,
\* unless one handler ends up waiting for ever for SSLServer.cc; and then those
\* that need no look at the register are answered all the same.
TodosRespondidos ==
  /\ \A h \in Hilos : []<>(pc[h] = "libre") \/ \E g \in Hilos : <>[]Colgado(g)
  /\ \A h \in Hilos : pedido[h] = <<"MALO">> ~> pc[h] = "libre"

\* Until a crash or a fault of the network, the register does what Indice says.
ElIndice == INSTANCE Indice WITH activos <- Activos, donde <- figureLocation
ImplementaIndice ==
  ElIndice!Init /\ [][anomalias' = 0 => ElIndice!Next]_(ElIndice!vars)
=============================================================================
