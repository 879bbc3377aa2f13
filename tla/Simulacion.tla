----------------------------- MODULE Simulacion -----------------------------
(***************************************************************************)
(* The simulation of 06:20250902: the main thread submits the requests of  *)
(* its clients to the Tenedor, the Servidor thread answers them, and the   *)
(* Tenedor thread gives each answer to its client.  Two TSQ queues join    *)
(* them; a sentinel in a queue ends the thread that consumes from it.      *)
(***************************************************************************)
EXTENDS Naturals, Sequences, FiniteSets

CONSTANTS
  Clientes,     \* client ids
  Figuras,      \* names of figures
  Cuerpos,      \* bodies of figures
  Vacio,        \* the empty body
  Precargada,   \* the figure the constructor of Servidor stores
  Dibujo,       \* its body
  Programas,    \* what main may do: sequences of calls
  MaxLlamadas   \* bound on the calls of a program

\* The commands the text of a client may hold, as parse_cmd splits it, and the
\* texts handle answers them with.
Comandos ==
  {<<f>> : f \in {"PING", "LIST", "STATS", "ADD", "OTRO"}}
    \cup {<<f, n>> : f \in {"GET", "DEL"}, n \in Figuras}
    \cup {<<"ADD", n, v>> : n \in Figuras, v \in Cuerpos}

Salidas ==
  {<<t>> : t \in {"PONG", "NOT FOUND", "BAD FORMAT", "UNKNOWN"}}
    \cup {<<t, n>> : t \in {"ADDED", "DELETED", "NO SUCH"}, n \in Figuras}
    \cup {<<"OK", n, v>> : n \in Figuras, v \in Cuerpos}
    \cup {<<"LIST", s>> : s \in SUBSET Figuras}
    \cup {<<"STATS", r, Cardinality(s)>> : r \in 1..MaxLlamadas, s \in SUBSET Figuras}

Peticiones == [client_id : Clientes, texto : Comandos]
Respuestas == [client_id : Clientes, texto : Salidas]

\* make_sentinel and is_sentinel.
Centinela == [client_id |-> "centinela", texto |-> <<"__SENTINEL__">>]
\* A slip: nobody looks for the sentinel.
EsCentinelaNunca(m) == FALSE
EsCentinela(m) == m.client_id = "centinela"

Envio(c, t) == <<"send", [client_id |-> c, texto |-> t]>>
Llamadas ==
  {<<"send", p>> : p \in Peticiones}
    \cup {<<"stop", "servidor">>, <<"stop", "tenedor">>}
    \cup {<<"waitToFinish", "servidor">>, <<"waitToFinish", "tenedor">>}

\* main numbers its clients from 1; the sentinel's id is -1.
ASSUME SimulacionValida ==
  /\ "centinela" \notin Clientes
  /\ Precargada \in Figuras /\ Dibujo \in Cuerpos \ {Vacio}
  /\ MaxLlamadas \in Nat
  /\ \A p \in Programas : p \in Seq(Llamadas) /\ Len(p) <= MaxLlamadas

VARIABLES
  reqQ, respQ,        \* the two queues
  programa,           \* what main does,
  pos,                \* and the call it is in
  pc,                 \* where each thread is
  req, resp,          \* the message the Servidor and the Tenedor hold
  store_, requests_,  \* the Servidor's figures and its count of requests
  clients_,           \* the clients the Tenedor has registered
  entregas            \* for each client, the texts on_response was given

mainVars == <<programa, pos>>
servidorVars == <<req, store_, requests_>>
tenedorVars == <<resp, clients_, entregas>>
vars == <<reqQ, respQ, pc, mainVars, servidorVars, tenedorVars>>

\* How each queue sees the threads.
PasoReq ==
  [h \in {"main", "servidor"} |->
     IF h = "main" /\ pc[h] = "senalar reqQ" THEN "senal"
     ELSE IF h = "servidor" /\ pc[h] = "frente" THEN "frente" ELSE "fuera"]
PasoResp ==
  [h \in {"main", "servidor", "tenedor"} |->
     IF \/ h = "main" /\ pc[h] = "senalar respQ"
        \/ h = "servidor" /\ pc[h] = "senalar" THEN "senal"
     ELSE IF h = "tenedor" /\ pc[h] = "frente" THEN "frente" ELSE "fuera"]

ReqQ == INSTANCE TSQ WITH
  Productores <- {"main"}, Consumidores <- {"servidor"}, Sondeadores <- {},
  Elementos <- Peticiones \cup {Centinela}, Tope <- MaxLlamadas,
  cola <- reqQ, paso <- PasoReq
RespQ == INSTANCE TSQ WITH
  Productores <- {"main", "servidor"}, Consumidores <- {"tenedor"}, Sondeadores <- {},
  Elementos <- Respuestas \cup {Centinela}, Tope <- MaxLlamadas,
  cola <- respQ, paso <- PasoResp

\* The Servidor is made with one figure.
Almacen == [n \in {Precargada} |-> Dibujo]

\* Both threads run before the first request.
Init ==
  /\ reqQ = ReqQ!ColaVacia /\ respQ = RespQ!ColaVacia
  /\ programa \in Programas /\ pos = 1
  /\ pc = [h \in {"main", "servidor", "tenedor"} |->
             IF h = "main" THEN "llamar" ELSE "esperar"]
  /\ req = Centinela /\ resp = Centinela
  /\ store_ = Almacen
  /\ requests_ = 0
  /\ clients_ = {}
  /\ entregas = [c \in Clientes |-> <<>>]
-----------------------------------------------------------------------------
\* main, one call of its program at a time.
Llamada(f) == pos <= Len(programa) /\ programa[pos][1] = f
Objeto == programa[pos][2]
Ir(h, l) == pc' = [pc EXCEPT ![h] = l]

\* A slip: the client is registered only if it asks for a figure.
RegistroParcial(p) == IF Len(p.texto) > 1 THEN clients_ \cup {p.client_id} ELSE clients_
Registro(p) == clients_ \cup {p.client_id}

\* submit_text: register the client under the mutex, parse, enqueue.
SubmitRegistrar ==
  /\ pc["main"] = "llamar" /\ Llamada("send")
  /\ clients_' = Registro(Objeto)
  /\ Ir("main", "encolar")
  /\ UNCHANGED <<reqQ, respQ, mainVars, servidorVars, resp, entregas>>

SubmitEncolar ==
  /\ pc["main"] = "encolar"
  /\ reqQ' = ReqQ!Meter(reqQ, Objeto)
  /\ Ir("main", "senalar reqQ")
  /\ UNCHANGED <<respQ, mainVars, servidorVars, tenedorVars>>

\* stop: the sentinel goes to the queue its thread consumes from.
ServidorStop ==
  /\ pc["main"] = "llamar" /\ Llamada("stop") /\ Objeto = "servidor"
  /\ reqQ' = ReqQ!Meter(reqQ, Centinela)
  /\ Ir("main", "senalar reqQ")
  /\ UNCHANGED <<respQ, mainVars, servidorVars, tenedorVars>>

TenedorStop ==
  /\ pc["main"] = "llamar" /\ Llamada("stop") /\ Objeto = "tenedor"
  /\ respQ' = RespQ!Meter(respQ, Centinela)
  /\ Ir("main", "senalar respQ")
  /\ UNCHANGED <<reqQ, mainVars, servidorVars, tenedorVars>>

MainSenalar ==
  /\ \/ /\ pc["main"] = "senalar reqQ"
        /\ reqQ' = ReqQ!Senalar(reqQ) /\ UNCHANGED respQ
     \/ /\ pc["main"] = "senalar respQ"
        /\ respQ' = RespQ!Senalar(respQ) /\ UNCHANGED reqQ
  /\ pos' = pos + 1
  /\ Ir("main", "llamar")
  /\ UNCHANGED <<programa, servidorVars, tenedorVars>>

\* waitToFinish joins the thread.
WaitToFinish ==
  /\ pc["main"] = "llamar" /\ Llamada("waitToFinish") /\ pc[Objeto] = "fin"
  /\ pos' = pos + 1
  /\ UNCHANGED <<reqQ, respQ, programa, pc, servidorVars, tenedorVars>>

Main ==
  \/ SubmitRegistrar \/ SubmitEncolar \/ ServidorStop \/ TenedorStop
  \/ MainSenalar \/ WaitToFinish
-----------------------------------------------------------------------------
\* The Servidor: dequeue a request, handle it, enqueue the answer.
Nombres == DOMAIN store_
Guardar(n, v) == [m \in Nombres \cup {n} |-> IF m = n THEN v ELSE store_[m]]
\* A slip: the figure that is there stays, as with emplace or insert.
GuardarNueva(n, v) == IF n \in Nombres THEN store_ ELSE Guardar(n, v)
GuardarFigura(n, v) == Guardar(n, v)
Borrar(n) == [m \in Nombres \ {n} |-> store_[m]]

\* The text handle returns.  A figure with an empty body is not found.
Atender(t) ==
  CASE t[1] = "PING" -> <<"PONG">>
    [] t[1] = "LIST" -> <<"LIST", Nombres>>
    [] t[1] = "GET" -> IF t[2] \in Nombres /\ store_[t[2]] # Vacio
                         THEN <<"OK", t[2], store_[t[2]]>> ELSE <<"NO SUCH", t[2]>>
    [] t[1] = "ADD" -> IF Len(t) = 3 THEN <<"ADDED", t[2]>> ELSE <<"BAD FORMAT">>
    [] t[1] = "DEL" -> IF t[2] \in Nombres THEN <<"DELETED", t[2]>> ELSE <<"NOT FOUND">>
    [] t[1] = "STATS" -> <<"STATS", requests_ + 1, Cardinality(Nombres)>>
    [] OTHER -> <<"UNKNOWN">>

\* A slip: a look at the queue in place of the wait.
ServidorSondear ==
  /\ pc["servidor"] = "esperar" /\ reqQ.queue_ # <<>>
  /\ Ir("servidor", "frente")
  /\ UNCHANGED <<reqQ, respQ, mainVars, servidorVars, tenedorVars>>

ServidorEsperar ==
  /\ pc["servidor"] = "esperar" /\ reqQ.canConsume_ > 0
  /\ reqQ' = ReqQ!Tomar(reqQ)
  /\ Ir("servidor", "frente")
  /\ UNCHANGED <<respQ, mainVars, servidorVars, tenedorVars>>

\* The front of the queue; the sentinel ends run.
ServidorSacar ==
  /\ pc["servidor"] = "frente" /\ reqQ.queue_ # <<>>
  /\ req' = Head(reqQ.queue_)
  /\ reqQ' = ReqQ!Sacar(reqQ)
  /\ Ir("servidor", IF EsCentinela(req') THEN "fin" ELSE "atender")
  /\ UNCHANGED <<respQ, mainVars, store_, requests_, tenedorVars>>

\* handle, and the answer it puts in place of the request.
ServidorAtender ==
  /\ pc["servidor"] = "atender"
  /\ requests_' = requests_ + 1
  /\ store_' = CASE req.texto[1] = "ADD" /\ Len(req.texto) = 3 ->
                      GuardarFigura(req.texto[2], req.texto[3])
                 [] req.texto[1] = "DEL" -> Borrar(req.texto[2])
                 [] OTHER -> store_
  /\ req' = [req EXCEPT !.texto = Atender(@)]
  /\ Ir("servidor", "responder")
  /\ UNCHANGED <<reqQ, respQ, mainVars, tenedorVars>>

ServidorEncolar ==
  /\ pc["servidor"] = "responder"
  /\ respQ' = RespQ!Meter(respQ, req)
  /\ Ir("servidor", "senalar")
  /\ UNCHANGED <<reqQ, mainVars, servidorVars, tenedorVars>>

\* A slip: a signal only for a queue that was empty.
SenalarSiVacia(q) == IF Len(q.queue_) = 1 THEN RespQ!Senalar(q) ELSE q
SenalarRespuesta(q) == RespQ!Senalar(q)

ServidorSenalar ==
  /\ pc["servidor"] = "senalar"
  /\ respQ' = SenalarRespuesta(respQ)
  /\ Ir("servidor", "esperar")
  /\ UNCHANGED <<reqQ, mainVars, servidorVars, tenedorVars>>

Servidor ==
  \/ ServidorEsperar \/ ServidorSacar \/ ServidorAtender
  \/ ServidorEncolar \/ ServidorSenalar
-----------------------------------------------------------------------------
\* The Tenedor's run: dequeue an answer, give it to its client.
\* A slip: a look at the queue in place of the wait.
TenedorSondear ==
  /\ pc["tenedor"] = "esperar" /\ respQ.queue_ # <<>>
  /\ Ir("tenedor", "frente")
  /\ UNCHANGED <<reqQ, respQ, mainVars, servidorVars, tenedorVars>>

TenedorEsperar ==
  /\ pc["tenedor"] = "esperar" /\ respQ.canConsume_ > 0
  /\ respQ' = RespQ!Tomar(respQ)
  /\ Ir("tenedor", "frente")
  /\ UNCHANGED <<reqQ, mainVars, servidorVars, tenedorVars>>

TenedorSacar ==
  /\ pc["tenedor"] = "frente" /\ respQ.queue_ # <<>>
  /\ resp' = Head(respQ.queue_)
  /\ respQ' = RespQ!Sacar(respQ)
  /\ Ir("tenedor", IF EsCentinela(resp') THEN "fin" ELSE "entregar")
  /\ UNCHANGED <<reqQ, mainVars, servidorVars, clients_, entregas>>

\* The answer of a client that is not registered is dropped.
TenedorEntregar ==
  /\ pc["tenedor"] = "entregar"
  /\ entregas' = IF resp.client_id \in clients_
                   THEN [entregas EXCEPT ![resp.client_id] = Append(@, resp.texto)]
                   ELSE entregas
  /\ Ir("tenedor", "esperar")
  /\ UNCHANGED <<reqQ, respQ, mainVars, servidorVars, resp, clients_>>

Tenedor == TenedorEsperar \/ TenedorSacar \/ TenedorEntregar

Next == Main \/ Servidor \/ Tenedor

\* The operating system schedules every thread that can go on.  Each queue has
\* one consumer, so a wait with a permit stays possible until it is taken.
Fairness == WF_vars(Main) /\ WF_vars(Servidor) /\ WF_vars(Tenedor)

Spec == Init /\ [][Next]_vars /\ Fairness
-----------------------------------------------------------------------------
\* What a program's calls ask for, told from the program alone: the body a
\* figure has before call i is that of the last ADD of it, if no DEL came after.
Envios == {i \in 1..Len(programa) : programa[i][1] = "send"}
Texto(i) == programa[i][2].texto
Toca(i, n) == Texto(i)[1] \in {"ADD", "DEL"} /\ Len(Texto(i)) > 1 /\ Texto(i)[2] = n
Ultima(i, n) ==
  CHOOSE j \in Envios : /\ j < i /\ Toca(j, n)
                        /\ \A k \in Envios : j < k /\ k < i => ~Toca(k, n)
Tocada(i, n) == \E j \in Envios : j < i /\ Toca(j, n)
Existe(i, n) == IF Tocada(i, n) THEN Texto(Ultima(i, n))[1] = "ADD" ELSE n = Precargada
Cuerpo(i, n) == IF Tocada(i, n) THEN Texto(Ultima(i, n))[3] ELSE Dibujo
Existentes(i) == {n \in Figuras : Existe(i, n)}

\* The answer call i is due.
Esperada(i) ==
  CASE Texto(i)[1] = "PING" -> <<"PONG">>
    [] Texto(i)[1] = "LIST" -> <<"LIST", Existentes(i)>>
    [] Texto(i)[1] = "GET" -> LET n == Texto(i)[2] IN
                                IF Existe(i, n) /\ Cuerpo(i, n) # Vacio
                                  THEN <<"OK", n, Cuerpo(i, n)>> ELSE <<"NO SUCH", n>>
    [] Texto(i)[1] = "ADD" -> IF Len(Texto(i)) = 3 THEN <<"ADDED", Texto(i)[2]>>
                                                   ELSE <<"BAD FORMAT">>
    [] Texto(i)[1] = "DEL" -> IF Existe(i, Texto(i)[2]) THEN <<"DELETED", Texto(i)[2]>>
                                                        ELSE <<"NOT FOUND">>
    [] Texto(i)[1] = "STATS" -> <<"STATS", Cardinality({j \in Envios : j <= i}),
                                  Cardinality(Existentes(i))>>
    [] OTHER -> <<"UNKNOWN">>

\* The requests of client c, and how many it had made by call i.
EnviosDe(c) == {i \in Envios : programa[i][2].client_id = c}
Vez(c, i) == Cardinality({j \in EnviosDe(c) : j <= i})

Antes(x, y) == \A j \in 1..Len(programa) : programa[j] = y =>
                 \E i \in 1..(j - 1) : programa[i] = x
\* No request follows the Servidor's sentinel, and no sentinel goes to the
\* Tenedor before the Servidor has been joined.
CierraBien ==
  /\ \A i \in Envios : \A j \in 1..i : programa[j] # <<"stop", "servidor">>
  /\ Antes(<<"waitToFinish", "servidor">>, <<"stop", "tenedor">>)
\* Each thread is stopped before it is joined, and then joined.
ParaAntes ==
  \A h \in {"servidor", "tenedor"} :
    /\ Antes(<<"stop", h>>, <<"waitToFinish", h>>)
    /\ \E i \in 1..Len(programa) : programa[i] = <<"waitToFinish", h>>

\* The joins of a thread that main has not stopped before.
EnVano ==
  {i \in 1..Len(programa) : /\ programa[i][1] = "waitToFinish"
                            /\ <<"stop", programa[i][2]>> \notin {programa[j] : j \in 1..(i - 1)}}

Terminado == pos > Len(programa)

\* The queues, the messages each thread holds and the Servidor's figures have
\* their types; a thread that holds a message holds one meant for it.
TypeOK ==
  /\ ReqQ!TSQTypeOK /\ RespQ!TSQTypeOK
  /\ pos \in 1..(Len(programa) + 1)
  /\ pc["servidor"] = "atender" => req \in Peticiones
  /\ pc["servidor"] = "responder" => req \in Respuestas
  /\ pc["tenedor"] = "entregar" => resp \in Respuestas
  /\ Nombres \subseteq Figuras /\ \A n \in Nombres : store_[n] \in Cuerpos
  /\ requests_ \in 0..MaxLlamadas /\ clients_ \subseteq Clientes
  /\ \A c \in Clientes : entregas[c] \in Seq(Salidas)

\* Each client is given the answers to its own requests, in the order it made
\* them, each computed from exactly the requests before it.
RespuestasEnOrden ==
  \A c \in Clientes :
    /\ Len(entregas[c]) <= Cardinality(EnviosDe(c))
    /\ \A i \in EnviosDe(c) :
         Vez(c, i) <= Len(entregas[c]) => entregas[c][Vez(c, i)] = Esperada(i)

Entregado ==
  RespuestasEnOrden /\ \A c \in Clientes : Len(entregas[c]) = Cardinality(EnviosDe(c))

\* When main returns after the orderly end, no client misses an answer.
CierreSinPerdidas == Terminado /\ CierraBien /\ ParaAntes => Entregado

\* Every request is answered to its client, whatever the threads' speeds.
TodasEntregadas == CierraBien => <>Entregado

\* How main ends.  A program that stops each thread before it joins it comes to
\* its end.  Any other makes all its calls before the first join in vain and
\* waits there for ever: so does main.cpp, at line 42, and its sentinels of
\* lines 46 and 47 are never sent.
FinDeMain ==
  /\ EnVano = {} => <>Terminado
  /\ EnVano # {} => <>[](pos \in EnVano /\ \A i \in EnVano : pos <= i)

\* Both queues are used as SpecBloqueante says, so none is found empty.
ColasBloqueantes == ReqQ!SpecBloqueante /\ RespQ!SpecBloqueante
=============================================================================
