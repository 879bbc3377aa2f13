--------------------------- MODULE StorageServer ----------------------------
(***************************************************************************)
(* The storage server, 27:20251128/Server/SSLServer.cc: main accepts       *)
(* clients and gives each a detached thread; the threads share one         *)
(* FileSystem without a lock, ask the cache about figures over an          *)
(* SSLSocket, and catch no exception, so that one that is thrown ends the  *)
(* process.  The cache is not in the repository: it is modelled from what  *)
(* the server sends it and expects from it.                                *)
(*                                                                         *)
(* A call of the file system has a beginning and an end; two that overlap  *)
(* are a data race unless both only look at the directory, and after one   *)
(* the state is undefined and nothing more is followed.                    *)
(***************************************************************************)
EXTENDS FileSystemUso, Sockets

CONSTANTS
  Hilos,           \* detached threads at a time
  Pedidos,         \* what clients send: [accion, figura, texto]
  MaxPedidos,      \* connections in a run
  MAXBUF,          \* characters of a text that go to the cache (256)
  Gato, GatoTexto, \* the file main stores when it starts, and its text
  Anteriores,      \* [figura, texto] stored in an earlier life of the server
  Falta            \* a figure without a text

VARIABLES
  proceso,         \* "vivo", "muerto", or "indefinido" after a data race
  stopRequested,   \* set by the handler of SIGINT
  pc,              \* where each thread is
  pedido,          \* what its client asked for
  fsData,          \* what it will answer
  dentro,          \* threads in the middle of a call of the file system
  cache,           \* the figures the cache has and their texts
  cacheViva,
  pedidos,         \* connections so far
  entremedio,      \* a Delete came between the two calls of a Submit, or one
                   \* of the two came without its figure
  vistos,          \* the texts of the figure of each thread since it began
  historia         \* the texts each figure has ever had

hiloVars == <<pc, pedido, fsData, dentro>>
cacheVars == <<cache, cacheViva>>
histVars == <<entremedio, vistos, historia>>
serverVars == <<fs, sockVars, proceso, stopRequested, hiloVars, cacheVars,
                pedidos, histVars>>

Servidor == <<"main", "servidor">>
Cliente(h) == <<h, "cliente">>
DeCache(h) == <<h, "cache">>

\* Names fit their entry of the directory and texts an inode: beyond that the
\* file system keeps nothing.  Vacio is the figure of a request that ends
\* before it; one that ends within its text is a Submit of what came.  Main and
\* every thread have their sockets.
ASSUME StorageServerValido ==
  /\ {Gato} \cup {a.figura : a \in Anteriores} \subseteq Nombres \ NombresLargos
  /\ {p.figura : p \in Pedidos} \subseteq (Nombres \ NombresLargos) \cup {Vacio}
  /\ {GatoTexto} \cup {a.texto : a \in Anteriores} \subseteq Textos \ {Falta}
  /\ \A p \in Pedidos :
       /\ p.accion \in {"List", "Request", "Submit", "Delete", "colgar", "sin linea vacia"}
       /\ p.accion = "Submit" => p.texto \in Textos
  /\ {Servidor} \cup (Hilos \X {"cliente", "cache"}) \subseteq Objetos

Figuras == {p.figura : p \in Pedidos} \cup {Gato}
Ninguno == [accion |-> "ninguna", figura |-> Gato, texto |-> Falta]

\* leer gives a null pointer for a file that is missing or empty, and for no name.
Texto(s, f) == IF f # Vacio /\ Existe(s, f) /\ leer(s, f, MaxBloques * TBLOQUE) # <<>>
               THEN leer(s, f, MaxBloques * TBLOQUE) ELSE Falta
ParaCache(t) == SubSeq(t, 1, IF Len(t) < MAXBUF THEN Len(t) ELSE MAXBUF)

Ir(h, x) == pc' = [pc EXCEPT ![h] = x]
Decir(h, d) == fsData' = [fsData EXCEPT ![h] = d]

\* The disk and the cache outlive the process: what main may find in them.
SinTextos == [f \in Figuras |-> Falta]
Discos == {DiscoNuevo} \cup
  UNION {escribir(crearInodo(DiscoNuevo, a.figura), a.figura, a.texto) : a \in Anteriores}
Caches == {SinTextos} \cup {[SinTextos EXCEPT ![a.figura] = ParaCache(a.texto)] : a \in Anteriores}

\* main: the file system with its first figure, and the listener.  The CONNECT
\* it sends is Encender of Tenedor.
ServerInit ==
  /\ \E d \in Discos : fs \in escribir(crearInodo(d, Gato), Gato, GatoTexto)
  /\ proceso = "vivo" /\ stopRequested = FALSE
  /\ MarkPassive(Servidor)
  /\ pc = [h \in Hilos |-> "libre"]
  /\ pedido = [h \in Hilos |-> Ninguno]
  /\ fsData = [h \in Hilos |-> Falta] /\ dentro = {}
  /\ cache \in Caches /\ cacheViva = TRUE
  /\ pedidos = 0 /\ entremedio = FALSE
  /\ vistos = [h \in Hilos |-> {}]
  /\ historia = [f \in Figuras |->
                  {Texto(fs, f)} \cup {a.texto : a \in {x \in Anteriores : x.figura = f}}]

\* An exception nobody catches, or the end of main: the process ends, with
\* whatever its threads were doing and without a QUIT.
Morir ==
  /\ proceso' = "muerto"
  /\ CerrarTodo
  /\ UNCHANGED <<fs, stopRequested, hiloVars, cacheVars, pedidos, histVars>>
-----------------------------------------------------------------------------
\* main's loop: a connection and a thread for it.
Aceptar(h, p) ==
  /\ pc[h] = "libre" /\ pedidos < MaxPedidos /\ ~stopRequested
  /\ AcceptConnection(Cliente(h))
  /\ pedidos' = pedidos + 1
  /\ pedido' = [pedido EXCEPT ![h] = p]
  /\ Ir(h, "leyendo")
  /\ vistos' = [vistos EXCEPT ![h] = {Texto(fs, p.figura)}]
  /\ UNCHANGED <<fs, proceso, stopRequested, fsData, dentro, cacheVars, entremedio,
                 historia>>

AceptarFalla(h) ==
  /\ pc[h] = "libre" /\ pedidos < MaxPedidos /\ BuildSocketFalla
  /\ Morir

\* SIGINT while main waits in accept: accept fails with EINTR, and
\* WaitForConnection throws before main can look at errno.
SigintEnMain == Morir

\* Another thread runs the handler: main finds the flag after the next
\* connection, and leaves its loop.
SigintEnHilo ==
  /\ \E h \in Hilos : pc[h] # "libre"
  /\ ~stopRequested /\ stopRequested' = TRUE
  /\ UNCHANGED <<fs, sockVars, proceso, hiloVars, cacheVars, pedidos, histVars>>

SalirDelCiclo == stopRequested /\ Morir

\* Read returns the last piece of the request, or the end; not to a thread
\* whose peer has sent no empty line and waits.
Read(h) == pedido[h].accion # "sin linea vacia"

\* processResponse: the request up to its empty line and its body, or as much
\* as came before the peer shut it off.  With no action in it, it gets a 404.
Leer(h) ==
  /\ pc[h] = "leyendo" /\ Read(h)
  /\ Ir(h, CASE pedido[h].accion = "List" -> "leerUnidad"
             [] pedido[h].accion = "Request" -> "conectar"
             [] pedido[h].accion = "Submit" -> "crearInodo"
             [] pedido[h].accion = "Delete" -> "eliminar"
             [] pedido[h].accion = "colgar" -> "responder")
  /\ UNCHANGED <<fs, sockVars, proceso, stopRequested, pedido, fsData, dentro,
                 cacheVars, pedidos, histVars>>

\* The client resets the connection, or its Content-Length is no number: Read or
\* stoi throws.
LeerFalla(h) == pc[h] = "leyendo" /\ Morir

\* The places from which the file system is called.
Llamadas == {"leerUnidad", "crearInodo", "escribir", "eliminar", "leer 256", "leer"}

Chocan(g, h) == ~(pc[g] = "leerUnidad" /\ pc[h] = "leerUnidad")

Entrar(h) ==
  /\ pc[h] \in Llamadas /\ h \notin dentro
  /\ dentro' = dentro \cup {h}
  /\ proceso' = IF \E g \in dentro : Chocan(g, h) THEN "indefinido" ELSE proceso
  /\ UNCHANGED <<fs, sockVars, stopRequested, pc, pedido, fsData, cacheVars,
                 pedidos, histVars>>

\* The call of h returns in state s and the thread goes on at x.
Volver(h, s, x) ==
  /\ fs' = s
  /\ dentro' = dentro \ {h}
  /\ Ir(h, x)
  /\ vistos' = [g \in Hilos |-> IF pc[g] = "libre" THEN {}
                                ELSE vistos[g] \cup {Texto(s, pedido[g].figura)}]
  /\ historia' = [f \in Figuras |-> historia[f] \cup {Texto(s, f)}]
  /\ UNCHANGED <<sockVars, proceso, stopRequested, pedido, cacheVars, pedidos>>

Llamando(h, c) == pc[h] = c /\ h \in dentro

\* A slip: the slot is taken by escribir alone.
CrearNunca(h) ==
  /\ Llamando(h, "crearInodo")
  /\ Volver(h, fs, "escribir")
  /\ UNCHANGED <<fsData, entremedio>>

\* Submit: whether crearInodo took the name or not, escribir follows.
Crear(h) ==
  /\ Llamando(h, "crearInodo")
  /\ Volver(h, crearInodo(fs, pedido[h].figura), "escribir")
  /\ UNCHANGED <<fsData, entremedio>>

\* A slip: it writes again until the figure is there.
EscribirHastaQueQuepa(h) ==
  /\ Llamando(h, "escribir")
  /\ \E s \in escribir(fs, pedido[h].figura, pedido[h].texto) :
       Volver(h, s, IF Existe(s, pedido[h].figura) THEN "leerUnidad" ELSE "escribir")
  /\ UNCHANGED <<fsData, entremedio>>

\* Without a figure, a slot that is not in use gets the blocks and no name.
EscribirFigura(h) ==
  /\ Llamando(h, "escribir")
  /\ \E s \in escribir(fs, pedido[h].figura, pedido[h].texto) : Volver(h, s, "leerUnidad")
  /\ entremedio' = (entremedio \/ pedido[h].figura = Vacio)
  /\ UNCHANGED fsData

\* A name found while no file is counted: eliminar writes before the directory.
SinArchivos(h) == Existe(fs, pedido[h].figura) /\ fs.nFiles <= 0

\* Without a figure, an unused slot is found and the last file goes.
BorrarFigura(h) ==
  /\ Llamando(h, "eliminar") /\ ~SinArchivos(h)
  /\ Volver(h, eliminar(fs, pedido[h].figura), "leerUnidad")
  /\ entremedio' = \/ entremedio \/ pedido[h].figura = Vacio
                   \/ \E g \in Hilos : pc[g] = "escribir"
  /\ UNCHANGED fsData

BorrarFuera(h) ==
  /\ Llamando(h, "eliminar") /\ SinArchivos(h)
  /\ proceso' = "indefinido"
  /\ UNCHANGED <<fs, sockVars, stopRequested, hiloVars, cacheVars, pedidos, histVars>>

\* Only the names go into the answer.
Listar(h) ==
  /\ Llamando(h, "leerUnidad")
  /\ Volver(h, fs, "responder")
  /\ UNCHANGED <<fsData, entremedio>>
-----------------------------------------------------------------------------
\* Request: a connection to the cache and the question whether it has it.
\* connectToServer throws when there is no cache or no descriptor.
Conectar(h) ==
  /\ pc[h] = "conectar" /\ cacheViva
  /\ NuevoSSLSocket(DeCache(h))
  /\ Ir(h, "preguntado")
  /\ UNCHANGED <<fs, proceso, stopRequested, pedido, fsData, dentro, cacheVars,
                 pedidos, histVars>>

ConectarFalla(h) ==
  /\ pc[h] = "conectar" /\ (~cacheViva \/ BuildSocketFalla)
  /\ Morir

\* The cache answers with a line, and the text when it has it.
Contestacion(f) ==
  IF cache[f] = Falta THEN <<"MISS">> ELSE <<"HIT", cache[f]>>

\* Of a hit, what comes after the first line; the spaces that stood for tags
\* are dropped from both ends.
processCacheResponse(r) == r[2]

\* Read throws if the cache goes away instead.
CacheResponde(h) ==
  LET r == Contestacion(pedido[h].figura) IN
  /\ pc[h] = "preguntado"
  /\ Decir(h, IF r[1] = "MISS" THEN Falta ELSE processCacheResponse(r))
  /\ Ir(h, IF r[1] = "MISS" THEN "leer 256" ELSE "cerrar cache")
  /\ UNCHANGED <<fs, sockVars, proceso, stopRequested, pedido, dentro, cacheVars,
                 pedidos, histVars>>

CacheCuelga(h) == pc[h] = "cortado" /\ Morir

\* A MISS: a part of the text for the cache.  The null pointer of a missing
\* figure goes into a string, which ends the process.
LeerParaCache(h) ==
  /\ Llamando(h, "leer 256")
  /\ Texto(fs, pedido[h].figura) # Falta
  /\ Decir(h, ParaCache(Texto(fs, pedido[h].figura)))
  /\ Volver(h, fs, "guardar")
  /\ UNCHANGED entremedio

LeerNulo(h) ==
  /\ Llamando(h, "leer 256")
  /\ Texto(fs, pedido[h].figura) = Falta
  /\ Morir

EnviarACache(h) ==
  /\ pc[h] = "guardar"
  /\ cache' = [cache EXCEPT ![pedido[h].figura] = IF cacheViva THEN fsData[h] ELSE @]
  /\ Ir(h, "leer")
  /\ UNCHANGED <<fs, sockVars, proceso, stopRequested, pedido, fsData, dentro,
                 cacheViva, pedidos, histVars>>

EnviarFalla(h) == pc[h] = "guardar" /\ ~cacheViva /\ Morir

\* A slip: the client gets what the cache got.
LeerDeNuevo(h) ==
  /\ Llamando(h, "leer")
  /\ Volver(h, fs, "cerrar cache")
  /\ UNCHANGED <<fsData, entremedio>>

\* And the whole text, read again, for the client.
LeerEntera(h) ==
  /\ Llamando(h, "leer")
  /\ Decir(h, Texto(fs, pedido[h].figura))
  /\ Volver(h, fs, "cerrar cache")
  /\ UNCHANGED entremedio

CerrarCache(h) ==
  /\ pc[h] = "cerrar cache"
  /\ CloseSocket(DeCache(h))
  /\ Ir(h, "borrar cache")
  /\ UNCHANGED <<fs, proceso, stopRequested, pedido, fsData, dentro, cacheVars,
                 pedidos, histVars>>

BorrarCache(h) ==
  /\ pc[h] = "borrar cache"
  /\ Borrar(DeCache(h))
  /\ Ir(h, "responder")
  /\ UNCHANGED <<fs, proceso, stopRequested, pedido, fsData, dentro, cacheVars,
                 pedidos, histVars>>
-----------------------------------------------------------------------------
\* The answer is written and the client's socket closed.
Responder(h) ==
  /\ pc[h] = "responder"
  /\ CloseSocket(Cliente(h))
  /\ Ir(h, "libre")
  /\ Decir(h, Falta)
  /\ pedido' = [pedido EXCEPT ![h] = Ninguno]
  /\ vistos' = [vistos EXCEPT ![h] = {}]
  /\ UNCHANGED <<fs, proceso, stopRequested, dentro, cacheVars, pedidos,
                 entremedio, historia>>

\* Write to a client that hung up: SIGPIPE, or an exception.
ResponderFalla(h) == pc[h] = "responder" /\ Morir

\* The cache stops, forgets what it had and cuts its connections, or starts.
CacheCae ==
  /\ cacheViva /\ cacheViva' = FALSE
  /\ cache' = SinTextos
  /\ pc' = [h \in Hilos |-> IF pc[h] = "preguntado" THEN "cortado" ELSE pc[h]]
  /\ UNCHANGED <<fs, sockVars, proceso, stopRequested, pedido, fsData, dentro,
                 pedidos, histVars>>

CacheVuelve ==
  /\ ~cacheViva /\ cacheViva' = TRUE
  /\ UNCHANGED <<fs, sockVars, proceso, stopRequested, hiloVars, cache, pedidos,
                 histVars>>

Hilo(h) ==
  \/ Leer(h) \/ Entrar(h) \/ Crear(h) \/ EscribirFigura(h) \/ BorrarFigura(h)
  \/ BorrarFuera(h) \/ Listar(h) \/ Conectar(h) \/ ConectarFalla(h) \/ CacheCuelga(h)
  \/ LeerParaCache(h) \/ LeerNulo(h) \/ EnviarACache(h) \/ EnviarFalla(h)
  \/ LeerEntera(h) \/ CerrarCache(h) \/ BorrarCache(h) \/ Responder(h) \/ ResponderFalla(h)

ServerNext ==
  /\ proceso = "vivo"
  /\ \/ \E h \in Hilos : Hilo(h) \/ CacheResponde(h) \/ AceptarFalla(h) \/ LeerFalla(h)
     \/ \E h \in Hilos, p \in Pedidos : Aceptar(h, p)
     \/ SigintEnMain \/ SigintEnHilo \/ SalirDelCiclo
     \/ CacheCae \/ CacheVuelve

\* Where a thread does not wait for anybody; that is ENABLED Hilo(h).
PuedeSeguir(h) ==
  /\ proceso = "vivo" /\ pc[h] \notin {"libre", "preguntado"}
  /\ ~(pc[h] = "leyendo" /\ pedido[h].accion = "sin linea vacia")

Movido(h) == pc'[h] # pc[h] \/ dentro' # dentro

\* Threads that can go on do, and a cache that is on answers.
ServerFairness ==
  \A h \in Hilos : /\ []<>~PuedeSeguir(h) \/ []<><<Movido(h)>>_serverVars
                   /\ WF_serverVars(proceso = "vivo" /\ CacheResponde(h))

ServerSpec == ServerInit /\ [][ServerNext]_serverVars /\ ServerFairness
-----------------------------------------------------------------------------
ConCache == {"preguntado", "cortado", "leer 256", "guardar", "leer", "cerrar cache"}

\* The descriptors that are open are those of the sockets in use, one each:
\* the listener, a client's per thread, a cache's per exchange.  No thread
\* closes or reads another's, and none stays behind.  Every SSLSocket has its
\* context, and what a Request leaves behind is one context at most.
DescriptoresJustos ==
  proceso # "muerto" =>
    /\ Vivos = {Servidor} \cup {Cliente(h) : h \in {g \in Hilos : pc[g] # "libre"}}
                         \cup {DeCache(h) : h \in {g \in Hilos : pc[g] \in ConCache}}
    /\ abiertos = {objetos[o].idSocket : o \in Vivos}
    /\ \A o, q \in Vivos : objetos[o].idSocket = objetos[q].idSocket => o = q
    /\ contextos \in Cardinality(SSLVivos) .. pedidos

\* A Request is answered with a text its figure had while it was served, or,
\* when the cache had it, with the beginning of one it had at some time.
RespuestaFechada ==
  [][\A h \in Hilos :
       pc[h] # "cerrar cache" /\ pc'[h] = "cerrar cache" =>
         \/ fsData'[h] \in vistos[h]
         \/ /\ pc[h] = "preguntado"
            /\ fsData'[h] \in {ParaCache(t) : t \in historia[pedido[h].figura] \ {Falta}}
    ]_serverVars

\* As long as no two calls overlap, no Delete comes between the two calls of a
\* Submit and none of them comes without its figure, the file system the
\* threads share stays sound.
SanoSalvoEntremedio ==
  proceso # "indefinido" /\ ~entremedio =>
    Compacto(fs) /\ SinCruces(fs) /\ MarcadosJustos(fs)

\* Who sends a whole request is answered, unless the process ends first; a
\* peer that keeps one thread waiting does not keep the others.
Contestados ==
  \A h \in Hilos : pc[h] # "libre" /\ pedido[h].accion # "sin linea vacia"
                  ~> pc[h] = "libre" \/ proceso # "vivo"
=============================================================================
