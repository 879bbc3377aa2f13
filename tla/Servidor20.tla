----------------------------- MODULE Servidor20 -----------------------------
(***************************************************************************)
(* The server of 20:20251028 (Server/SSLServer.cc), which gives each       *)
(* connection a thread over one file system without a lock, and its        *)
(* clients (cliente/Client.cc), which ask one thing per connection.  The   *)
(* server reads up to the end of the headers and takes what came with them *)
(* for the whole request, which may end before the text, the figure or the *)
(* action; the client reads up to the end of the connection.  A client     *)
(* object stands for both ends of its connection.                          *)
(*                                                                         *)
(* Two calls of the file system that overlap are a data race, and a Delete *)
(* without a figure on an empty directory clears what is before it: after  *)
(* either nothing more is followed.                                        *)
(***************************************************************************)
EXTENDS FileSystem20

CONSTANTS
  Clientes,
  Figuras, Bytes, \* names of figures, and characters of a text
  Pedidos,        \* [accion, figura, texto]: what a client may be asked for
  Basura,         \* what may follow a buffer that has no end
  Cabe,           \* characters of a text that fit in the Read of the headers
  Trozos,         \* names that a request cut in the name of a figure may have
  Gato, cat,      \* the first figure and its text
  MaxConexiones,  \* connections in a run
  MaxVidas        \* times the server starts in a run

ASSUME Servidor20Valido ==
  /\ Gato \in Figuras /\ cat \in Seq(Bytes) /\ Basura \in Bytes /\ Cabe \in Nat
  /\ Vacio \notin Figuras /\ Trozos \in [Figuras -> SUBSET Figuras]
  /\ Pedidos \subseteq [accion : {"List", "Request", "Submit", "Delete"},
                       figura : Figuras, texto : Seq(Bytes)]

VARIABLES
  fs,
  proceso,     \* "vivo", "muerto", or "indefinido"
  hilo,        \* of each connection: "no", "en cola", a place of its thread,
               \* "cerrada", or "cortada" by a reset
  dentro,      \* threads in the middle of a call of the file system
  paso,        \* of each client: "menu", "conectado", "esperando", "fuera"
  pedido,      \* what it asked for, or Nada
  sobra,       \* there may be more of it than what the server reads
  conexiones, vidas

servidorVars == <<fs, proceso, dentro, vidas>>
clienteVars == <<paso, pedido, sobra>>
vars == <<servidorVars, hilo, clienteVars, conexiones>>

Nada == [accion |-> "", figura |-> Gato, texto |-> <<>>]

Ir(c, x) == hilo' = [hilo EXCEPT ![c] = x]
Pasar(c, x) == paso' = [paso EXCEPT ![c] = x]

\* A text read into a buffer without an end, as the callers see it.
SinFin(t) == {t, Append(t, Basura)}

\* main: a blank file system and its first figure.
Arranques == {escribir(crearInodo(FSNuevo, Gato), Gato, t) : t \in SinFin(cat)}

Init ==
  /\ fs \in Arranques /\ proceso = "vivo" /\ dentro = {}
  /\ hilo = [c \in Clientes |-> "no"]
  /\ paso = [c \in Clientes |-> "menu"]
  /\ pedido = [c \in Clientes |-> Nada]
  /\ sobra = [c \in Clientes |-> FALSE]
  /\ conexiones = 0 /\ vidas = 1
-----------------------------------------------------------------------------
\* An option of the menu: a connection.
connectToServer(c) ==
  /\ paso[c] = "menu" /\ hilo[c] = "no" /\ proceso = "vivo" /\ conexiones < MaxConexiones
  /\ conexiones' = conexiones + 1
  /\ Pasar(c, "conectado") /\ Ir(c, "en cola")
  /\ UNCHANGED <<servidorVars, pedido, sobra>>

\* Nobody listens: MakeConnection throws and nobody catches.
connectToServerFalla(c) ==
  /\ paso[c] = "menu" /\ hilo[c] = "no" /\ proceso = "muerto" /\ conexiones < MaxConexiones
  /\ conexiones' = conexiones + 1
  /\ Pasar(c, "fuera")
  /\ UNCHANGED <<servidorVars, hilo, pedido, sobra>>

\* What sprintf may make of an option: only Submit gives it the three texts it
\* takes, and that one read without an end.  The others end in anything, which
\* nobody takes for a text.
Mensajes(p) ==
  IF p.accion = "Submit" THEN {[p EXCEPT !.texto = t] : t \in SinFin(p.texto)} ELSE {p}

\* What processResponse may have of a request: k characters of its text, or what
\* ends in the name of the figure, before it, or before the action does.
Leido(m, k) ==
  {[m EXCEPT !.texto = SubSeq(@, 1, k)], Nada}
    \cup {[m EXCEPT !.figura = f, !.texto = <<>>] : f \in Trozos[m.figura] \cup {Vacio}}

\* processRequest's Write, and how much of it one Read will take.
processRequest(c, p) ==
  /\ paso[c] = "conectado" /\ hilo[c] \in {"en cola", "leyendo"}
  /\ \E m \in Mensajes(p) :
       \E k \in {x \in 0 .. Len(m.texto) : x <= Cabe} : \E l \in Leido(m, k) :
         /\ pedido' = [pedido EXCEPT ![c] = l]
         /\ sobra' = [sobra EXCEPT ![c] = l # m \/ m.accion # "Submit"]
  /\ Pasar(c, "esperando")
  /\ UNCHANGED <<servidorVars, hilo, conexiones>>

\* The server ended after the connection: the Write fails.
processRequestFalla(c) ==
  /\ paso[c] = "conectado" /\ hilo[c] = "cortada"
  /\ Pasar(c, "fuera") /\ Ir(c, "no")
  /\ UNCHANGED <<servidorVars, pedido, sobra, conexiones>>

\* A Submit of a file that cannot be opened closes the connection and goes
\* on; a sprintf that read or wrote where it should not ends the client.
ColgarSinPedir(c) ==
  /\ paso[c] = "conectado"
  /\ Pasar(c, "menu") \/ Pasar(c, "fuera")
  /\ Ir(c, IF hilo[c] = "cortada" THEN "no" ELSE hilo[c])
  /\ UNCHANGED <<servidorVars, pedido, sobra, conexiones>>

\* The answer up to the end of the connection, and the menu again.
LeerRespuesta(c) ==
  /\ paso[c] = "esperando" /\ hilo[c] = "cerrada"
  /\ Pasar(c, "menu") /\ Ir(c, "no")
  /\ pedido' = [pedido EXCEPT ![c] = Nada] /\ sobra' = [sobra EXCEPT ![c] = FALSE]
  /\ UNCHANGED <<servidorVars, conexiones>>

\* A reset: Read throws, with the answer in hand or without, and the client
\* ends before it shows it.
LeerCortada(c) ==
  /\ paso[c] = "esperando" /\ hilo[c] = "cortada"
  /\ Pasar(c, "fuera") /\ Ir(c, "no")
  /\ pedido' = [pedido EXCEPT ![c] = Nada] /\ sobra' = [sobra EXCEPT ![c] = FALSE]
  /\ UNCHANGED <<servidorVars, conexiones>>
-----------------------------------------------------------------------------
\* main's loop: a thread for the connection.
AcceptConnection(c) ==
  /\ hilo[c] = "en cola"
  /\ Ir(c, "leyendo")
  /\ UNCHANGED <<servidorVars, clienteVars, conexiones>>

\* processResponse reads a request, or the end of a connection without one.
LeerPedido(c) ==
  /\ hilo[c] = "leyendo" /\ paso[c] # "conectado"
  /\ Ir(c, CASE pedido[c].accion = "List" -> "leerUnidad"
             [] pedido[c].accion = "Request" -> "leer"
             [] pedido[c].accion = "Submit" -> "crearInodo"
             [] pedido[c].accion = "Delete" -> "eliminar"
             [] OTHER -> "responder")
  /\ UNCHANGED <<servidorVars, clienteVars, conexiones>>

Llamadas == {"leerUnidad", "leer", "crearInodo", "escribir", "eliminar"}

\* Two walks over the names do not disturb each other.
Chocan(c, d) == ~(hilo[c] = "leerUnidad" /\ hilo[d] = "leerUnidad")

Entrar(c) ==
  /\ hilo[c] \in Llamadas /\ c \notin dentro
  /\ dentro' = dentro \cup {c}
  /\ proceso' = IF \E d \in dentro : Chocan(c, d) THEN "indefinido" ELSE proceso
  /\ UNCHANGED <<fs, vidas, hilo, clienteVars, conexiones>>

\* The end of the call x of the thread, which leaves s and goes on at y.
Volver(c, x, s, y) ==
  /\ hilo[c] = x /\ c \in dentro
  /\ dentro' = dentro \ {c}
  /\ fs' = s
  /\ Ir(c, y)
  /\ UNCHANGED <<proceso, vidas, clienteVars, conexiones>>

Crear(c) == Volver(c, "crearInodo", crearInodo(fs, pedido[c].figura), "escribir")
Escribir(c) == Volver(c, "escribir", escribir(fs, pedido[c].figura, pedido[c].texto), "leerUnidad")
Eliminar(c) ==
  /\ ~SinUltimo(fs, pedido[c].figura)
  /\ Volver(c, "eliminar", eliminar(fs, pedido[c].figura), "leerUnidad")
Listar(c) == Volver(c, "leerUnidad", fs, "responder")
LeerFigura(c) == ~SinDatos(fs, pedido[c].figura) /\ Volver(c, "leer", fs, "responder")

\* eliminar clears what is before the directory.
EliminarNada(c) ==
  /\ hilo[c] = "eliminar" /\ c \in dentro /\ SinUltimo(fs, pedido[c].figura)
  /\ proceso' = "indefinido"
  /\ UNCHANGED <<fs, dentro, vidas, hilo, clienteVars, conexiones>>

\* What a client may find of a connection that the server closes, or leaves: a
\* reset when something was left unread.
Finales(c) ==
  CASE paso[c] \in {"menu", "fuera"} -> {"no"}
    [] paso[c] = "conectado" -> {"cortada"}
    [] OTHER -> {"cerrada"} \cup IF sobra[c] THEN {"cortada"} ELSE {}

\* A slip: Service returns without Close.
ContestarSinCerrar(c) ==
  /\ hilo[c] = "responder"
  /\ Ir(c, "contestada")
  /\ UNCHANGED <<servidorVars, clienteVars, conexiones>>

\* The answer, and Close.
Contestar(c) ==
  /\ hilo[c] = "responder"
  /\ \E x \in Finales(c) : Ir(c, x)
  /\ UNCHANGED <<servidorVars, clienteVars, conexiones>>

\* What becomes of a connection when everything the process had is gone: what was
\* asked and not read makes it a reset.
Abandonos(c) ==
  IF hilo[c] \in {"no", "cerrada", "cortada"} THEN {hilo[c]}
  ELSE IF hilo[c] \in {"en cola", "leyendo"} /\ paso[c] = "esperando" THEN {"cortada"}
  ELSE Finales(c)

Morir ==
  /\ proceso' = "muerto" /\ dentro' = {}
  /\ hilo' \in {h \in [Clientes -> {"no", "cerrada", "cortada"}] :
                  \A c \in Clientes : h[c] \in Abandonos(c)}
  /\ UNCHANGED <<fs, vidas, clienteVars, conexiones>>

\* leer gives a null pointer, and a string cannot be made of it.
LeerNada(c) ==
  /\ hilo[c] = "leer" /\ c \in dentro /\ SinDatos(fs, pedido[c].figura)
  /\ Morir

\* It is started again, on a unit that it blanks.
Arrancar ==
  /\ proceso = "muerto" /\ vidas < MaxVidas
  /\ proceso' = "vivo" /\ vidas' = vidas + 1
  /\ fs' \in Arranques
  /\ UNCHANGED <<dentro, hilo, clienteVars, conexiones>>

Hilo(c) ==
  \/ AcceptConnection(c) \/ LeerPedido(c) \/ Entrar(c) \/ Crear(c) \/ Escribir(c)
  \/ Eliminar(c) \/ EliminarNada(c) \/ Listar(c) \/ LeerFigura(c) \/ LeerNada(c)
  \/ Contestar(c)

Leer(c) == proceso # "indefinido" /\ (LeerRespuesta(c) \/ LeerCortada(c))

Next ==
  /\ proceso # "indefinido"
  /\ \/ \E c \in Clientes : \/ connectToServer(c) \/ connectToServerFalla(c)
                            \/ processRequestFalla(c) \/ ColgarSinPedir(c)
                            \/ Leer(c) \/ Hilo(c)
     \/ \E c \in Clientes, p \in Pedidos : processRequest(c, p)
     \/ Arrancar

\* Where a thread waits for nobody; that is ENABLED Hilo(c).
PuedeSeguir(c) ==
  /\ proceso = "vivo" /\ hilo[c] \in Llamadas \cup {"en cola", "leyendo", "responder"}
  /\ ~(hilo[c] = "leyendo" /\ paso[c] = "conectado")

Movido(c) == hilo'[c] # hilo[c] \/ dentro' # dentro

\* Threads that can go on do, and a client takes what has come.
Fairness ==
  \A c \in Clientes : /\ WF_vars(Leer(c))
                      /\ []<>~PuedeSeguir(c) \/ []<><<Movido(c)>>_vars

Spec == Init /\ [][Next]_vars /\ Fairness
-----------------------------------------------------------------------------
\* However Submits, Deletes and Requests of several clients come between each
\* other's calls, as long as no two overlap: no name and no block is in two
\* slots, a free block is blank, and only the last block of a file has room.  The
\* marked blocks are the ones in use and those of the figures that a Delete
\* without a figure dropped, which no figure has again.
UnidadSana ==
  proceso = "vivo" =>
    SinRepetir(fs) /\ BitmapJusto(fs) /\ LibresEnBlanco(fs) /\ LlenosMenosElUltimo(fs)

\* While the server lives a figure is there, with its text or a longer one,
\* until a Delete of that figure, or of none when it is the last: no other
\* request, whole or cut, reaches it.
SoloCrece ==
  [][proceso = "vivo" /\ proceso' = "vivo" =>
       \A n \in Nombres20(fs) :
         \/ n \in Nombres20(fs') /\ IsPrefix(Texto20(fs, n), Texto20(fs', n))
         \/ \E c \in Clientes :
              /\ hilo[c] = "eliminar" /\ hilo'[c] # "eliminar"
              /\ \/ pedido[c].figura = n
                 \/ pedido[c].figura = Vacio /\ n = Last(fs.directorio).nombre]_vars

\* A client that has asked is let go, by an answer and the end of the
\* connection, by a reset or by the end of the server.
ClienteSuelto ==
  \A c \in Clientes : paso[c] = "esperando" ~> paso[c] # "esperando" \/ proceso = "indefinido"
=============================================================================
