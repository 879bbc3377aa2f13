----------------------------- MODULE ForkServer -----------------------------
(***************************************************************************)
(* The figure server of 04:20250826 and its forks (server.cpp, fork.cpp,   *)
(* and the Socket they use).  A fork writes a command and its end of line  *)
(* apart; the server takes what one Read gives it, a part or a mixture     *)
(* maybe, for one command, and answers it with one Write, of which the     *)
(* fork takes what fits in one Read.  Nothing but their order ties answers *)
(* to commands.                                                            *)
(*                                                                         *)
(* What is written travels as pieces in order: a command, its end of line, *)
(* an answer, and the rest of what is longer than a Read; one Read takes   *)
(* whole pieces, and none after a full one.  The server serves one fork at *)
(* a time; it may stop and start again on the files it left.               *)
(***************************************************************************)
EXTENDS Integers, Sequences, FiniteSets, FiniteSetsExt

CONSTANTS
  Forks,        \* the processes of fork.cpp
  Comandos,     \* [metodo, arg, largo, cierra, resto]: what a fork may send; resto
                \* is the first word of what a Read leaves of a long one
  Iniciales,    \* contents of the storage directory at first
  Otros,        \* names in it that are not ascii_<number>.txt
  Grandes,      \* contents that with their "ok " are longer than a Read
  EnUnaLista,   \* names of files that fit in one Read
  MaxComandos,  \* commands in a run
  MaxNumero,    \* files a run may number: two a command, and the first ones
  MaxSesiones,  \* connections in a run
  MaxMuertes,   \* forks and servers that are killed in a run
  Limite,       \* descriptors the server may have open
  Nadie

Numeros == 1 .. MaxNumero

ASSUME ForkServerValido ==
  /\ Limite \in Nat /\ Limite > 2 /\ Nadie \notin Forks /\ MaxNumero \in Nat
  /\ DOMAIN Iniciales \subseteq Numeros \cup Otros

VARIABLES
  archivos,      \* the storage directory: names and contents
  file_counter,
  running,       \* the server is on
  descriptores,  \* descriptors it has open
  sesiones,      \* connections it accepted since it started
  atiende,       \* the fork it serves
  cola,          \* connections it has not accepted
  conexion,      \* of each fork: "no", "en cola", "atendida", "huerfana", "cerrada"
  paso,          \* of each fork: "fuera", "pidiendo", "medio", "esperando"
  enviados,      \* commands each fork has sent
  quit,          \* the last one was the close of a quit
  hacia, desde,  \* pieces under way to the server and to the fork
  mostrada,      \* the last answer each fork showed: for which, and of which command
  cortados,      \* forks with a Read of an end of line alone, or of a part of a
                 \* command or of an answer
  conectadas,    \* connections so far
  muertes        \* processes killed so far

servidorVars == <<archivos, file_counter, running, descriptores, sesiones, atiende, cola>>
forkVars == <<paso, enviados, quit, mostrada>>
cuentas == <<conectadas, muertes>>
vars == <<servidorVars, forkVars, conexion, hacia, desde, cortados, cuentas>>

Enteros == {n \in DOMAIN archivos : n \in Numeros}

\* A slip: the files are counted.
ContarArchivos == Cardinality(Enteros)
\* The constructor: the greatest number among the names.
UltimoNumero == IF Enteros = {} THEN 0 ELSE Max(Enteros)

FinDeLinea(n) == [n |-> n, metodo |-> "", arg |-> "", lleno |-> FALSE, cierra |-> FALSE]
Pieza(n, c) ==
  [n |-> n, metodo |-> c.metodo, arg |-> c.arg, lleno |-> c.largo,
   cierra |-> c.cierra /\ ~c.largo]
Resto(n, c) ==
  [n |-> n, metodo |-> c.resto, arg |-> "", lleno |-> FALSE, cierra |-> c.cierra]

Piezas(n, c) == IF c.largo THEN <<Pieza(n, c), Resto(n, c)>> ELSE <<Pieza(n, c)>>

\* The answer to command n, or a part of it that fills a Read.
Parte(n, lleno) == [n |-> n, lleno |-> lleno]

\* What does not fit in a Read: a large file, and the names of many.
Extensa(c) ==
  \/ c.metodo = "fetch" /\ c.arg \in DOMAIN archivos /\ archivos[c.arg] \in Grandes
  \/ c.metodo = "fetch-list" /\ Cardinality(DOMAIN archivos) > EnUnaLista

\* A slip: the answer and its end of line are two writes, as in the fork.
EnDosPartes(c) == <<Parte(c.n, FALSE), Parte(c.n, FALSE)>>
\* process_command's answer with its end of line: one Write, whatever its size.
Respuesta(c) ==
  IF Extensa(c) THEN <<Parte(c.n, TRUE), Parte(c.n, FALSE)>> ELSE <<Parte(c.n, FALSE)>>

Init ==
  /\ archivos = Iniciales /\ file_counter = UltimoNumero
  /\ running = TRUE /\ descriptores = 1 /\ sesiones = 0
  /\ atiende = Nadie /\ cola = <<>>
  /\ conexion = [f \in Forks |-> "no"]
  /\ paso = [f \in Forks |-> "fuera"] /\ quit = [f \in Forks |-> FALSE]
  /\ enviados = [f \in Forks |-> 0]
  /\ hacia = [f \in Forks |-> <<>>] /\ desde = [f \in Forks |-> <<>>]
  /\ mostrada = [f \in Forks |-> <<0, 0>>]
  /\ cortados = {} /\ conectadas = 0 /\ muertes = 0
-----------------------------------------------------------------------------
\* connect_to_server: the connection waits to be accepted.
Conectar(f) ==
  /\ paso[f] = "fuera" /\ conexion[f] = "no" /\ running /\ conectadas < MaxSesiones
  /\ conectadas' = conectadas + 1
  /\ paso' = [paso EXCEPT ![f] = "pidiendo"]
  /\ conexion' = [conexion EXCEPT ![f] = "en cola"]
  /\ cola' = Append(cola, f)
  /\ cortados' = cortados \ {f}
  /\ mostrada' = [mostrada EXCEPT ![f] = <<0, 0>>]
  /\ UNCHANGED <<archivos, file_counter, running, descriptores, sesiones, atiende,
                 enviados, quit, hacia, desde, muertes>>

\* process_client_command with valid input: the command, without its end.
Mandar(f, c) ==
  /\ paso[f] = "pidiendo" /\ MapThenSumSet(LAMBDA g : enviados[g], Forks) < MaxComandos
  /\ paso' = [paso EXCEPT ![f] = "medio"]
  /\ enviados' = [enviados EXCEPT ![f] = @ + 1]
  /\ quit' = [quit EXCEPT ![f] = c.metodo = "close"]
  /\ hacia' = [hacia EXCEPT ![f] = IF conexion[f] = "cerrada" THEN @
                                   ELSE @ \o Piezas(enviados[f] + 1, c)]
  /\ UNCHANGED <<servidorVars, mostrada, conexion, desde, cortados, cuentas>>

MandarFin(f) ==
  /\ paso[f] = "medio"
  /\ paso' = [paso EXCEPT ![f] = "esperando"]
  /\ hacia' = [hacia EXCEPT ![f] = IF conexion[f] = "cerrada" THEN @
                                   ELSE Append(@, FinDeLinea(enviados[f]))]
  /\ UNCHANGED <<servidorVars, enviados, quit, mostrada, conexion, desde, cortados, cuentas>>

\* The server has the connection, or will.
Suya(f) == conexion[f] \in {"en cola", "atendida"}

\* The fork ends, and its socket with it.
Irse(f) ==
  /\ paso' = [paso EXCEPT ![f] = "fuera"]
  /\ quit' = [quit EXCEPT ![f] = FALSE]
  /\ conexion' = [conexion EXCEPT ![f] = IF Suya(f) THEN @ ELSE "no"]
  /\ hacia' = [hacia EXCEPT ![f] = IF Suya(f) THEN @ ELSE <<>>]
  /\ desde' = [desde EXCEPT ![f] = IF Suya(f) THEN @ ELSE <<>>]

\* It shows an answer, or a message of its own, and asks for input again.
Seguir(f) ==
  /\ paso' = [paso EXCEPT ![f] = "pidiendo"]
  /\ UNCHANGED <<quit, conexion, hacia>>

\* One Read: an answer and maybe others that came after it, or what fits of one;
\* the rest is there for the next command.
LeerRespuesta(f) ==
  /\ paso[f] = "esperando"
  /\ \E k \in 1 .. Len(desde[f]) :
       /\ \A i \in 1 .. k - 1 : ~desde[f][i].lleno
       /\ mostrada' = [mostrada EXCEPT ![f] = <<enviados[f], desde[f][1].n>>]
       /\ cortados' = IF desde[f][k].lleno THEN cortados \cup {f} ELSE cortados
       /\ \/ /\ quit[f]
             /\ Irse(f)
          \/ /\ ~quit[f]
             /\ desde' = [desde EXCEPT ![f] = SubSeq(@, k + 1, Len(@))]
             /\ Seguir(f)
  /\ UNCHANGED <<servidorVars, enviados, cuentas>>

\* Read gives nothing or throws: the server closed the connection.
LeerCerrada(f) ==
  /\ paso[f] = "esperando" /\ desde[f] = <<>> /\ conexion[f] = "cerrada"
  /\ IF quit[f] THEN Irse(f) ELSE Seguir(f) /\ UNCHANGED desde
  /\ UNCHANGED <<servidorVars, enviados, mostrada, cortados, cuentas>>

\* The end of its input, or quit with something after it.
ForkTermina(f) ==
  /\ paso[f] = "pidiendo"
  /\ Irse(f)
  /\ UNCHANGED <<servidorVars, enviados, mostrada, cortados, cuentas>>

\* It is killed, by SIGPIPE maybe when it writes to a connection the server
\* has closed.
ForkMuere(f) ==
  /\ paso[f] \in {"medio", "esperando"}
  /\ muertes < MaxMuertes /\ muertes' = muertes + 1
  /\ Irse(f)
  /\ UNCHANGED <<servidorVars, enviados, mostrada, cortados, conectadas>>
-----------------------------------------------------------------------------
\* Accept: the descriptor of the connection, and one more, of the Socket
\* built to hold it, which is overwritten and stays open.
Aceptar ==
  /\ running /\ atiende = Nadie /\ cola # <<>>
  /\ descriptores + 2 <= Limite
  /\ descriptores' = descriptores + 2
  /\ sesiones' = sesiones + 1
  /\ atiende' = Head(cola) /\ cola' = Tail(cola)
  /\ conexion' = [conexion EXCEPT ![Head(cola)] = "atendida"]
  /\ UNCHANGED <<archivos, file_counter, running, forkVars, hacia, desde, cortados, cuentas>>

\* accept succeeds and the Socket cannot be built: the exception leaves the
\* connection open and nobody to serve it.
AceptarFalla ==
  /\ running /\ atiende = Nadie /\ cola # <<>>
  /\ descriptores + 1 = Limite
  /\ descriptores' = Limite
  /\ cola' = Tail(cola)
  /\ conexion' = [conexion EXCEPT ![Head(cola)] = "huerfana"]
  /\ UNCHANGED <<archivos, file_counter, running, sesiones, atiende, forkVars, hacia, desde,
                 cortados, cuentas>>

\* What becomes of a connection the server closes.
Cerrada(f) == IF paso[f] = "fuera" THEN "no" ELSE "cerrada"

\* A slip: handle_fork returns without delete.
SoltarFork(f) ==
  /\ atiende' = Nadie
  /\ UNCHANGED <<descriptores, conexion, hacia>>

\* A slip: the socket is deleted without the Close of its destructor.
BorrarSinCerrar(f) ==
  /\ atiende' = Nadie
  /\ conexion' = [conexion EXCEPT ![f] = Cerrada(f)]
  /\ hacia' = [hacia EXCEPT ![f] = <<>>]
  /\ UNCHANGED descriptores

\* handle_fork returns: the socket is deleted, and closed.
CerrarFork(f) ==
  /\ atiende' = Nadie
  /\ descriptores' = descriptores - 1
  /\ conexion' = [conexion EXCEPT ![f] = Cerrada(f)]
  /\ hacia' = [hacia EXCEPT ![f] = <<>>]

EsOrden(x) == x.metodo # ""

gen_filename == file_counter + 1

\* What the storage directory may be after write_file: it may not open.
write_file(n, t) ==
  {archivos, [x \in DOMAIN archivos \cup {n} |-> IF x = n THEN t ELSE archivos[x]]}

\* process_command on the first word of what was read: only store changes
\* anything, and a file that cannot be written uses up its number.
Procesar(c) ==
  \/ /\ c.metodo = "store" /\ file_counter < MaxNumero
     /\ file_counter' = gen_filename
     /\ archivos' \in write_file(gen_filename, c.arg)
  \/ /\ c.metodo # "store"
     /\ UNCHANGED <<archivos, file_counter>>

\* The answer to a fork that is gone is lost, if its write does not kill
\* the server.
Contestar(f, c) ==
  desde' = [desde EXCEPT ![f] = IF paso[f] = "fuera" THEN <<>> ELSE @ \o Respuesta(c)]

\* One turn of handle_fork's loop, on the k first pieces under way: any of
\* them may close the connection, and all but the first command are lost.
Atender(f, k) ==
  LET leido == SubSeq(hacia[f], 1, k)
      ordenes == {i \in 1 .. k : EsOrden(leido[i])}
      c == IF ordenes = {} THEN leido[1] ELSE leido[Min(ordenes)]
      cierra == \E i \in 1 .. k : leido[i].cierra
  IN /\ running /\ atiende = f
     /\ \A i \in 1 .. k - 1 : ~leido[i].lleno
     /\ Procesar(c)
     /\ Contestar(f, c)
     /\ cortados' = IF ordenes = {} \/ c.lleno THEN cortados \cup {f} ELSE cortados
     /\ IF cierra THEN CerrarFork(f)
        ELSE /\ hacia' = [hacia EXCEPT ![f] = SubSeq(@, k + 1, Len(@))]
             /\ UNCHANGED <<atiende, descriptores, conexion>>
     /\ UNCHANGED <<running, sesiones, cola, forkVars, cuentas>>

\* Read gives 0 when the fork has gone, or throws when it left answers unread.
TerminarSesion(f) ==
  /\ running /\ atiende = f /\ paso[f] = "fuera"
  /\ hacia[f] = <<>> \/ desde[f] # <<>>
  /\ CerrarFork(f)
  /\ desde' = [desde EXCEPT ![f] = <<>>]
  /\ UNCHANGED <<archivos, file_counter, running, sesiones, cola, forkVars, cortados, cuentas>>

\* The server is killed, by SIGPIPE when it answers a fork that is gone or
\* by whoever runs it, and its connections with it.
ServidorMuere ==
  /\ running /\ running' = FALSE
  /\ muertes < MaxMuertes /\ muertes' = muertes + 1
  /\ atiende' = Nadie /\ cola' = <<>> /\ descriptores' = 0
  /\ conexion' = [f \in Forks |-> IF conexion[f] = "no" THEN "no" ELSE Cerrada(f)]
  /\ hacia' = [f \in Forks |-> <<>>]
  /\ desde' = [f \in Forks |-> IF paso[f] = "fuera" THEN <<>> ELSE desde[f]]
  /\ UNCHANGED <<archivos, file_counter, sesiones, forkVars, cortados, conectadas>>

ServidorArranca ==
  /\ ~running /\ running' = TRUE
  /\ file_counter' = UltimoNumero
  /\ descriptores' = 1 /\ sesiones' = 0
  /\ UNCHANGED <<archivos, atiende, cola, forkVars, conexion, hacia, desde, cortados, cuentas>>

Servir(f) == (\E k \in 1 .. Len(hacia[f]) : Atender(f, k)) \/ TerminarSesion(f)
Leer(f) == LeerRespuesta(f) \/ LeerCerrada(f)

Next ==
  \/ \E f \in Forks : Conectar(f) \/ MandarFin(f) \/ Leer(f) \/ Servir(f) \/ ForkTermina(f) \/ ForkMuere(f)
  \/ \E f \in Forks, c \in Comandos : Mandar(f, c)
  \/ Aceptar \/ AceptarFalla \/ ServidorMuere \/ ServidorArranca

\* Each process goes on by itself once it has what it waits for.
Fairness ==
  \A f \in Forks : WF_vars(MandarFin(f)) /\ WF_vars(Leer(f)) /\ WF_vars(Servir(f))

Spec == Init /\ [][Next]_vars /\ Fairness
-----------------------------------------------------------------------------
\* A figure that was stored is there for good with its text: no number is
\* given twice, restarts and failed writes included.
NuncaSobrescribe ==
  [][\A x \in DOMAIN archivos : x \in DOMAIN archivos' /\ archivos'[x] = archivos[x]]_vars

\* The answer a fork shows is that of the command it has just sent, or a part of
\* it, until some Read of its connection takes an end of line alone, a part of
\* a command or the first part of a long answer: sessions before, forks that
\* were killed and commands that share a Read leave it no other.
RespuestaPropia ==
  \A f \in Forks : f \notin cortados => mostrada[f][1] = mostrada[f][2]

\* A connection is left without anybody to serve it only after Limite - 2
\* sessions: no session costs the server more than one descriptor.
SesionesPosibles ==
  (\E f \in Forks : conexion[f] = "huerfana") => sesiones >= Limite - 2

\* However the reads cut what the forks write, a fork that is served and
\* waits gets an answer, its own or not, or the end of the connection.
ForkContestado ==
  \A f \in Forks : paso[f] = "esperando" /\ conexion[f] = "atendida" ~> paso[f] # "esperando"
=============================================================================
