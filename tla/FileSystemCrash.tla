-------------------------- MODULE FileSystemCrash ---------------------------
(***************************************************************************)
(* The file system with the writes of each call one by one, as the program *)
(* of 20:20251028/FileSystem makes them (its FileSystem.cpp is the text of *)
(* 27:20251128/Server/FileSystem.cc), and a process that may die between   *)
(* any two of them and start again on what reached the disk.               *)
(*                                                                         *)
(* A call changes the memory, which nobody else sees before it returns,    *)
(* and leaves pending the writes it makes, in the order of the code.       *)
(***************************************************************************)
EXTENDS FileSystemLimites, SequencesExt

CONSTANT MaxCortes   \* crashes in a run

VARIABLES
  antes,       \* the file system before the call in progress
  llamadas,    \* the calls of the request in progress, none when idle
  turno,       \* which of them is running
  pendientes,  \* the writes it has still to make
  cortes       \* crashes so far

crashVars == <<fs, antes, llamadas, turno, pendientes, cortes>>

Llamada(o, n, x) == [op |-> o, nombre |-> n, dato |-> x]
Escritura(q) == [que |-> q, bloque |-> 0, texto |-> <<>>]
EscribirBloque(b, c) == [que |-> "bloque", bloque |-> b, texto |-> c]

\* guardarDirectorio writes the block of the names and, after a seek, the
\* lists of blocks of the slots that have one.
GrabarDirectorio == <<Escritura("nombres"), Escritura("listas")>>
GrabarBitmap == <<Escritura("bitmap")>>

Ocupados(dir) == {i \in Slots : dir[i].nombre # Vacio}
Orden(dir, i) == Cardinality({j \in Ocupados(dir) : j <= i})

\* New names over the lists of before: the constructor gives the k-th slot
\* with a name the k-th list, and to one too many whatever is behind them.
NombresSobreListas(s) ==
  LET listas == UNION {[1 .. k -> Bloques] : k \in 0 .. MaxBloques}
      nuevos == Ocupados(s.directorio)
      viejos == Ocupados(s.dDirectorio)
      \* the slots whose lists are at the places of the new names
      De(i) == {j \in viejos : Orden(s.dDirectorio, j) = Orden(s.directorio, i)}
  IN {[s EXCEPT !.dDirectorio =
         [i \in Slots |->
            IF i \notin nuevos THEN INodoVacio
            ELSE INodo(NombreGuardado(s.directorio[i].nombre),
                       IF De(i) = {} THEN resto
                       ELSE s.dDirectorio[CHOOSE j \in De(i) : TRUE].bloques)]] :
        resto \in IF \E i \in nuevos : De(i) = {} THEN listas ELSE {<<>>}}

Grabada(s, e) ==
  CASE e.que = "bloque" -> {escribirBloques(s, <<e.bloque>>, <<e.texto>>)}
    [] e.que = "bitmap" -> {guardarBitmap(s)}
    [] e.que = "nombres" -> NombresSobreListas(s)
    [] e.que = "listas" -> {guardarDirectorio(s)}

\* The memory of t over the disk of s.
EnMemoria(s, t) ==
  [s EXCEPT !.directorio = t.directorio, !.bitmap = t.bitmap, !.nFiles = t.nFiles]

Inicio(s, t, es) == [estado |-> EnMemoria(s, t), escrituras |-> es]
SinEfecto(s) == {[estado |-> s, escrituras |-> <<>>]}

IniciarCrear(s, n) ==
  LET t == crearInodo(s, n)
  IN IF t = s THEN SinEfecto(s)
     ELSE {Inicio(s, t, GrabarDirectorio \o GrabarBitmap)}

\* A slip: the saves come before the blocks.
IniciarEscribirAlFinal(s, n, d) ==
  {LET bs == BloquesDe(t, n) IN
   Inicio(s, t, GrabarBitmap \o GrabarDirectorio
                \o [i \in DOMAIN bs |-> EscribirBloque(bs[i], Trozo(d, i))]) :
     t \in escribir(s, n, d) \ {s}}
  \cup (IF s \in escribir(s, n, d) THEN SinEfecto(s) ELSE {})

\* The blocks of the new text are written first; those of the old text are
\* others, and stay as they are.
IniciarEscribir(s, n, d) ==
  {LET bs == BloquesDe(t, n) IN
   Inicio(s, t, [i \in DOMAIN bs |-> EscribirBloque(bs[i], Trozo(d, i))]
                \o GrabarBitmap \o GrabarDirectorio) :
     t \in escribir(s, n, d) \ {s}}
  \cup (IF s \in escribir(s, n, d) THEN SinEfecto(s) ELSE {})

\* A slip: the directory is saved before the bitmap.
MetadatosAlReves == GrabarDirectorio \o GrabarBitmap
MetadatosDeAgregar == GrabarBitmap \o GrabarDirectorio

\* A byte in the last block, or in a new one: the first block of a file is
\* written before its metadata are saved, the others after.
IniciarAgregar(s, n, c) ==
  LET t == agregar(s, n, c)
      viejos == BloquesDe(s, n)
      ultimo == Last(BloquesDe(t, n))
      byte == <<EscribirBloque(ultimo, t.datos[ultimo])>>
  IN IF t = s THEN SinEfecto(s)
     ELSE {Inicio(s, t, IF BloquesDe(t, n) = viejos THEN byte
                        ELSE IF viejos = <<>> THEN byte \o MetadatosDeAgregar
                        ELSE MetadatosDeAgregar \o byte)}

\* A slip: the blocks of the file that moves are zeroed, not those of n.
ZonaBorradaUltimo(s, n) == s.directorio[s.nFiles - 1].bloques
ZonaBorrada(s, n) == BloquesDe(s, n)

\* A slip: the slot is emptied and the last file stays where it is.
IniciarEliminarConHueco(s, n) ==
  LET t == [s EXCEPT !.directorio[buscarArchivoPorNombre(s, n)] = INodoVacio,
                     !.bitmap = @ \ Range(BloquesDe(s, n)), !.nFiles = @ - 1]
  IN IF ~Existe(s, n) THEN SinEfecto(s)
     ELSE {Inicio(s, t, GrabarBitmap \o GrabarDirectorio)}

IniciarEliminar(s, n) ==
  LET bs == ZonaBorrada(s, n)
  IN IF ~Existe(s, n) THEN SinEfecto(s)
     ELSE {Inicio(s, eliminar(s, n), [i \in DOMAIN bs |-> EscribirBloque(bs[i], <<>>)]
                                     \o GrabarBitmap \o GrabarDirectorio)}

IniciarRenombrar(s, n, m) ==
  IF ~Existe(s, n) THEN SinEfecto(s)
  ELSE {Inicio(s, renombrar(s, n, m), GrabarDirectorio)}

Inicios(s, l) ==
  CASE l.op = "crearInodo" -> IniciarCrear(s, l.nombre)
    [] l.op = "escribir" -> IniciarEscribir(s, l.nombre, l.dato)
    [] l.op = "agregar" -> IniciarAgregar(s, l.nombre, l.dato)
    [] l.op = "eliminar" -> IniciarEliminar(s, l.nombre)
    [] l.op = "renombrar" -> IniciarRenombrar(s, l.nombre, l.dato)
    [] l.op = "destructor" -> {Inicio(s, s, GrabarBitmap \o GrabarDirectorio)}
    [] l.op = "constructor" -> {[estado |-> t, escrituras |-> <<>>] : t \in cargar(s)}

\* The requests.  reemplazar is three calls when the file exists, the
\* server's Submit two, an orderly restart the destructor and the constructor.
\* A slip: without the crearInodo, escribir takes a slot nobody counts.
reemplazarSinCrear(n, d) == <<Llamada("eliminar", n, <<>>), Llamada("escribir", n, d)>>
reemplazarEnPasos(n, d) ==
  <<Llamada("eliminar", n, <<>>), Llamada("crearInodo", n, <<>>), Llamada("escribir", n, d)>>
SubmitEnPasos(n, d) == <<Llamada("crearInodo", n, <<>>), Llamada("escribir", n, d)>>
Reinicio == <<Llamada("destructor", Vacio, <<>>), Llamada("constructor", Vacio, <<>>)>>
-----------------------------------------------------------------------------
CrashInit ==
  /\ Init
  /\ antes = DiscoNuevo /\ llamadas = <<>> /\ turno = 0 /\ pendientes = <<>>
  /\ cortes = 0

Libre == llamadas = <<>>

\* The metadata a restart found name data blocks only, one file each, all
\* marked.  After a crash that broke this no call is followed further.
Sano(s) ==
  /\ SinCruces(s) /\ Usados(s) \subseteq s.bitmap
  /\ \A i \in Slots : s.directorio[i] \in INodos

\* Call k of the request ls in progress starts.  A request with nothing left
\* to do returns.
Correr(ls, k, previo) ==
  \E r \in Inicios(fs, ls[k]) :
    /\ fs' = r.estado
    /\ pendientes' = r.escrituras
    /\ UNCHANGED cortes
    /\ IF r.escrituras = <<>> /\ k = Len(ls)
       THEN llamadas' = <<>> /\ turno' = 0 /\ antes' = fs'
       ELSE llamadas' = ls /\ turno' = k /\ antes' = previo

\* The file stays within the size its callers keep it to.
CabeOtro(n) ==
  /\ Existe(fs, n)
  /\ LET bs == BloquesDe(fs, n)
     IN Len(bs) < MaxFile \/ (bs # <<>> /\ Len(fs.datos[Last(bs)]) < TBLOQUE)

Llamar(ls) == Libre /\ Sano(fs) /\ Correr(ls, 1, fs)

Seguir ==
  /\ ~Libre /\ pendientes = <<>>
  /\ Correr(llamadas, turno + 1, antes)

Grabar ==
  /\ pendientes # <<>>
  /\ fs' \in Grabada(fs, Head(pendientes))
  /\ pendientes' = Tail(pendientes)
  /\ UNCHANGED cortes
  /\ IF Len(pendientes) = 1 /\ turno = Len(llamadas)
     THEN llamadas' = <<>> /\ turno' = 0 /\ antes' = fs'
     ELSE UNCHANGED <<llamadas, turno, antes>>

\* The process dies, between two calls or between two writes, and the next
\* one loads what it finds.
Corte ==
  /\ cortes < MaxCortes /\ cortes' = cortes + 1
  /\ fs' \in cargar(fs)
  /\ antes' = fs'
  /\ llamadas' = <<>> /\ turno' = 0 /\ pendientes' = <<>>

CrashNext ==
  \/ \E n \in Nombres :
       \/ Llamar(<<Llamada("crearInodo", n, <<>>)>>)
       \/ Llamar(<<Llamada("eliminar", n, <<>>)>>)
       \/ \E d \in Textos :
            \/ Existe(fs, n) /\ Llamar(<<Llamada("escribir", n, d)>>)
            \/ Existe(fs, n) /\ Llamar(reemplazarEnPasos(n, d))
            \/ n \notin NombresLargos /\ Llamar(SubmitEnPasos(n, d))
       \/ \E c \in Bytes : CabeOtro(n) /\ Llamar(<<Llamada("agregar", n, c)>>)
       \/ \E m \in Nombres \ NombresLargos :
            ~Existe(fs, m) /\ Llamar(<<Llamada("renombrar", n, m)>>)
  \/ Llamar(Reinicio)
  \/ Seguir
  \/ Grabar
  \/ Corte

CrashSpec == CrashInit /\ [][CrashNext]_crashVars
-----------------------------------------------------------------------------
Leido(s, n) == leer(s, n, MaxBloques * TBLOQUE)
Actual == llamadas[turno]
EntreNombresYListas == pendientes # <<>> /\ Head(pendientes).que = "listas"

\* Wherever the process dies, the restart finds the names in the first
\* slots, each once: nFiles, which eliminar trusts, is right again.
DirectorioTrasCorte == Compacto(fs)

\* A crash leaves every file that the interrupted call does not name as it
\* was before, unless it falls between the names and the lists of an eliminar
\* that moves the last file: then the moved name gets the list of the file
\* that was removed.
OtrosIntactos ==
  [][Corte /\ ~Libre
     => \/ /\ EntreNombresYListas /\ Actual.op = "eliminar"
           /\ buscarArchivoPorNombre(antes, Actual.nombre) < antes.nFiles - 1
        \/ \A n \in Nombres \ {Actual.nombre, Actual.dato} :
             Existe(antes, n) => /\ Existe(fs, n)'
                                 /\ Leido(fs', n) = Leido(antes, n)]_crashVars

\* A file whose escribir or Submit a crash interrupts reads as before or as
\* the new text, never as a part of it; one that was being appended to keeps
\* at least the text it had.
NombradoLegible ==
  [][Corte /\ ~Libre /\ Existe(antes, Actual.nombre)
     => LET n == Actual.nombre
            ultima == Last(llamadas)
        IN /\ ultima.op = "escribir" /\ Head(llamadas).op # "eliminar"
              => Leido(fs', n) \in {Leido(antes, n), ultima.dato}
           /\ Actual.op = "agregar" => IsPrefix(Leido(antes, n), Leido(fs', n))]_crashVars

\* The blocks whose entry of the bitmap the disk keeps.
Guardables == 0 .. EntradasGuardadas - 1

\* A crash while a file grows or changes its name leaves no block in use that
\* the bitmap calls free: the bitmap is saved before the directory.  The program
\* saves only the first entries, and of the blocks past them a restart knows
\* nothing.
MarcadosGuardados ==
  [][Corte /\ ~Libre /\ Actual.op \in {"agregar", "renombrar"}
     => (Usados(fs) \cap Guardables \subseteq fs.bitmap)']_crashVars

\* Until a crash, the requests with their writes one by one are the calls of
\* FileSystemUso, and Submit that of the server.
Atomico == INSTANCE FileSystemUso WITH fs <- IF Libre THEN fs ELSE antes
ImplementaLlamadas ==
  /\ Atomico!Init
  /\ [][Corte \/ Atomico!UsoNext \/ \E n \in Nombres, d \in Textos : Atomico!Submit(n, d)]_(Atomico!vars)
=============================================================================
