------------------------ MODULE StorageServerProofs -------------------------
(***************************************************************************)
(* What the threads of the storage server keep of the file system they     *)
(* share, for any number of threads, requests and descriptors.             *)
(***************************************************************************)
EXTENDS StorageServer, FileSystemProofs

Lugares == {"libre", "leyendo", "leerUnidad", "conectar", "crearInodo", "escribir", "eliminar",
            "responder", "preguntado", "cortado", "leer 256", "guardar", "leer",
            "cerrar cache", "borrar cache"}

\* A thread that has a client has its request, and writes only for a Submit.
Servidos ==
  /\ pc \in [Hilos -> Lugares]
  /\ pedido \in [Hilos -> Pedidos \cup {Ninguno}]
  /\ entremedio \in BOOLEAN
  /\ \A h \in Hilos :
       /\ pc[h] # "libre" => pedido[h] \in Pedidos
       /\ pc[h] \in {"crearInodo", "escribir"} => pedido[h].accion = "Submit"

\* Between its two calls the figure of a Submit is there, or nothing fits.
Creada(s, n) == Existe(s, n) \/ ~Existe(s, Vacio)
Pendientes(s) == \A h \in Hilos : pc[h] = "escribir" => Creada(s, pedido[h].figura)

SanoDeVeras == ~entremedio => Bueno(fs) /\ Pendientes(fs)

InvServidor == Servidos /\ SanoDeVeras
-----------------------------------------------------------------------------
\* crearInodo takes an unused slot: the names that were there stay.
LEMMA CrearConserva ==
  ASSUME NEW s, Bueno(s), NEW n \in Nombres \ NombresLargos, NEW m \in Nombres
  PROVE  /\ Creada(crearInodo(s, n), n)
         /\ Creada(s, m) => Creada(crearInodo(s, n), m)
<1> USE Constantes
<1> DEFINE p == buscarArchivoPorNombre(s, Vacio)
           t == crearInodo(s, n)
<1>1. CASE Existe(s, n) \/ ~Existe(s, Vacio)
  BY <1>1 DEF crearInodo, Creada
<1>2. CASE ~Existe(s, n) /\ Existe(s, Vacio)
  <2>1. p \in Slots /\ s.directorio[p].nombre = Vacio
    BY <1>2, Buscar
  <2>2. s \in Estados
    BY DEF Bueno, MemoriaBuena
  <2>3. t.directorio = [s.directorio EXCEPT ![p] = INodo(n, <<>>)]
    BY <1>2, <2>2 DEF crearInodo, guardarBitmap, guardarDirectorio, Estados
  <2>4. Existe(t, n)
    BY <1>2, InodoCreado
  <2>5. ASSUME Existe(s, m) PROVE Existe(t, m)
    <3>1. PICK i \in Slots : s.directorio[i].nombre = m
      BY <2>5 DEF Existe
    <3>2. i # p
      BY <3>1, <2>1, NombresValidos
    <3>3. t.directorio[i] = s.directorio[i]
      BY <2>2, <2>3, <3>2 DEF Estados
    <3> QED BY <3>1, <3>3 DEF Existe
  <2> QED BY <1>2, <2>4, <2>5 DEF Creada
<1> QED BY <1>1, <1>2

\* escribir of a file that is there changes no name, and without a slot for it
\* changes nothing.
LEMMA EscribirConserva ==
  ASSUME NEW s, Bueno(s), NEW n \in Nombres, Creada(s, n), NEW d \in Textos,
         NEW u \in escribir(s, n, d)
  PROVE  /\ Bueno(u)
         /\ \A m : Creada(s, m) => Creada(u, m)
<1> USE Constantes
<1> DEFINE p == buscarArchivoPorNombre(s, n)
<1>1. CASE u = s
  BY <1>1
<1>2. CASE u # s
  <2>1. Existe(s, n)
    BY <1>2 DEF escribir, Creada
  <2>2. PICK a \in Asignaciones(s, BloquesPara(d)) : u = escribirEn(s, p, n, d, a)
    BY <1>2, <2>1 DEF escribir
  <2>3. p \in Slots /\ s.directorio[p].nombre = n
    BY <2>1, Buscar
  <2>4. s \in Estados
    BY DEF Bueno, MemoriaBuena
  <2>5. PICK bs : u.directorio = [s.directorio EXCEPT ![p] = INodo(n, bs)]
    BY <2>2, <2>4 DEF escribirEn, escribirBloques, guardarDirectorio, guardarBitmap, Estados
  <2>6. \A i \in Slots : u.directorio[i].nombre = s.directorio[i].nombre
    BY <2>3, <2>4, <2>5 DEF INodo, Estados
  <2>7. \A m : Existe(u, m) <=> Existe(s, m)
    BY <2>6 DEF Existe
  <2> QED BY <2>1, <2>7, EscrituraBuena DEF Creada
<1> QED BY <1>1, <1>2
-----------------------------------------------------------------------------
\* What main finds on the disk and puts there first.
LEMMA DiscoInicial ==
  ASSUME ServerInit
  PROVE  Bueno(fs)
<1>1. ASSUME NEW d, Bueno(d), NEW n \in Nombres \ NombresLargos, NEW x \in Textos,
             NEW s \in escribir(crearInodo(d, n), n, x)
      PROVE  Bueno(s)
  <2>1. Bueno(crearInodo(d, n)) /\ Creada(crearInodo(d, n), n)
    BY <1>1, InodoCreado, CrearConserva
  <2> QED BY <1>1, <2>1, EscribirConserva
<1>2. ASSUME NEW d \in Discos PROVE Bueno(d)
  <2>1. CASE d = DiscoNuevo
    BY <2>1, DiscoNuevoBueno
  <2>2. ASSUME NEW a \in Anteriores, d \in escribir(crearInodo(DiscoNuevo, a.figura), a.figura, a.texto)
        PROVE  Bueno(d)
    BY <1>1, <2>2, DiscoNuevoBueno, StorageServerValido
  <2> QED BY <2>1, <2>2 DEF Discos
<1>3. PICK d \in Discos : fs \in escribir(crearInodo(d, Gato), Gato, GatoTexto)
  BY DEF ServerInit
<1> QED BY <1>1, <1>2, <1>3, StorageServerValido

\* A step that leaves the file system alone and starts no writing.
LEMMA SinTocar ==
  ASSUME SanoDeVeras, UNCHANGED <<fs, entremedio>>,
         \A h \in Hilos : pc'[h] = "escribir" => pc[h] = "escribir" /\ pedido'[h] = pedido[h]
  PROVE  SanoDeVeras'
BY DEF SanoDeVeras, Pendientes

\* A thread goes from one place to another with the request it has.
LEMMA SigueServido ==
  ASSUME Servidos, NEW h \in Hilos, pc[h] # "libre", NEW x \in Lugares, Ir(h, x),
         UNCHANGED pedido, entremedio' \in BOOLEAN,
         x \in {"crearInodo", "escribir"} => pedido[h].accion = "Submit"
  PROVE  /\ Servidos'
         /\ x # "escribir" => \A g \in Hilos : pc'[g] = "escribir" => pc[g] = "escribir"
BY DEF Servidos, Ir

LEMMA PasoServidor ==
  ASSUME InvServidor, [ServerNext]_serverVars
  PROVE  InvServidor'
<1> USE DEF InvServidor
<1>1. ASSUME UNCHANGED <<fs, pc, pedido, entremedio>> PROVE InvServidor'
  BY <1>1 DEF Servidos, SanoDeVeras, Pendientes
<1>2. ASSUME NEW h \in Hilos, pc[h] # "libre", NEW x \in Lugares \ {"escribir"}, Ir(h, x),
             UNCHANGED <<fs, pedido, entremedio>>,
             x = "crearInodo" => pedido[h].accion = "Submit"
      PROVE  InvServidor'
  <2>1. entremedio' \in BOOLEAN
    BY <1>2 DEF Servidos
  <2>2. Servidos' /\ \A g \in Hilos : pc'[g] = "escribir" => pc[g] = "escribir"
    BY <1>2, <2>1, SigueServido
  <2> QED BY <1>2, <2>2, SinTocar
<1>3. ASSUME NEW h \in Hilos, Leer(h) PROVE InvServidor'
  <2>1. pedido[h] \in Pedidos /\ pc[h] # "libre"
    BY <1>3 DEF Leer, Servidos
  <2>2. PICK x \in {"leerUnidad", "conectar", "crearInodo", "eliminar", "responder"} :
          /\ Ir(h, x)
          /\ x = "crearInodo" => pedido[h].accion = "Submit"
    BY <1>3, <2>1, StorageServerValido DEF Leer, Read
  <2> QED BY <1>2, <1>3, <2>1, <2>2 DEF Leer, Lugares, histVars
<1>4. ASSUME NEW h \in Hilos, Entrar(h) PROVE InvServidor'
  BY <1>1, <1>4 DEF Entrar, histVars
<1>5. ASSUME NEW h \in Hilos, Crear(h) PROVE InvServidor'
  <2>1. /\ pc[h] = "crearInodo" /\ fs' = crearInodo(fs, pedido[h].figura)
        /\ Ir(h, "escribir") /\ UNCHANGED <<pedido, entremedio>>
    BY <1>5 DEF Crear, Llamando, Volver
  <2>2. entremedio' \in BOOLEAN /\ pedido[h].accion = "Submit"
    BY <2>1 DEF Servidos
  <2>3. Servidos'
    BY <2>1, <2>2, SigueServido DEF Lugares
  <2>4. ASSUME ~entremedio PROVE Bueno(fs') /\ Pendientes(fs)'
    <3>1. Bueno(fs) /\ pedido[h].figura \in (Nombres \ NombresLargos) \cup {Vacio}
      BY <2>1, <2>4, StorageServerValido DEF SanoDeVeras, Servidos
    <3>0. ASSUME pedido[h].figura = Vacio PROVE fs' = fs
      BY <2>1, <3>0 DEF crearInodo
    <3>2. Bueno(fs') /\ Creada(fs', pedido[h].figura)
      <4>1. CASE pedido[h].figura = Vacio
        BY <3>0, <3>1, <4>1 DEF Creada
      <4> QED BY <2>1, <3>1, <4>1, InodoCreado, CrearConserva
    <3>3. ASSUME NEW g \in Hilos, g # h, pc'[g] = "escribir" PROVE Creada(fs', pedido[g].figura)
      <4>1. pc[g] = "escribir"
        BY <2>1, <3>3 DEF Ir, Servidos
      <4>2. Creada(fs, pedido[g].figura) /\ pedido[g].figura \in Nombres \cup {Vacio}
        BY <2>4, <4>1, StorageServerValido DEF SanoDeVeras, Pendientes, Servidos
      <4>3. CASE pedido[g].figura = Vacio
        BY <4>3 DEF Creada
      <4> QED BY <2>1, <3>0, <3>1, <4>2, <4>3, CrearConserva
    <3> QED BY <2>1, <3>2, <3>3 DEF Pendientes
  <2> QED BY <2>1, <2>3, <2>4 DEF SanoDeVeras
<1>6. ASSUME NEW h \in Hilos, EscribirFigura(h) PROVE InvServidor'
  <2>1. /\ pc[h] = "escribir" /\ fs' \in escribir(fs, pedido[h].figura, pedido[h].texto)
        /\ Ir(h, "leerUnidad") /\ UNCHANGED pedido
        /\ entremedio' = (entremedio \/ pedido[h].figura = Vacio)
    BY <1>6 DEF EscribirFigura, Llamando, Volver
  <2>2. entremedio' \in BOOLEAN
    BY <2>1 DEF Servidos
  <2>3. Servidos' /\ \A g \in Hilos : pc'[g] = "escribir" => pc[g] = "escribir"
    BY <2>1, <2>2, SigueServido DEF Lugares
  <2>4. ASSUME ~entremedio' PROVE Bueno(fs') /\ Pendientes(fs)'
    <3>1. /\ Bueno(fs) /\ Creada(fs, pedido[h].figura)
          /\ pedido[h].figura \in Nombres /\ pedido[h].texto \in Textos
      BY <2>1, <2>4, StorageServerValido DEF SanoDeVeras, Servidos, Pendientes
    <3>2. Bueno(fs') /\ \A m : Creada(fs, m) => Creada(fs', m)
      BY <2>1, <3>1, EscribirConserva
    <3> QED BY <2>1, <2>3, <2>4, <3>2 DEF Pendientes, SanoDeVeras
  <2> QED BY <2>1, <2>3, <2>4 DEF SanoDeVeras
<1>7. ASSUME NEW h \in Hilos, BorrarFigura(h) PROVE InvServidor'
  <2>1. /\ pc[h] = "eliminar" /\ fs' = eliminar(fs, pedido[h].figura)
        /\ Ir(h, "leerUnidad") /\ UNCHANGED pedido
        /\ entremedio' = \/ entremedio \/ pedido[h].figura = Vacio
                         \/ \E g \in Hilos : pc[g] = "escribir"
    BY <1>7 DEF BorrarFigura, Llamando, Volver
  <2>2. Servidos' /\ \A g \in Hilos : pc'[g] = "escribir" => pc[g] = "escribir"
    BY <2>1, SigueServido DEF Lugares
  <2>3. ASSUME ~entremedio' PROVE Bueno(fs') /\ Pendientes(fs)'
    <3>1. ~entremedio /\ pedido[h].figura # Vacio /\ \A g \in Hilos : pc[g] # "escribir"
      BY <2>1, <2>3
    <3>2. Bueno(fs) /\ pedido[h].figura \in Nombres
      BY <2>1, <3>1, StorageServerValido DEF SanoDeVeras, Servidos
    <3>3. Bueno(fs')
      BY <2>1, <3>2, Eliminado DEF eliminar
    <3> QED BY <2>2, <3>1, <3>3 DEF Pendientes
  <2> QED BY <2>2, <2>3 DEF SanoDeVeras
<1>8. ASSUME NEW h \in Hilos, Listar(h) \/ LeerParaCache(h) \/ LeerEntera(h) PROVE InvServidor'
  <2>1. PICK x \in {"responder", "guardar", "cerrar cache"} :
          /\ Ir(h, x) /\ pc[h] # "libre" /\ UNCHANGED <<fs, pedido, entremedio>>
    BY <1>8 DEF Listar, LeerParaCache, LeerEntera, Llamando, Volver
  <2> QED BY <1>2, <2>1 DEF Lugares
<1>9. ASSUME NEW h \in Hilos,
             Conectar(h) \/ CacheResponde(h) \/ EnviarACache(h) \/ CerrarCache(h) \/ BorrarCache(h)
      PROVE  InvServidor'
  <2>1. PICK x \in {"preguntado", "leer 256", "cerrar cache", "leer", "borrar cache", "responder"} :
          /\ Ir(h, x) /\ pc[h] # "libre" /\ UNCHANGED <<fs, pedido, entremedio>>
    BY <1>9 DEF Conectar, CacheResponde, EnviarACache, CerrarCache, BorrarCache, histVars
  <2> QED BY <1>2, <2>1 DEF Lugares
<1>10. ASSUME NEW h \in Hilos, Responder(h) PROVE InvServidor'
  <2>1. Servidos' /\ \A g \in Hilos : pc'[g] = "escribir" => pc[g] = "escribir" /\ pedido'[g] = pedido[g]
    BY <1>10 DEF Responder, Ir, Servidos, Lugares
  <2> QED BY <1>10, <2>1, SinTocar DEF Responder
<1>11. ASSUME NEW h \in Hilos, NEW p \in Pedidos, Aceptar(h, p) PROVE InvServidor'
  <2>1. Servidos' /\ \A g \in Hilos : pc'[g] = "escribir" => pc[g] = "escribir" /\ pedido'[g] = pedido[g]
    BY <1>11 DEF Aceptar, Ir, Servidos, Lugares
  <2> QED BY <1>11, <2>1, SinTocar DEF Aceptar
<1>12. ASSUME Morir \/ SigintEnHilo \/ CacheVuelve PROVE InvServidor'
  BY <1>1, <1>12 DEF Morir, SigintEnHilo, CacheVuelve, hiloVars, histVars
<1>13. ASSUME CacheCae PROVE InvServidor'
  <2>1. /\ pc' = [h \in Hilos |-> IF pc[h] = "preguntado" THEN "cortado" ELSE pc[h]]
        /\ UNCHANGED <<fs, pedido, entremedio>>
    BY <1>13 DEF CacheCae, histVars
  <2>2. Servidos' /\ \A g \in Hilos : pc'[g] = "escribir" => pc[g] = "escribir"
    BY <2>1 DEF Servidos, Lugares
  <2> QED BY <2>1, <2>2, SinTocar
<1>14. ASSUME UNCHANGED serverVars PROVE InvServidor'
  BY <1>1, <1>14 DEF serverVars, hiloVars, histVars
<1>16. ASSUME NEW h \in Hilos, BorrarFuera(h) PROVE InvServidor'
  BY <1>1, <1>16 DEF BorrarFuera, hiloVars, histVars
<1>15. ASSUME NEW h \in Hilos, Hilo(h) \/ CacheResponde(h) \/ AceptarFalla(h) \/ LeerFalla(h)
       PROVE  InvServidor'
  BY <1>3, <1>4, <1>5, <1>6, <1>7, <1>8, <1>9, <1>10, <1>12, <1>15, <1>16
     DEF Hilo, ConectarFalla, CacheCuelga, LeerNulo, EnviarFalla, ResponderFalla, AceptarFalla,
         LeerFalla
<1> QED
  BY <1>11, <1>12, <1>13, <1>14, <1>15 DEF ServerNext, SigintEnMain, SalirDelCiclo

\* However many threads there are and in whatever order their calls come, as
\* long as no Delete comes between the two calls of a Submit (SSLServer.cc:
\* 362-363) and none of them comes without its figure, the file system they share
\* stays sound, in memory and on disk, and a Submit finds the figure it made.
THEOREM SanoEnServicio == ServerSpec => []SanoDeVeras
<1>1. ServerInit => InvServidor
  BY DiscoInicial DEF ServerInit, InvServidor, Servidos, SanoDeVeras, Pendientes, Lugares
<1>2. InvServidor /\ [ServerNext]_serverVars => InvServidor'
  BY PasoServidor
<1>3. InvServidor => SanoDeVeras
  BY DEF InvServidor
<1> QED BY <1>1, <1>2, <1>3, PTL DEF ServerSpec

\* The directory stays compact, no block is in two files and the marked blocks
\* are those in use, whatever threads do, unless a Delete came within a Submit or
\* one of the two without its figure.
THEOREM ArchivosDeTodosSanos == ServerSpec => []SanoSalvoEntremedio
<1>1. SanoDeVeras => SanoSalvoEntremedio
  BY DEF SanoDeVeras, SanoSalvoEntremedio, Bueno, MemoriaBuena
<1> QED BY <1>1, SanoEnServicio, PTL
-----------------------------------------------------------------------------
(***************************************************************************)
(* Descriptors and contexts.                                               *)
(***************************************************************************)
Clases == {"ninguna", "Socket", "SSLSocket"}

\* Every open descriptor is that of one object.
Tabla ==
  /\ objetos \in [Objetos -> [clase : Clases, idSocket : Descriptores \cup {SinDescriptor}]]
  /\ abiertos = {objetos[o].idSocket : o \in Vivos}
  /\ \A o, q \in Vivos : objetos[o].idSocket = objetos[q].idSocket => o = q

\* The objects that have one are those of main, of the threads with a client
\* and of those with the cache.
Debidos == {Servidor} \cup {Cliente(h) : h \in {g \in Hilos : pc[g] # "libre"}}
                      \cup {DeCache(h) : h \in {g \in Hilos : pc[g] \in ConCache}}

\* No more contexts than requests that came that far.
PorPedir == {h \in Hilos : pc[h] \in {"leyendo", "conectar"}}
Contextos ==
  /\ contextos \in Nat /\ pedidos \in Nat
  /\ IsFiniteSet(SSLVivos) /\ Cardinality(SSLVivos) <= contextos
  /\ IsFiniteSet(PorPedir) /\ contextos + Cardinality(PorPedir) <= pedidos

InvSockets ==
  /\ Servidos
  /\ proceso # "muerto" => Tabla /\ Vivos = Debidos /\ Contextos

LEMMA MenorLibre ==
  ASSUME DescriptoresLibres # {}
  PROVE  Menor \in Descriptores \ abiertos
<1>1. DescriptoresLibres \in SUBSET Nat
  BY DescriptoresValidos DEF DescriptoresLibres
<1>2. \E m \in DescriptoresLibres : \A k \in DescriptoresLibres : m <= k
  BY <1>1, Minimo
<1> QED BY <1>2 DEF Menor, Min, DescriptoresLibres

\* An object takes a descriptor nobody has.
LEMMA Abierto ==
  ASSUME Tabla, NEW o \in Objetos \ Vivos, NEW c \in Clases, BuildSocket(o, c)
  PROVE  /\ Tabla' /\ Vivos' = Vivos \cup {o}
         /\ SSLVivos' \subseteq SSLVivos \cup {o}
         /\ c # "SSLSocket" => SSLVivos' \subseteq SSLVivos
<1>1. Menor \in Descriptores \ abiertos /\ Menor # SinDescriptor
  BY MenorLibre, DescriptoresValidos DEF BuildSocket, SinDescriptor
<1>2. /\ objetos' = [objetos EXCEPT ![o] = [clase |-> c, idSocket |-> Menor]]
      /\ abiertos' = abiertos \cup {Menor}
  BY DEF BuildSocket
<1> HIDE DEF Menor
<1>3. objetos' \in [Objetos -> [clase : Clases, idSocket : Descriptores \cup {SinDescriptor}]]
  BY <1>1, <1>2 DEF Tabla
<1>4. /\ objetos'[o].idSocket = Menor /\ objetos'[o].clase = c
      /\ \A q \in Objetos \ {o} : objetos'[q] = objetos[q]
  BY <1>2 DEF Tabla
<1>5. Vivos' = Vivos \cup {o}
  BY <1>1, <1>4 DEF Vivos
<1>6. \A q \in Vivos : objetos[q].idSocket \in abiertos /\ q # o /\ q \in Objetos
  BY DEF Tabla, Vivos
<1>7. abiertos' = {objetos'[q].idSocket : q \in Vivos'}
  BY <1>2, <1>4, <1>5, <1>6 DEF Tabla
<1>8. ASSUME NEW q \in Vivos', NEW r \in Vivos', objetos'[q].idSocket = objetos'[r].idSocket
      PROVE  q = r
  BY <1>1, <1>4, <1>5, <1>6, <1>8 DEF Tabla
<1> QED BY <1>3, <1>4, <1>5, <1>7, <1>8 DEF Tabla, SSLVivos

\* An object gives its own back.
LEMMA Cerrado ==
  ASSUME Tabla, NEW o \in Vivos, Close(o)
  PROVE  Tabla' /\ Vivos' = Vivos \ {o} /\ SSLVivos' = SSLVivos
<1>1. /\ objetos' = [objetos EXCEPT ![o].idSocket = SinDescriptor]
      /\ abiertos' = abiertos \ {objetos[o].idSocket} /\ o \in Objetos
  BY DEF Close, Vivos
<1>2. objetos' \in [Objetos -> [clase : Clases, idSocket : Descriptores \cup {SinDescriptor}]]
  BY <1>1 DEF Tabla
<1>3. /\ objetos'[o].idSocket = SinDescriptor /\ objetos'[o].clase = objetos[o].clase
      /\ \A q \in Objetos \ {o} : objetos'[q] = objetos[q]
  BY <1>1 DEF Tabla
<1>4. Vivos' = Vivos \ {o}
  BY <1>3 DEF Vivos
<1>5. SSLVivos' = SSLVivos
  BY <1>3 DEF SSLVivos
<1>6. \A q \in Vivos : q \in Objetos
  BY DEF Vivos
<1>7. abiertos' = {objetos'[q].idSocket : q \in Vivos'}
  BY <1>1, <1>3, <1>4, <1>6 DEF Tabla
<1>8. \A q, r \in Vivos' : objetos'[q].idSocket = objetos'[r].idSocket => q = r
  BY <1>3, <1>4, <1>6 DEF Tabla
<1> QED BY <1>2, <1>4, <1>5, <1>7, <1>8 DEF Tabla

\* An object without one goes.
LEMMA Borrado ==
  ASSUME Tabla, NEW o \in Objetos \ Vivos, Borrar(o)
  PROVE  Tabla' /\ Vivos' = Vivos /\ SSLVivos' \subseteq SSLVivos
<1>1. objetos' = [objetos EXCEPT ![o] = NoHay] /\ abiertos' = abiertos
  BY DEF Borrar
<1>2. objetos' \in [Objetos -> [clase : Clases, idSocket : Descriptores \cup {SinDescriptor}]]
  BY <1>1 DEF Tabla, NoHay, Clases
<1>3. objetos'[o] = NoHay /\ \A q \in Objetos \ {o} : objetos'[q] = objetos[q]
  BY <1>1 DEF Tabla
<1>4. Vivos' = Vivos
  BY <1>3 DEF Vivos, NoHay
<1>5. SSLVivos' \subseteq SSLVivos
  BY <1>3 DEF SSLVivos, NoHay
<1>6. \A q \in Vivos : objetos'[q] = objetos[q]
  BY <1>3 DEF Vivos
<1>7. abiertos' = {objetos'[q].idSocket : q \in Vivos'}
  BY <1>1, <1>4, <1>6 DEF Tabla
<1>8. \A q, r \in Vivos' : objetos'[q].idSocket = objetos'[r].idSocket => q = r
  BY <1>4, <1>6 DEF Tabla
<1> QED BY <1>2, <1>4, <1>5, <1>7, <1>8 DEF Tabla
\* Taking away from SSLVivos or PorPedir, or adding one to it.
LEMMA CuentaDe ==
  ASSUME NEW S, IsFiniteSet(S), NEW T, NEW x, T \subseteq S \cup {x}
  PROVE  /\ IsFiniteSet(T) /\ Cardinality(S) \in Nat /\ Cardinality(T) \in Nat
         /\ Cardinality(T) <= Cardinality(S) + 1
         /\ T \subseteq S => Cardinality(T) <= Cardinality(S)
         /\ T \subseteq S /\ x \in S /\ x \notin T => Cardinality(T) + 1 <= Cardinality(S)
<1>1. /\ IsFiniteSet(S \cup {x}) /\ IsFiniteSet(S \ {x}) /\ Cardinality(S) \in Nat
      /\ Cardinality(S \cup {x}) \in Nat /\ Cardinality(S \ {x}) \in Nat
  BY FS_AddElement, FS_RemoveElement, FS_CardinalityType
<1>2. Cardinality(S \cup {x}) <= Cardinality(S) + 1
  BY <1>1, FS_AddElement
<1>3. IsFiniteSet(T) /\ Cardinality(T) \in Nat /\ Cardinality(T) <= Cardinality(S \cup {x})
  BY <1>1, FS_Subset, FS_CardinalityType
<1>4. T \subseteq S => Cardinality(T) <= Cardinality(S)
  BY FS_Subset
<1>5. ASSUME T \subseteq S, x \in S, x \notin T PROVE Cardinality(T) + 1 <= Cardinality(S)
  <2>1. T \subseteq S \ {x} /\ Cardinality(S \ {x}) = Cardinality(S) - 1
    BY <1>5, FS_RemoveElement
  <2>2. Cardinality(T) <= Cardinality(S \ {x})
    BY <1>1, <2>1, FS_Subset
  <2> QED BY <1>1, <1>3, <2>1, <2>2
<1> QED BY <1>1, <1>2, <1>3, <1>4, <1>5

\* A step that moves threads without touching sockets.
LEMMA SinSockets ==
  ASSUME InvSockets, proceso # "muerto", UNCHANGED <<sockVars, pedidos>>, Servidos',
         \A h \in Hilos : /\ pc'[h] = "libre" <=> pc[h] = "libre"
                          /\ pc'[h] \in ConCache <=> pc[h] \in ConCache
                          /\ pc'[h] \in {"leyendo", "conectar"} => pc[h] \in {"leyendo", "conectar"}
  PROVE  InvSockets'
<1>1. Tabla' /\ Vivos' = Vivos /\ SSLVivos' = SSLVivos
  BY DEF InvSockets, Tabla, Vivos, SSLVivos, sockVars
<1>2. Debidos' = Debidos
  BY DEF Debidos
<1>3. Contextos'
  <2>1. PorPedir' \subseteq PorPedir
    BY DEF PorPedir
  <2>2. /\ IsFiniteSet(PorPedir') /\ Cardinality(PorPedir) \in Nat
        /\ Cardinality(PorPedir') \in Nat /\ Cardinality(PorPedir') <= Cardinality(PorPedir)
    BY <2>1, CuentaDe DEF InvSockets, Contextos
  <2> QED BY <1>1, <2>2 DEF InvSockets, Contextos, sockVars
<1> QED BY <1>1, <1>2, <1>3 DEF InvSockets

LEMMA PasoSockets ==
  ASSUME InvSockets, InvServidor', [ServerNext]_serverVars
  PROVE  InvSockets'
<1>0. Servidos' /\ Servidos
  BY DEF InvServidor, InvSockets
<1>00. \A h \in Hilos : /\ {Servidor, Cliente(h), DeCache(h)} \subseteq Objetos
                       /\ Servidor # Cliente(h) /\ Servidor # DeCache(h)
      /\ \A g, r \in Hilos : /\ Cliente(g) # DeCache(r)
                             /\ Cliente(g) = Cliente(r) => g = r
                             /\ DeCache(g) = DeCache(r) => g = r
  BY StorageServerValido DEF Servidor, Cliente, DeCache
<1>1. ASSUME proceso' = "muerto" PROVE InvSockets'
  BY <1>0, <1>1 DEF InvSockets
<1>2. ASSUME UNCHANGED <<sockVars, pc, pedidos>>, proceso # "muerto" PROVE InvSockets'
  BY <1>0, <1>2, SinSockets
<1>3. ASSUME UNCHANGED serverVars PROVE InvSockets'
  <2>1. UNCHANGED <<sockVars, pc, pedidos, proceso>>
    BY <1>3 DEF serverVars, hiloVars
  <2> QED BY <1>1, <1>2, <2>1
<1>4. ASSUME NEW h \in Hilos, NEW x, Ir(h, x), UNCHANGED <<sockVars, pedidos>>,
             proceso # "muerto", pc[h] # "libre", x # "libre",
             x \in ConCache <=> pc[h] \in ConCache,
             x \in {"leyendo", "conectar"} => pc[h] \in {"leyendo", "conectar"}
      PROVE  InvSockets'
  <2>1. pc' = [pc EXCEPT ![h] = x] /\ pc \in [Hilos -> Lugares]
    BY <1>0, <1>4 DEF Ir, Servidos
  <2> QED BY <1>0, <1>4, <2>1, SinSockets
<1>5. ASSUME NEW h \in Hilos, Leer(h), proceso # "muerto" PROVE InvSockets'
  <2>1. pc[h] = "leyendo" /\ pedido[h] \in Pedidos /\ UNCHANGED <<sockVars, pedidos>>
    BY <1>0, <1>5 DEF Leer, Servidos
  <2>2. PICK x \in {"leerUnidad", "conectar", "crearInodo", "eliminar", "responder"} : Ir(h, x)
    BY <1>5, <2>1, StorageServerValido DEF Leer, Read
  <2> QED BY <1>4, <1>5, <2>1, <2>2 DEF ConCache
<1>6. ASSUME NEW h \in Hilos, proceso # "muerto",
             \/ Crear(h) \/ EscribirFigura(h) \/ BorrarFigura(h) \/ Listar(h)
             \/ LeerParaCache(h) \/ LeerEntera(h)
      PROVE  InvSockets'
  <2>1. UNCHANGED <<sockVars, pedidos>>
    BY <1>6 DEF Crear, EscribirFigura, BorrarFigura, Listar, LeerParaCache, LeerEntera, Volver
  <2>2. PICK x \in {"escribir", "leerUnidad", "responder", "guardar", "cerrar cache"} :
          /\ Ir(h, x)
          /\ pc[h] \in Llamadas
          /\ x \in ConCache <=> pc[h] \in ConCache
    BY <1>6 DEF Crear, EscribirFigura, BorrarFigura, Listar, LeerParaCache, LeerEntera, Volver,
                Llamando, ConCache, Llamadas
  <2> QED BY <1>4, <1>6, <2>1, <2>2 DEF Llamadas
<1>7. ASSUME NEW h \in Hilos, proceso # "muerto", CacheResponde(h) \/ EnviarACache(h)
      PROVE  InvSockets'
  <2>1. /\ UNCHANGED <<sockVars, pedidos>> /\ pc[h] \in {"preguntado", "guardar"}
        /\ \E x \in {"leer 256", "cerrar cache", "leer"} : Ir(h, x)
    BY <1>7 DEF CacheResponde, EnviarACache
  <2> QED BY <1>4, <1>7, <2>1 DEF ConCache
<1>8. ASSUME CacheCae, proceso # "muerto" PROVE InvSockets'
  <2>1. /\ UNCHANGED <<sockVars, pedidos>>
        /\ pc' = [h \in Hilos |-> IF pc[h] = "preguntado" THEN "cortado" ELSE pc[h]]
    BY <1>8 DEF CacheCae
  <2> QED BY <1>0, <1>8, <2>1, SinSockets DEF ConCache
<1>9. ASSUME NEW h \in Hilos, NEW p \in Pedidos, Aceptar(h, p), proceso # "muerto"
      PROVE  InvSockets'
  <2>1. /\ pc[h] = "libre" /\ BuildSocket(Cliente(h), "Socket") /\ contextos' = contextos
        /\ pedidos' = pedidos + 1 /\ pc' = [pc EXCEPT ![h] = "leyendo"] /\ proceso' = proceso
    BY <1>9 DEF Aceptar, AcceptConnection, NuevoSocket, Ir
  <2>2. Tabla /\ Vivos = Debidos /\ Contextos /\ pc \in [Hilos -> Lugares]
    BY <1>0, <1>9 DEF InvSockets, Servidos
  <2>3. Cliente(h) \in Objetos \ Vivos
    BY <1>00, <2>1, <2>2 DEF Debidos
  <2>4. Tabla' /\ Vivos' = Vivos \cup {Cliente(h)} /\ SSLVivos' \subseteq SSLVivos
    BY <2>1, <2>2, <2>3, Abierto DEF Clases
  <2>5. Debidos' = Debidos \cup {Cliente(h)}
    BY <2>1, <2>2 DEF Debidos, ConCache
  <2>6. Contextos'
    <3>1. PorPedir' \subseteq PorPedir \cup {h}
      BY <2>1, <2>2 DEF PorPedir
    <3>2. /\ IsFiniteSet(PorPedir') /\ Cardinality(PorPedir) \in Nat
          /\ Cardinality(PorPedir') \in Nat /\ Cardinality(PorPedir') <= Cardinality(PorPedir) + 1
      BY <2>2, <3>1, CuentaDe DEF Contextos
    <3>3. /\ IsFiniteSet(SSLVivos') /\ Cardinality(SSLVivos) \in Nat
          /\ Cardinality(SSLVivos') \in Nat /\ Cardinality(SSLVivos') <= Cardinality(SSLVivos)
      BY <2>2, <2>4, CuentaDe DEF Contextos
    <3> QED BY <2>1, <2>2, <3>2, <3>3 DEF Contextos
  <2> QED BY <1>0, <2>2, <2>4, <2>5, <2>6 DEF InvSockets
<1>10. ASSUME NEW h \in Hilos, Conectar(h), proceso # "muerto" PROVE InvSockets'
  <2>1. /\ pc[h] = "conectar" /\ BuildSocket(DeCache(h), "SSLSocket") /\ contextos' = contextos + 1
        /\ pc' = [pc EXCEPT ![h] = "preguntado"] /\ UNCHANGED <<proceso, pedidos>>
    BY <1>10 DEF Conectar, NuevoSSLSocket, InitContext, Ir
  <2>2. Tabla /\ Vivos = Debidos /\ Contextos /\ pc \in [Hilos -> Lugares]
    BY <1>0, <1>10 DEF InvSockets, Servidos
  <2>3. DeCache(h) \in Objetos \ Vivos
    BY <1>00, <2>1, <2>2 DEF Debidos, ConCache
  <2>4. /\ Tabla' /\ Vivos' = Vivos \cup {DeCache(h)}
        /\ SSLVivos' \subseteq SSLVivos \cup {DeCache(h)}
    BY <2>1, <2>2, <2>3, Abierto DEF Clases
  <2>5. Debidos' = Debidos \cup {DeCache(h)}
    BY <2>1, <2>2 DEF Debidos, ConCache
  <2>6. Contextos'
    <3>1. PorPedir' \subseteq PorPedir /\ h \in PorPedir /\ h \notin PorPedir'
      BY <2>1, <2>2 DEF PorPedir
    <3>2. /\ IsFiniteSet(PorPedir') /\ Cardinality(PorPedir) \in Nat
          /\ Cardinality(PorPedir') \in Nat /\ Cardinality(PorPedir') + 1 <= Cardinality(PorPedir)
      BY <2>2, <3>1, CuentaDe DEF Contextos
    <3>3. /\ IsFiniteSet(SSLVivos') /\ Cardinality(SSLVivos) \in Nat
          /\ Cardinality(SSLVivos') \in Nat /\ Cardinality(SSLVivos') <= Cardinality(SSLVivos) + 1
      BY <2>2, <2>4, CuentaDe DEF Contextos
    <3> QED BY <2>1, <2>2, <3>2, <3>3 DEF Contextos
  <2> QED BY <1>0, <2>2, <2>4, <2>5, <2>6 DEF InvSockets
<1>11. ASSUME NEW h \in Hilos, CerrarCache(h), proceso # "muerto" PROVE InvSockets'
  <2>1. /\ pc[h] = "cerrar cache" /\ Close(DeCache(h)) /\ UNCHANGED <<contextos, proceso, pedidos>>
        /\ pc' = [pc EXCEPT ![h] = "borrar cache"]
    BY <1>11 DEF CerrarCache, CloseSocket, Ir
  <2>2. Tabla /\ Vivos = Debidos /\ Contextos /\ pc \in [Hilos -> Lugares]
    BY <1>0, <1>11 DEF InvSockets, Servidos
  <2>3. DeCache(h) \in Vivos
    BY <2>1, <2>2 DEF Debidos, ConCache
  <2>4. Tabla' /\ Vivos' = Vivos \ {DeCache(h)} /\ SSLVivos' = SSLVivos
    BY <2>1, <2>2, <2>3, Cerrado
  <2>5. Debidos' = Debidos \ {DeCache(h)}
    <3>1. pc'[h] = "borrar cache" /\ \A g \in Hilos \ {h} : pc'[g] = pc[g]
      BY <2>1, <2>2
    <3>2. /\ {g \in Hilos : pc'[g] # "libre"} = {g \in Hilos : pc[g] # "libre"}
          /\ {g \in Hilos : pc'[g] \in ConCache} = {g \in Hilos : pc[g] \in ConCache} \ {h}
      BY <2>1, <3>1 DEF ConCache
    <3> QED BY <1>00, <3>2 DEF Debidos
  <2>6. PorPedir' = PorPedir
    BY <2>1, <2>2 DEF PorPedir
  <2> QED BY <1>0, <2>1, <2>2, <2>4, <2>5, <2>6 DEF InvSockets, Contextos
<1>12. ASSUME NEW h \in Hilos, BorrarCache(h), proceso # "muerto" PROVE InvSockets'
  <2>1. /\ pc[h] = "borrar cache" /\ Borrar(DeCache(h)) /\ UNCHANGED <<contextos, proceso, pedidos>>
        /\ pc' = [pc EXCEPT ![h] = "responder"]
    BY <1>12 DEF BorrarCache, Borrar, Ir
  <2>2. Tabla /\ Vivos = Debidos /\ Contextos /\ pc \in [Hilos -> Lugares]
    BY <1>0, <1>12 DEF InvSockets, Servidos
  <2>3. DeCache(h) \in Objetos \ Vivos
    BY <1>00, <2>1, <2>2 DEF Debidos, ConCache
  <2>4. Tabla' /\ Vivos' = Vivos /\ SSLVivos' \subseteq SSLVivos
    BY <2>1, <2>2, <2>3, Borrado
  <2>5. Debidos' = Debidos /\ PorPedir' = PorPedir
    BY <2>1, <2>2 DEF Debidos, ConCache, PorPedir
  <2>6. /\ IsFiniteSet(SSLVivos') /\ Cardinality(SSLVivos) \in Nat
        /\ Cardinality(SSLVivos') \in Nat /\ Cardinality(SSLVivos') <= Cardinality(SSLVivos)
    BY <2>2, <2>4, CuentaDe DEF Contextos
  <2>7. Contextos'
    <3>1. Contextos /\ UNCHANGED <<contextos, pedidos>> /\ PorPedir' = PorPedir
      BY <2>1, <2>2, <2>5
    <3>2. IsFiniteSet(PorPedir') /\ contextos' + Cardinality(PorPedir') <= pedidos'
      BY <3>1 DEF Contextos
    <3>3. Cardinality(SSLVivos') <= contextos'
      BY <2>6, <3>1 DEF Contextos
    <3> QED BY <2>6, <3>1, <3>2, <3>3 DEF Contextos
  <2> QED BY <1>0, <2>2, <2>4, <2>5, <2>7 DEF InvSockets
<1>13. ASSUME NEW h \in Hilos, Responder(h), proceso # "muerto" PROVE InvSockets'
  <2>1. /\ pc[h] = "responder" /\ Close(Cliente(h)) /\ UNCHANGED <<contextos, proceso, pedidos>>
        /\ pc' = [pc EXCEPT ![h] = "libre"]
    BY <1>13 DEF Responder, CloseSocket, Ir
  <2>2. Tabla /\ Vivos = Debidos /\ Contextos /\ pc \in [Hilos -> Lugares]
    BY <1>0, <1>13 DEF InvSockets, Servidos
  <2>3. Cliente(h) \in Vivos
    BY <2>1, <2>2 DEF Debidos
  <2>4. Tabla' /\ Vivos' = Vivos \ {Cliente(h)} /\ SSLVivos' = SSLVivos
    BY <2>1, <2>2, <2>3, Cerrado
  <2>5. Debidos' = Debidos \ {Cliente(h)}
    <3>1. pc'[h] = "libre" /\ \A g \in Hilos \ {h} : pc'[g] = pc[g]
      BY <2>1, <2>2
    <3>2. /\ {g \in Hilos : pc'[g] # "libre"} = {g \in Hilos : pc[g] # "libre"} \ {h}
          /\ {g \in Hilos : pc'[g] \in ConCache} = {g \in Hilos : pc[g] \in ConCache}
      BY <2>1, <3>1 DEF ConCache
    <3> QED BY <1>00, <3>2 DEF Debidos
  <2>6. PorPedir' = PorPedir
    BY <2>1, <2>2 DEF PorPedir
  <2> QED BY <1>0, <2>1, <2>2, <2>4, <2>5, <2>6 DEF InvSockets, Contextos
<1>14. ASSUME NEW h \in Hilos, Entrar(h) \/ BorrarFuera(h), proceso # "muerto" PROVE InvSockets'
  BY <1>2, <1>14 DEF Entrar, BorrarFuera, hiloVars
<1>15. ASSUME Morir PROVE InvSockets'
  BY <1>1, <1>15 DEF Morir
<1>16. ASSUME SigintEnHilo \/ CacheVuelve, proceso # "muerto" PROVE InvSockets'
  BY <1>2, <1>16 DEF SigintEnHilo, CacheVuelve, hiloVars
<1>17. ASSUME NEW h \in Hilos, proceso # "muerto",
              Hilo(h) \/ CacheResponde(h) \/ AceptarFalla(h) \/ LeerFalla(h)
       PROVE  InvSockets'
  BY <1>5, <1>6, <1>7, <1>10, <1>11, <1>12, <1>13, <1>14, <1>15, <1>17
     DEF Hilo, ConectarFalla, CacheCuelga, LeerNulo, EnviarFalla, ResponderFalla, AceptarFalla,
         LeerFalla
<1> QED
  BY <1>3, <1>8, <1>9, <1>15, <1>16, <1>17 DEF ServerNext, SigintEnMain, SalirDelCiclo

LEMMA SocketsIniciales ==
  ASSUME ServerInit
  PROVE  InvSockets
<1>1. InvServidor
  BY DiscoInicial DEF ServerInit, InvServidor, Servidos, SanoDeVeras, Pendientes, Lugares
<1> DEFINE m == Min(Descriptores)
<1>2. m \in Descriptores /\ m # SinDescriptor
  <2>1. \E k \in Descriptores : \A j \in Descriptores : k <= j
    BY DescriptoresValidos, Minimo
  <2>2. m \in Descriptores
    BY <2>1 DEF Min
  <2> QED BY <2>2, DescriptoresValidos DEF SinDescriptor
<1>3. /\ Servidor \in Objetos /\ abiertos = {m} /\ contextos = 0 /\ pedidos = 0
      /\ objetos = [q \in Objetos |-> IF q = Servidor THEN [clase |-> "Socket", idSocket |-> m]
                                      ELSE NoHay]
      /\ pc = [h \in Hilos |-> "libre"]
  BY StorageServerValido DEF ServerInit, MarkPassive
<1> HIDE DEF m
<1>4. Vivos = {Servidor} /\ objetos[Servidor].idSocket = m
  BY <1>2, <1>3 DEF Vivos, NoHay
<1>5. SSLVivos = {} /\ PorPedir = {}
  BY <1>3 DEF SSLVivos, NoHay, PorPedir
<1>6. objetos \in [Objetos -> [clase : Clases, idSocket : Descriptores \cup {SinDescriptor}]]
  BY <1>2, <1>3 DEF NoHay, Clases
<1>7. Tabla
  BY <1>3, <1>4, <1>6 DEF Tabla
<1>8. Debidos = {Servidor}
  BY <1>3 DEF Debidos, ConCache
<1>9. Contextos
  BY <1>3, <1>5, FS_EmptySet DEF Contextos
<1> QED BY <1>1, <1>4, <1>7, <1>8, <1>9 DEF InvServidor, InvSockets

\* Whatever the limit of descriptors and the threads, no descriptor is lost,
\* closed twice or used by two: those open are those of main, of each thread
\* with a client and of each exchange with the cache, and each Request leaves
\* one context at most.
THEOREM DescriptoresDeTodos == ServerSpec => []DescriptoresJustos
<1>1. ServerInit => InvServidor
  BY DiscoInicial DEF ServerInit, InvServidor, Servidos, SanoDeVeras, Pendientes, Lugares
<1>2. InvServidor /\ [ServerNext]_serverVars => InvServidor'
  BY PasoServidor
<1>3. ServerInit => InvSockets
  BY SocketsIniciales
<1>4. InvSockets /\ InvServidor' /\ [ServerNext]_serverVars => InvSockets'
  BY PasoSockets
<1>5. InvSockets => DescriptoresJustos
  <2>1. ASSUME Contextos PROVE contextos \in Cardinality(SSLVivos) .. pedidos
    <3>1. Cardinality(SSLVivos) \in Nat /\ Cardinality(PorPedir) \in Nat
      BY <2>1, FS_CardinalityType DEF Contextos
    <3> QED BY <2>1, <3>1 DEF Contextos
  <2> QED BY <2>1 DEF InvSockets, DescriptoresJustos, Tabla, Debidos
<1> QED BY <1>1, <1>2, <1>3, <1>4, <1>5, PTL DEF ServerSpec
-----------------------------------------------------------------------------
(***************************************************************************)
(* What a Request answers.                                                 *)
(***************************************************************************)
\* What the cache may have been given of the texts of f.
Comienzos(f) == {ParaCache(t) : t \in historia[f] \ {Falta}}

InvTextos ==
  /\ Servidos
  /\ DOMAIN fsData = Hilos /\ DOMAIN vistos = Hilos
  /\ DOMAIN cache = Figuras /\ DOMAIN historia = Figuras
  /\ \A f \in Figuras : Texto(fs, f) \in historia[f]
  /\ \A f \in Figuras : cache[f] = Falta \/ cache[f] \in Comienzos(f)
  /\ \A h \in Hilos : pc[h] # "libre" => Texto(fs, pedido[h].figura) \in vistos[h]
  /\ \A h \in Hilos : pc[h] = "guardar" => fsData[h] \in Comienzos(pedido[h].figura)

LEMMA TextosIniciales ==
  ASSUME ServerInit
  PROVE  InvTextos
<1>1. Servidos
  BY DEF ServerInit, Servidos, Lugares
<1>2. /\ pc = [h \in Hilos |-> "libre"] /\ fsData = [h \in Hilos |-> Falta]
      /\ vistos = [h \in Hilos |-> {}] /\ cache \in Caches
      /\ historia = [f \in Figuras |->
                       {Texto(fs, f)} \cup {a.texto : a \in {x \in Anteriores : x.figura = f}}]
  BY DEF ServerInit
<1>3. DOMAIN cache = Figuras
  BY <1>2 DEF Caches, SinTextos
<1>4. ASSUME NEW f \in Figuras PROVE cache[f] = Falta \/ cache[f] \in Comienzos(f)
  <2>1. CASE cache = SinTextos
    BY <2>1 DEF SinTextos
  <2>2. ASSUME NEW a \in Anteriores, cache = [SinTextos EXCEPT ![a.figura] = ParaCache(a.texto)]
        PROVE  cache[f] = Falta \/ cache[f] \in Comienzos(f)
    <3>1. CASE f # a.figura
      BY <2>2, <3>1 DEF SinTextos
    <3>2. CASE f = a.figura
      <4>1. cache[f] = ParaCache(a.texto)
        BY <2>2, <3>2 DEF SinTextos
      <4>2. a.texto \in historia[f] \ {Falta}
        BY <1>2, <2>2, <3>2, StorageServerValido
      <4> QED BY <4>1, <4>2 DEF Comienzos
    <3> QED BY <3>1, <3>2
  <2> QED BY <1>2, <2>1, <2>2 DEF Caches
<1> QED BY <1>1, <1>2, <1>3, <1>4 DEF InvTextos

\* A step in which neither files nor cache change: only a thread that comes to
\* an answer for the cache, or has a new client, is to be looked at.
LEMMA SinTextosNuevos ==
  ASSUME InvTextos, Servidos', UNCHANGED <<fs, cache, historia>>,
         DOMAIN fsData' = Hilos, DOMAIN vistos' = Hilos,
         \A h \in Hilos :
           /\ pc'[h] # "libre" =>
                \/ pc[h] # "libre" /\ vistos'[h] = vistos[h] /\ pedido'[h] = pedido[h]
                \/ Texto(fs, pedido'[h].figura) \in vistos'[h]
           /\ pc'[h] = "guardar" =>
                pc[h] = "guardar" /\ fsData'[h] = fsData[h] /\ pedido'[h] = pedido[h]
  PROVE  InvTextos'
<1>1. \A h \in Hilos : pc'[h] # "libre" => Texto(fs', pedido'[h].figura) \in vistos'[h]
  BY DEF InvTextos
<1>2. \A f \in Figuras : /\ Texto(fs', f) \in historia'[f]
                         /\ cache'[f] = Falta \/ cache'[f] \in Comienzos(f)'
  BY DEF InvTextos, Comienzos
<1>3. \A h \in Hilos : pc'[h] = "guardar" => fsData'[h] \in Comienzos(pedido[h].figura)'
  BY DEF InvTextos, Comienzos
<1> QED BY <1>1, <1>2, <1>3 DEF InvTextos
\* A call that returns: whoever is served sees the text it left.
LEMMA VueltaConTextos ==
  ASSUME InvTextos, Servidos', NEW h \in Hilos, pc[h] # "libre", NEW s,
         NEW x \in Lugares \ {"libre"}, Volver(h, s, x), DOMAIN fsData' = Hilos,
         \A g \in Hilos \ {h} : fsData'[g] = fsData[g],
         x = "guardar" => fsData'[h] \in Comienzos(pedido[h].figura)
  PROVE  InvTextos'
<1>1. /\ fs' = s /\ pc' = [pc EXCEPT ![h] = x] /\ UNCHANGED <<pedido, cache>>
      /\ vistos' = [g \in Hilos |-> IF pc[g] = "libre" THEN {}
                                    ELSE vistos[g] \cup {Texto(s, pedido[g].figura)}]
      /\ historia' = [f \in Figuras |-> historia[f] \cup {Texto(s, f)}]
  BY DEF Volver, Ir, cacheVars
<1>2. pc \in [Hilos -> Lugares]
  BY DEF InvTextos, Servidos
<1>3. \A f \in Figuras : Comienzos(f) \subseteq Comienzos(f)'
  BY <1>1 DEF Comienzos
<1>4. \A f \in Figuras : Texto(fs', f) \in historia'[f]
  BY <1>1
<1>5. \A f \in Figuras : cache'[f] = Falta \/ cache'[f] \in Comienzos(f)'
  BY <1>1, <1>3 DEF InvTextos
<1>6. \A g \in Hilos : pc'[g] # "libre" => Texto(fs', pedido'[g].figura) \in vistos'[g]
  BY <1>1, <1>2
<1>7. ASSUME NEW g \in Hilos, pc'[g] = "guardar"
      PROVE  (fsData[g] \in Comienzos(pedido[g].figura))'
  <2>1. pc[g] # "libre"
    BY <1>1, <1>2, <1>7
  <2>2. pedido[g].figura \in Figuras /\ pedido'[g] = pedido[g]
    BY <1>1, <2>1 DEF InvTextos, Servidos, Figuras
  <2>3. fsData'[g] \in Comienzos(pedido[g].figura)
    BY <1>1, <1>2, <1>7 DEF InvTextos
  <2> QED BY <1>1, <2>2, <2>3 DEF Comienzos
<1> QED BY <1>1, <1>4, <1>5, <1>6, <1>7 DEF InvTextos

LEMMA PasoTextos ==
  ASSUME InvTextos, InvServidor', [ServerNext]_serverVars
  PROVE  InvTextos'
<1>0. /\ Servidos' /\ Servidos /\ DOMAIN fsData = Hilos /\ DOMAIN vistos = Hilos
      /\ \A h \in Hilos : pc[h] # "libre" => pedido[h].figura \in Figuras
  BY DEF InvServidor, InvTextos, Servidos, Figuras
<1>1. ASSUME UNCHANGED <<fs, cache, historia, vistos, fsData, pc, pedido>> PROVE InvTextos'
  BY <1>0, <1>1, SinTextosNuevos
<1>2. ASSUME NEW h \in Hilos, pc[h] # "libre", NEW x \in Lugares \ {"guardar"}, Ir(h, x),
             UNCHANGED <<fs, cache, historia, vistos, pedido>>,
             DOMAIN fsData' = Hilos, \A g \in Hilos \ {h} : fsData'[g] = fsData[g]
      PROVE  InvTextos'
  <2>1. pc' = [pc EXCEPT ![h] = x] /\ pc \in [Hilos -> Lugares]
    BY <1>0, <1>2 DEF Ir, Servidos
  <2> QED BY <1>0, <1>2, <2>1, SinTextosNuevos
<1>3. ASSUME NEW h \in Hilos, Leer(h) PROVE InvTextos'
  <2>1. /\ pc[h] = "leyendo" /\ pedido[h] \in Pedidos
        /\ UNCHANGED <<fs, cache, historia, vistos, pedido, fsData>>
    BY <1>0, <1>3 DEF Leer, Servidos, cacheVars, histVars
  <2>2. PICK x \in {"leerUnidad", "conectar", "crearInodo", "eliminar", "responder"} : Ir(h, x)
    BY <1>3, <2>1, StorageServerValido DEF Leer, Read
  <2> QED BY <1>0, <1>2, <2>1, <2>2 DEF Lugares
<1>4. ASSUME NEW h \in Hilos, Entrar(h) PROVE InvTextos'
  BY <1>1, <1>4 DEF Entrar, cacheVars, histVars
<1>5. ASSUME NEW h \in Hilos,
             Crear(h) \/ EscribirFigura(h) \/ BorrarFigura(h) \/ Listar(h)
      PROVE  InvTextos'
  <2>1. fsData' = fsData /\ pc[h] # "libre"
    BY <1>5 DEF Crear, EscribirFigura, BorrarFigura, Listar, Llamando
  <2>2. ASSUME NEW s, NEW x \in {"escribir", "leerUnidad", "responder"}, Volver(h, s, x)
        PROVE  InvTextos'
    BY <1>0, <2>1, <2>2, VueltaConTextos DEF Lugares
  <2>3. CASE Crear(h)
    BY <2>2, <2>3 DEF Crear
  <2>4. CASE EscribirFigura(h)
    BY <2>2, <2>4 DEF EscribirFigura
  <2>5. CASE BorrarFigura(h)
    BY <2>2, <2>5 DEF BorrarFigura
  <2>6. CASE Listar(h)
    BY <2>2, <2>6 DEF Listar
  <2> QED BY <1>5, <2>3, <2>4, <2>5, <2>6
<1>6. ASSUME NEW h \in Hilos, LeerParaCache(h) PROVE InvTextos'
  <2> DEFINE t == Texto(fs, pedido[h].figura)
  <2>1. /\ pc[h] # "libre" /\ t # Falta /\ fsData' = [fsData EXCEPT ![h] = ParaCache(t)]
        /\ Volver(h, fs, "guardar")
    BY <1>6 DEF LeerParaCache, Llamando, Decir
  <2>2. t \in historia[pedido[h].figura]
    BY <1>0, <2>1 DEF InvTextos
  <2> HIDE DEF t
  <2>3. fsData'[h] \in Comienzos(pedido[h].figura)
    BY <1>0, <2>1, <2>2 DEF Comienzos
  <2>4. DOMAIN fsData' = Hilos /\ \A g \in Hilos \ {h} : fsData'[g] = fsData[g]
    BY <1>0, <2>1
  <2> QED BY <1>0, <2>1, <2>3, <2>4, VueltaConTextos DEF Lugares
<1>7. ASSUME NEW h \in Hilos, LeerEntera(h) PROVE InvTextos'
  <2>1. /\ pc[h] # "libre" /\ Volver(h, fs, "cerrar cache")
        /\ DOMAIN fsData' = Hilos /\ \A g \in Hilos \ {h} : fsData'[g] = fsData[g]
    BY <1>0, <1>7 DEF LeerEntera, Llamando, Decir
  <2> QED BY <1>0, <2>1, VueltaConTextos DEF Lugares
<1>8. ASSUME NEW h \in Hilos,
             Conectar(h) \/ CacheResponde(h) \/ CerrarCache(h) \/ BorrarCache(h)
      PROVE  InvTextos'
  <2>1. /\ pc[h] # "libre" /\ UNCHANGED <<fs, cache, historia, vistos, pedido>>
        /\ \E x \in {"preguntado", "leer 256", "cerrar cache", "borrar cache", "responder"} : Ir(h, x)
    BY <1>8 DEF Conectar, CacheResponde, CerrarCache, BorrarCache, cacheVars, histVars
  <2>2. DOMAIN fsData' = Hilos /\ \A g \in Hilos \ {h} : fsData'[g] = fsData[g]
    BY <1>0, <1>8 DEF Conectar, CacheResponde, CerrarCache, BorrarCache, Decir
  <2> QED BY <1>2, <2>1, <2>2 DEF Lugares
<1>9. ASSUME NEW h \in Hilos, EnviarACache(h) PROVE InvTextos'
  <2>1. /\ pc[h] = "guardar" /\ pc' = [pc EXCEPT ![h] = "leer"]
        /\ UNCHANGED <<fs, historia, vistos, pedido, fsData>>
        /\ cache' = [cache EXCEPT ![pedido[h].figura] = IF cacheViva THEN fsData[h] ELSE @]
    BY <1>9 DEF EnviarACache, Ir, histVars
  <2>2. fsData[h] \in Comienzos(pedido[h].figura) /\ DOMAIN cache = Figuras
    BY <2>1 DEF InvTextos
  <2>3. ASSUME NEW f \in Figuras PROVE cache'[f] = Falta \/ cache'[f] \in Comienzos(f)
    BY <2>1, <2>2 DEF InvTextos
  <2>4. \A f : Comienzos(f)' = Comienzos(f)
    BY <2>1 DEF Comienzos
  <2>5. \A g \in Hilos : /\ pc'[g] # "libre" => pc[g] # "libre"
                         /\ pc'[g] = "guardar" => pc[g] = "guardar"
    BY <1>0, <2>1 DEF Servidos
  <2> QED BY <1>0, <2>1, <2>3, <2>4, <2>5 DEF InvTextos
<1>10. ASSUME NEW h \in Hilos, Responder(h) PROVE InvTextos'
  <2>1. /\ pc' = [pc EXCEPT ![h] = "libre"] /\ fsData' = [fsData EXCEPT ![h] = Falta]
        /\ pedido' = [pedido EXCEPT ![h] = Ninguno] /\ vistos' = [vistos EXCEPT ![h] = {}]
        /\ UNCHANGED <<fs, cache, historia>>
    BY <1>10 DEF Responder, Ir, Decir, cacheVars
  <2>2. pc'[h] = "libre" /\ DOMAIN fsData' = Hilos /\ DOMAIN vistos' = Hilos
    BY <1>0, <2>1 DEF Servidos
  <2>3. \A g \in Hilos \ {h} : /\ pc'[g] = pc[g] /\ fsData'[g] = fsData[g]
                               /\ pedido'[g] = pedido[g] /\ vistos'[g] = vistos[g]
    BY <1>0, <2>1 DEF Servidos
  <2> QED BY <1>0, <2>1, <2>2, <2>3, SinTextosNuevos
<1>11. ASSUME NEW h \in Hilos, NEW p \in Pedidos, Aceptar(h, p) PROVE InvTextos'
  <2>1. /\ pc' = [pc EXCEPT ![h] = "leyendo"] /\ pedido' = [pedido EXCEPT ![h] = p]
        /\ vistos' = [vistos EXCEPT ![h] = {Texto(fs, p.figura)}]
        /\ UNCHANGED <<fs, cache, historia, fsData>>
    BY <1>11 DEF Aceptar, Ir, cacheVars
  <2>2. /\ pc'[h] = "leyendo" /\ pedido'[h] = p /\ vistos'[h] = {Texto(fs, p.figura)}
        /\ DOMAIN vistos' = Hilos
    BY <1>0, <2>1 DEF Servidos
  <2>3. \A g \in Hilos \ {h} : /\ pc'[g] = pc[g] /\ pedido'[g] = pedido[g]
                               /\ vistos'[g] = vistos[g]
    BY <1>0, <2>1 DEF Servidos
  <2> QED BY <1>0, <2>1, <2>2, <2>3, SinTextosNuevos
<1>12. ASSUME Morir \/ SigintEnHilo \/ \E h \in Hilos : BorrarFuera(h) PROVE InvTextos'
  BY <1>1, <1>12 DEF Morir, SigintEnHilo, BorrarFuera, hiloVars, cacheVars, histVars
<1>13. ASSUME CacheVuelve PROVE InvTextos'
  BY <1>1, <1>13 DEF CacheVuelve, hiloVars, histVars
<1>14. ASSUME CacheCae PROVE InvTextos'
  <2>1. /\ pc' = [h \in Hilos |-> IF pc[h] = "preguntado" THEN "cortado" ELSE pc[h]]
        /\ cache' = [f \in Figuras |-> Falta]
        /\ UNCHANGED <<fs, historia, vistos, fsData, pedido>>
    BY <1>14 DEF CacheCae, SinTextos, histVars
  <2>2. \A f : Comienzos(f)' = Comienzos(f)
    BY <2>1 DEF Comienzos
  <2> QED BY <1>0, <2>1, <2>2 DEF InvTextos
<1>15. ASSUME UNCHANGED serverVars PROVE InvTextos'
  BY <1>1, <1>15 DEF serverVars, hiloVars, cacheVars, histVars
<1>16. ASSUME NEW h \in Hilos, Hilo(h) \/ CacheResponde(h) \/ AceptarFalla(h) \/ LeerFalla(h)
       PROVE  InvTextos'
  BY <1>3, <1>4, <1>5, <1>6, <1>7, <1>8, <1>9, <1>10, <1>12, <1>16
     DEF Hilo, ConectarFalla, CacheCuelga, LeerNulo, EnviarFalla, ResponderFalla, AceptarFalla,
         LeerFalla
<1> QED
  BY <1>11, <1>12, <1>13, <1>14, <1>15, <1>16 DEF ServerNext, SigintEnMain, SalirDelCiclo

\* The step that settles what a Request answers, however long the cache has
\* had its text and whatever other threads did since (SSLServer.cc:343-352).
THEOREM RespuestasFechadas == ServerSpec => RespuestaFechada
<1> DEFINE Fechada(h) ==
      pc[h] # "cerrar cache" /\ pc'[h] = "cerrar cache" =>
         \/ fsData'[h] \in vistos[h]
         \/ /\ pc[h] = "preguntado"
            /\ fsData'[h] \in {ParaCache(t) : t \in historia[pedido[h].figura] \ {Falta}}
<1>1. ServerInit => InvServidor
  BY DiscoInicial DEF ServerInit, InvServidor, Servidos, SanoDeVeras, Pendientes, Lugares
<1>2. InvServidor /\ [ServerNext]_serverVars => InvServidor'
  BY PasoServidor
<1>3. ServerInit => InvTextos
  BY TextosIniciales
<1>4. InvTextos /\ InvServidor' /\ [ServerNext]_serverVars => InvTextos'
  BY PasoTextos
<1>5. InvTextos /\ [ServerNext]_serverVars => [\A h \in Hilos : Fechada(h)]_serverVars
  <2> SUFFICES ASSUME InvTextos, ServerNext, NEW h \in Hilos,
                      pc[h] # "cerrar cache", pc'[h] = "cerrar cache"
               PROVE  Fechada(h)
    OBVIOUS
  <2> USE DEF Fechada
  <2>1. pc \in [Hilos -> Lugares] /\ DOMAIN fsData = Hilos
    BY DEF InvTextos, Servidos
  <2>2. ASSUME NEW g \in Hilos, NEW x, Ir(g, x) PROVE g = h /\ x = "cerrar cache"
    BY <2>1, <2>2 DEF Ir
  <2>3. CASE LeerEntera(h)
    BY <2>1, <2>3 DEF LeerEntera, Llamando, Decir, InvTextos
  <2>4. CASE CacheResponde(h)
    <3> DEFINE f == pedido[h].figura
    <3>1. pc[h] = "preguntado"
      BY <2>4 DEF CacheResponde
    <3>2. f \in Figuras
      BY <3>1 DEF InvTextos, Servidos, Figuras
    <3>3. CASE cache[f] = Falta
      <4>1. Contestacion(f)[1] = "MISS"
        BY <3>3 DEF Contestacion
      <4>2. \E x \in {"leer 256"} : Ir(h, x)
        BY <2>4, <4>1 DEF CacheResponde
      <4> QED BY <2>2, <4>2
    <3>4. CASE cache[f] # Falta
      <4>1. Contestacion(f) = <<"HIT", cache[f]>>
        BY <3>4 DEF Contestacion
      <4>2. Contestacion(f)[1] = "HIT" /\ Contestacion(f)[2] = cache[f]
        <5>1. ASSUME NEW x PROVE <<"HIT", x>>[1] = "HIT" /\ <<"HIT", x>>[2] = x
          OBVIOUS
        <5> HIDE DEF f
        <5> QED BY <4>1, <5>1
      <4>a. Contestacion(f)[1] # "MISS"
        BY <4>2
      <4>3. Decir(h, cache[f])
        BY <2>4, <4>2, <4>a DEF CacheResponde, processCacheResponse
      <4>4. fsData'[h] = cache[f]
        BY <2>1, <4>3 DEF Decir
      <4>5. cache[f] \in Comienzos(f)
        BY <3>2, <3>4 DEF InvTextos
      <4> QED BY <3>1, <4>4, <4>5 DEF Comienzos
    <3> QED BY <3>3, <3>4
  <2>5. ASSUME NEW g \in Hilos, Hilo(g) PROVE Fechada(h)
    <3>1. pc' # pc
      OBVIOUS
    <3>2. CASE Leer(g)
      <4>1. PICK x \in {"leerUnidad", "conectar", "crearInodo", "eliminar", "responder"} : Ir(g, x)
        BY <3>2, StorageServerValido DEF Leer, Read, InvTextos, Servidos
      <4> QED BY <2>2, <4>1
    <3>3. CASE LeerEntera(g)
      BY <2>2, <2>3, <3>3 DEF LeerEntera, Volver
    <3>4. CASE Crear(g) \/ EscribirFigura(g) \/ BorrarFigura(g) \/ Listar(g) \/ LeerParaCache(g)
      <4>1. \E x \in {"escribir", "leerUnidad", "responder", "guardar"} : Ir(g, x)
        BY <3>4 DEF Crear, EscribirFigura, BorrarFigura, Listar, LeerParaCache, Volver
      <4> QED BY <2>2, <4>1
    <3>5. CASE Conectar(g) \/ EnviarACache(g) \/ CerrarCache(g) \/ BorrarCache(g) \/ Responder(g)
      <4>1. \E x \in {"preguntado", "leer", "borrar cache", "responder", "libre"} : Ir(g, x)
        BY <3>5 DEF Conectar, EnviarACache, CerrarCache, BorrarCache, Responder
      <4> QED BY <2>2, <4>1
    <3>6. CASE Entrar(g) \/ BorrarFuera(g) \/ Morir
      BY <3>1, <3>6 DEF Entrar, BorrarFuera, Morir, hiloVars
    <3> QED
      BY <2>5, <3>2, <3>3, <3>4, <3>5, <3>6
         DEF Hilo, ConectarFalla, CacheCuelga, LeerNulo, EnviarFalla, ResponderFalla
  <2>6. ASSUME NEW g \in Hilos, CacheResponde(g) PROVE Fechada(h)
    BY <2>2, <2>4, <2>6 DEF CacheResponde
  <2>7. ASSUME NEW g \in Hilos, NEW p \in Pedidos, Aceptar(g, p) PROVE Fechada(h)
    <3>1. \E x \in {"leyendo"} : Ir(g, x)
      BY <2>7 DEF Aceptar
    <3> QED BY <2>2, <3>1
  <2>8. CASE CacheCae
    BY <2>1, <2>8 DEF CacheCae
  <2>9. CASE Morir \/ SigintEnHilo \/ CacheVuelve
    BY <2>9 DEF Morir, SigintEnHilo, CacheVuelve, hiloVars
  <2> QED
    BY <2>5, <2>6, <2>7, <2>8, <2>9
       DEF ServerNext, SigintEnMain, SalirDelCiclo, AceptarFalla, LeerFalla
<1>6. InvTextos /\ [ServerNext]_serverVars =>
        [\A h \in Hilos :
           pc[h] # "cerrar cache" /\ pc'[h] = "cerrar cache" =>
             \/ fsData'[h] \in vistos[h]
             \/ /\ pc[h] = "preguntado"
                /\ fsData'[h] \in {ParaCache(t) : t \in historia[pedido[h].figura] \ {Falta}}
          ]_serverVars
  BY <1>5
<1> QED BY <1>1, <1>2, <1>3, <1>4, <1>6, PTL DEF ServerSpec, RespuestaFechada
=============================================================================
