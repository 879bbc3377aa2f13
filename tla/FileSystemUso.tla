--------------------------- MODULE FileSystemUso ----------------------------
(***************************************************************************)
(* The file system under the calls the server and the tests make: escribir *)
(* follows a crearInodo that succeeded, renombrar takes a new valid name,  *)
(* and no file grows beyond MaxFile blocks.  Restarts come between calls,  *)
(* with or without the destructor.                                         *)
(***************************************************************************)
EXTENDS FileSystem

CONSTANT MaxFile   \* blocks of the largest file the callers keep

BloquesDe(s, n) == s.directorio[buscarArchivoPorNombre(s, n)].bloques

UsoCrear(n) == CrearInodo(n)

UsoEscribir(n, d) == Existe(fs, n) /\ Escribir(n, d)

UsoAgregar(n, c) ==
  /\ Existe(fs, n)
  /\ LET bs == BloquesDe(fs, n)
     IN Len(bs) < MaxFile \/ (bs # <<>> /\ Len(fs.datos[bs[Len(bs)]]) < TBLOQUE)
  /\ Agregar(n, c)

UsoEliminar(n) == Eliminar(n)

UsoRenombrar(n, m) ==
  /\ m \notin NombresLargos
  /\ ~Existe(fs, m)
  /\ Renombrar(n, m)

UsoReemplazar(n, d) == Reemplazar(n, d)

UsoNext ==
  \/ \E n \in Nombres : UsoCrear(n) \/ UsoEliminar(n)
  \/ \E n \in Nombres, d \in Textos : UsoEscribir(n, d) \/ UsoReemplazar(n, d)
  \/ \E n \in Nombres, c \in Bytes : UsoAgregar(n, c)
  \/ \E n, m \in Nombres : UsoRenombrar(n, m)
  \/ ReinicioOrdenado
  \/ ReinicioAbrupto
  \/ Formatear

UsoSpec == Init /\ [][UsoNext]_vars

\* The requests of the storage server, one after the other: it calls
\* escribir whether crearInodo accepted the name or not.
Submit(n, d) == fs' \in escribir(crearInodo(fs, n), n, d)
Delete(n) == Eliminar(n)

ServidorNext ==
  \/ \E n \in Nombres, d \in Textos : Submit(n, d)
  \/ \E n \in Nombres : Delete(n)
  \/ ReinicioAbrupto

ServidorSpec == Init /\ [][ServidorNext]_vars
-----------------------------------------------------------------------------
DataBloques == firstDataBlock + 1 .. CANTIDADBLOQUES - 1
Trozos == {c \in Seq(Bytes \cup {ByteMeta}) : Len(c) <= TBLOQUE}

INodos ==
  {z \in [nombre : (Nombres \ NombresLargos) \cup {Vacio}, bloques : Seq(DataBloques)] :
     Len(z.bloques) <= MaxFile}

Estados ==
  [directorio : [Slots -> INodos], bitmap : SUBSET Bloques, nFiles : 0 .. TDIRECTORIO,
   dDirectorio : [Slots -> INodos], dBitmap : SUBSET Bloques,
   datos : [Bloques -> Trozos], legible : BOOLEAN]

\* Every part of the state has its type: inodes hold data blocks only, at
\* most MaxFile of them, under names that fit their entry.
TypeOK == fs \in Estados

SinCruces(s) ==
  \A i, j \in Slots :
    \A k \in DOMAIN s.directorio[i].bloques, l \in DOMAIN s.directorio[j].bloques :
      s.directorio[i].bloques[k] = s.directorio[j].bloques[l] => i = j /\ k = l

\* No block belongs to two files, nor twice to one: what escribir, agregar
\* and eliminar do to a file's blocks never reaches another file.
SinEnlacesCruzados == SinCruces(fs)

Usados(s) ==
  {b \in Bloques : \E i \in Slots : \E k \in DOMAIN s.directorio[i].bloques :
                     s.directorio[i].bloques[k] = b}

MarcadosJustos(s) == s.bitmap = Reservados \cup Usados(s)

\* A block is marked in the bitmap exactly when it is reserved or some file
\* holds it: nothing in use is handed out again and nothing leaks, restarts
\* and failed calls included.
BitmapExacto == MarcadosJustos(fs)

Compacto(s) ==
  /\ \A i \in Slots : s.directorio[i].nombre # Vacio <=> i < s.nFiles
  /\ \A i, j \in 0 .. s.nFiles - 1 :
       s.directorio[i].nombre = s.directorio[j].nombre => i = j
  /\ \A i \in Slots : i >= s.nFiles => s.directorio[i].bloques = <<>>

\* The files are the first nFiles slots, under different names: what
\* eliminar relies on when it moves the last one.
DirectorioCompacto == Compacto(fs)

Llenos(datos, bs) ==
  \A k \in DOMAIN bs : IF k < Len(bs) THEN Len(datos[bs[k]]) = TBLOQUE
                                      ELSE datos[bs[k]] # <<>>

Corridos(s) == \A i \in Slots : Llenos(s.datos, s.directorio[i].bloques)

\* All the blocks of a file but the last are full and the last is not
\* empty, so leer, which stops at the first NUL, reaches the end of the file.
SinHuecos == Corridos(fs)

\* Whatever was called before, a restart without the destructor finds the
\* state the program had in memory.
RecargaFiel == cargar(fs) = {fs}

\* A block of a file is marked occupied (FileSystem.h:313-314), also after
\* guardarBitmap and cargarBitmap took the bitmap to the disk and back.
BloquesMarcados ==
  \A i \in Slots : Range(fs.directorio[i].bloques) \subseteq fs.bitmap

\* The class implements the store of named texts it documents.
Almacen ==
  INSTANCE FileStore WITH
    Capacidad <- TDIRECTORIO,
    store <- [n \in {fs.directorio[i].nombre : i \in Slots} \ {Vacio} |->
                leer(fs, n, MaxBloques * TBLOQUE)]

ImplementaAlmacen == Almacen!Spec
=============================================================================
