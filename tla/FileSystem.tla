----------------------------- MODULE FileSystem -----------------------------
(***************************************************************************)
(* The file system of the figure server: class FileSystem and class INodo  *)
(* of 27:20251128/Server/FileSystem.cc and, the same text, of              *)
(* 20:20251028/FileSystem/FileSystem.cpp.  One operator per method, from   *)
(* the state of the object and of its disk to the state the call leaves (a *)
(* set of states where the method chooses blocks), and one action each.    *)
(*                                                                         *)
(* Next lets a caller make any call of the class at any time; what the     *)
(* server and the tests really call is in FileSystemUso.                   *)
(***************************************************************************)
EXTENDS Integers, Sequences, FiniteSets, Functions

CONSTANTS
  Nombres,           \* names passed by callers, none of them empty
  NombresLargos,     \* those of more than 15 characters
  Recortar,          \* what the 15 characters saved of a long name spell
  Vacio,             \* the empty name, which marks an unused slot
  Bytes,             \* characters of a file; NUL, the end mark, is not one
  ByteMeta,          \* what metadata bytes look like when read as text
  Textos,            \* the contents callers hand to escribir
  TBLOQUE,           \* bytes of a block (256)
  TDIRECTORIO,       \* slots of the directory (8)
  CANTIDADBLOQUES,   \* blocks of the disk (4096)
  firstDataBlock,    \* the block of the inode metadata, last reserved (3)
  EntradasGuardadas, \* bitmap entries that reach the disk (512)
  Directos,          \* direct blocks of an inode (4)
  Indirectos,        \* blocks of each of its two indirect lists (64)
  PalabrasMeta       \* 32-bit words of the metadata block (64)

Slots == 0 .. TDIRECTORIO - 1
Bloques == 0 .. CANTIDADBLOQUES - 1
\* The constructor marks i <= firstDataBlock; the slip leaves the last out.
ReservadosMenosUno == 0 .. firstDataBlock - 1
Reservados == 0 .. firstDataBlock
MaxBloques == Directos + 2 * Indirectos

ASSUME ConstantesValidas ==
  /\ TBLOQUE \in Nat \ {0} /\ TDIRECTORIO \in Nat \ {0}
  /\ firstDataBlock \in Nat /\ CANTIDADBLOQUES \in Nat
  /\ firstDataBlock < CANTIDADBLOQUES
  /\ EntradasGuardadas \in Nat /\ PalabrasMeta \in Nat \ {0}
  /\ Directos \in Nat \ {0} /\ Indirectos \in Nat \ {0}

ASSUME NombresValidos ==
  /\ Vacio \notin Nombres
  /\ NombresLargos \subseteq Nombres
  /\ Recortar \in [NombresLargos -> Nombres \ NombresLargos]

ASSUME TextosValidos == Textos \subseteq Seq(Bytes)

(***************************************************************************)
(* fs is the object and its disk.  An inode keeps its direct blocks and    *)
(* its two indirect lists in the order asignarBloque fills them, so one    *)
(* sequence stands for the six members.  The disk keeps the directory and  *)
(* the inode metadata (dDirectorio), the saved part of the bitmap          *)
(* (dBitmap) and the data blocks: of a block, the characters before its    *)
(* first NUL.  legible says that no data block was written over the inode  *)
(* metadata since they were last saved.                                    *)
(***************************************************************************)
VARIABLE fs

vars == fs

INodo(n, bs) == [nombre |-> n, bloques |-> bs]
INodoVacio == INodo(Vacio, <<>>)

DiscoNuevo ==
  [directorio  |-> [i \in Slots |-> INodoVacio],
   bitmap      |-> Reservados,
   nFiles      |-> 0,
   dDirectorio |-> [i \in Slots |-> INodoVacio],
   dBitmap     |-> Reservados \cap (0 .. EntradasGuardadas - 1),
   datos       |-> [b \in Bloques |-> <<>>],
   legible     |-> TRUE]

Existe(s, n) == \E i \in Slots : s.directorio[i].nombre = n

\* A slip: the last slot instead of the first.
buscarUltimoPorNombre(s, n) ==
  CHOOSE i \in Slots : /\ s.directorio[i].nombre = n
                       /\ \A j \in i + 1 .. TDIRECTORIO - 1 : s.directorio[j].nombre # n

\* The first slot that holds name n; with Vacio, the first unused slot.
buscarArchivoPorNombre(s, n) ==
  CHOOSE i \in Slots : /\ s.directorio[i].nombre = n
                       /\ \A j \in 0 .. i - 1 : s.directorio[j].nombre # n

Libres(s) == (firstDataBlock .. CANTIDADBLOQUES - 1) \ s.bitmap

buscarBloqueLibre(s) == CHOOSE b \in Libres(s) : \A c \in Libres(s) : b <= c

\* Words of metadata an inode takes on disk: the direct blocks, the two
\* counts, and one word per indirect block.
PalabrasINodo(x) ==
  IF x.nombre = Vacio THEN 0
  ELSE 2 + (IF Len(x.bloques) <= Directos THEN Directos ELSE Len(x.bloques))

Palabras(dir) ==
  {w \in Slots \X (1 .. 2 + MaxBloques) : w[2] <= PalabrasINodo(dir[w[1]])}

\* The data blocks on which the metadata of a directory spill when they
\* outgrow their only block.
Solape(dir) ==
  LET escritas == Cardinality(Palabras(dir))
  IN {b \in Bloques : /\ b > firstDataBlock
                      /\ (b - firstDataBlock) * PalabrasMeta < escritas}

NombreGuardado(n) == IF n \in NombresLargos THEN Recortar[n] ELSE n

\* A slip: the indirect lists are not saved.
guardarDirectos(s) ==
  [s EXCEPT !.dDirectorio =
     [i \in Slots |-> INodo(NombreGuardado(s.directorio[i].nombre),
                            SubSeq(s.directorio[i].bloques, 1,
                                   IF Len(s.directorio[i].bloques) < Directos
                                   THEN Len(s.directorio[i].bloques) ELSE Directos))]]

guardarDirectorio(s) ==
  LET pisados == Solape(s.directorio)
  IN [s EXCEPT
        !.dDirectorio = [i \in Slots |-> INodo(NombreGuardado(s.directorio[i].nombre),
                                               s.directorio[i].bloques)],
        !.datos = [b \in Bloques |-> IF b \in pisados THEN <<ByteMeta>> ELSE s.datos[b]],
        !.legible = TRUE]

\* Two slips: the last entry is left out; the bitmap is not saved.
guardarBitmapCorto(s) ==
  [s EXCEPT !.dBitmap = s.bitmap \cap (0 .. CANTIDADBLOQUES - 2)]
noGuardarBitmap(s) == s

\* One byte per block, in as many blocks as one bit per block would need.
guardarBitmap(s) ==
  [s EXCEPT !.dBitmap = s.bitmap \cap (0 .. EntradasGuardadas - 1)]

\* Data blocks bs take new contents: block bs[i] takes c[i].
escribirBloques(s, bs, c) ==
  [s EXCEPT
     !.datos = [b \in Bloques |-> IF \E i \in DOMAIN bs : bs[i] = b
                                  THEN c[CHOOSE i \in DOMAIN bs : bs[i] = b]
                                  ELSE s.datos[b]],
     !.legible = @ /\ Range(bs) \cap Solape(s.dDirectorio) = {}]
-----------------------------------------------------------------------------
crearInodo(s, n) ==
  IF n \in NombresLargos \/ Existe(s, n) \/ ~Existe(s, Vacio)
  THEN s
  ELSE guardarBitmap(guardarDirectorio(
         [s EXCEPT !.directorio[buscarArchivoPorNombre(s, Vacio)] = INodo(n, <<>>),
                   !.nFiles = @ + 1]))

\* A slip: one block too many for texts that fill their blocks.
BloquesDeMas(d) == Len(d) \div TBLOQUE + 1
BloquesPara(d) == (Len(d) + TBLOQUE - 1) \div TBLOQUE

\* A slip: each block starts with the last character of the one before.
TrozoCorrido(d, i) ==
  SubSeq(d, IF i = 1 THEN 1 ELSE (i - 1) * TBLOQUE,
         IF i * TBLOQUE <= Len(d) THEN i * TBLOQUE ELSE Len(d))

Trozo(d, i) ==
  SubSeq(d, (i - 1) * TBLOQUE + 1,
         IF i * TBLOQUE <= Len(d) THEN i * TBLOQUE ELSE Len(d))

\* k calls of buscarBloqueLibre, each block marked before the next call:
\* the k lowest free blocks in order, or none when they run out.
Asignaciones(s, k) ==
  {a \in [1 .. k -> Libres(s)] :
     /\ \A i, j \in 1 .. k : i < j => a[i] < a[j]
     /\ \A b \in Libres(s) \ Range(a) : \A i \in 1 .. k : a[i] < b}

\* escribir once it has its slot p and its new blocks a: the old blocks are
\* released, the inode starts afresh, and bitmap and directory are saved,
\* unless the inode cannot hold the blocks: then they are all released but
\* those already assigned stay in the inode, and nothing is saved.
escribirEn(s, p, n, d, a) ==
  LET viejos == IF s.directorio[p].nombre = Vacio THEN {}
                ELSE Range(s.directorio[p].bloques)
      puestos == SubSeq(a, 1, IF Len(a) <= MaxBloques THEN Len(a) ELSE MaxBloques)
      t == escribirBloques(
             [s EXCEPT !.bitmap = (@ \cup Range(a)) \ viejos,
                       !.directorio[p] = INodo(n, puestos)],
             puestos, [i \in DOMAIN puestos |-> Trozo(d, i)])
  IN IF Len(a) <= MaxBloques
     THEN guardarDirectorio(guardarBitmap(t))
     ELSE [t EXCEPT !.bitmap = @ \ Range(a)]

escribir(s, n, d) ==
  LET p == buscarArchivoPorNombre(s, IF Existe(s, n) THEN n ELSE Vacio)
      A == Asignaciones(s, BloquesPara(d))
  IN IF (~Existe(s, n) /\ ~Existe(s, Vacio)) \/ A = {}
     THEN {s}
     ELSE {escribirEn(s, p, n, d, a) : a \in A}

obtenerUltimoBloque(x) == x.bloques[Len(x.bloques)]

agregar(s, n, c) ==
  LET p == buscarArchivoPorNombre(s, n)
      bs == s.directorio[p].bloques
      ultimo == obtenerUltimoBloque(s.directorio[p])
      b == buscarBloqueLibre(s)
      t == [s EXCEPT !.directorio[p].bloques = Append(bs, b),
                     !.bitmap = @ \cup {b}]
  IN IF ~Existe(s, n) THEN s
     ELSE IF bs # <<>> /\ Len(s.datos[ultimo]) < TBLOQUE
     THEN escribirBloques(s, <<ultimo>>, <<Append(s.datos[ultimo], c)>>)
     ELSE IF Libres(s) = {} \/ Len(bs) = MaxBloques THEN s
     ELSE IF bs = <<>>
     THEN guardarDirectorio(guardarBitmap(escribirBloques(t, <<b>>, << <<c>> >>)))
     ELSE escribirBloques(guardarDirectorio(guardarBitmap(t)), <<b>>, << <<c>> >>)

\* The blocks are zeroed and released, the last file by nFiles moves into
\* the slot, and slot nFiles - 1 is emptied (a stray write when nFiles is 0,
\* which falls outside the directory).
eliminar(s, n) ==
  LET p == buscarArchivoPorNombre(s, n)
      bs == Range(s.directorio[p].bloques)
      fin == s.nFiles - 1
      dir == IF p < fin THEN [s.directorio EXCEPT ![p] = s.directorio[fin]]
             ELSE s.directorio
  IN IF ~Existe(s, n) THEN s
     ELSE guardarDirectorio(guardarBitmap(
            [s EXCEPT !.bitmap = @ \ bs,
                      !.datos = [b \in Bloques |-> IF b \in bs THEN <<>> ELSE s.datos[b]],
                      !.directorio = [dir EXCEPT ![fin] = INodoVacio],
                      !.nFiles = fin]))

renombrar(s, n, m) ==
  IF ~Existe(s, n) THEN s
  ELSE guardarDirectorio(
         [s EXCEPT !.directorio[buscarArchivoPorNombre(s, n)].nombre = m])

reemplazar(s, n, d) ==
  IF ~Existe(s, n) THEN {s}
  ELSE escribir(crearInodo(eliminar(s, n), n), n, d)

\* What leer returns: the blocks in order up to nbytes characters or to the
\* first block with a NUL in it.  The null pointer of a file that is missing
\* or has nothing to read is the empty sequence.
leer(s, n, nbytes) ==
  LET bs == s.directorio[buscarArchivoPorNombre(s, n)].bloques
      lleno(i) == Len(s.datos[bs[i]]) = TBLOQUE
      corte == {i \in DOMAIN bs : \A j \in 1 .. i - 1 : lleno(j)}
      k == Cardinality(corte)
      total == IF k = 0 THEN 0 ELSE (k - 1) * TBLOQUE + Len(s.datos[bs[k]])
  IN IF ~Existe(s, n) THEN <<>>
     ELSE [i \in 1 .. (IF nbytes <= total THEN nbytes ELSE total) |->
             s.datos[bs[((i - 1) \div TBLOQUE) + 1]][((i - 1) % TBLOQUE) + 1]]

\* The entries that were saved; the others are read as free.
cargarBitmap(s) == s.dBitmap

\* The constructor on an existing disk.  cargarBitmap replaces the whole
\* bitmap, the entries taken from the inode metadata included.  Metadata
\* that data were written over can give an inode any list of blocks.
cargar(s) ==
  LET listas == UNION {[1 .. k -> Bloques] : k \in 0 .. MaxBloques}
      leidos == IF s.legible THEN {s.dDirectorio}
                ELSE {dir \in [Slots -> [nombre : Nombres \cup {Vacio}, bloques : listas]] :
                        \A i \in Slots : dir[i].nombre = s.dDirectorio[i].nombre}
  IN {[s EXCEPT !.directorio = dir,
                !.bitmap = cargarBitmap(s),
                !.nFiles = Cardinality({i \in Slots : dir[i].nombre # Vacio})] :
        dir \in leidos}

destructor(s) == guardarDirectorio(guardarBitmap(s))
-----------------------------------------------------------------------------
Init == fs = DiscoNuevo

CrearInodo(n) == fs' = crearInodo(fs, n)
Escribir(n, d) == fs' \in escribir(fs, n, d)
Agregar(n, c) == fs' = agregar(fs, n, c)
Eliminar(n) == fs' = eliminar(fs, n)
Renombrar(n, m) == fs' = renombrar(fs, n, m)
Reemplazar(n, d) == fs' \in reemplazar(fs, n, d)
\* The program ends normally and starts again.
ReinicioOrdenado == fs' \in cargar(destructor(fs))
\* The program dies between two calls and starts again.
ReinicioAbrupto == fs' \in cargar(fs)
\* The constructor asked for a new disk.
Formatear == fs' = DiscoNuevo

Next ==
  \/ \E n \in Nombres : CrearInodo(n) \/ Eliminar(n)
  \/ \E n \in Nombres, d \in Textos : Escribir(n, d) \/ Reemplazar(n, d)
  \/ \E n \in Nombres, c \in Bytes : Agregar(n, c)
  \/ \E n, m \in Nombres : Renombrar(n, m)
  \/ ReinicioOrdenado
  \/ ReinicioAbrupto
  \/ Formatear

Spec == Init /\ [][Next]_vars
=============================================================================
