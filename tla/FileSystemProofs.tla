-------------------------- MODULE FileSystemProofs --------------------------
(***************************************************************************)
(* The invariants of the file system hold of every call sequence of        *)
(* FileSystemUso, for every value of the constants that FileSystemLimites  *)
(* admits.                                                                 *)
(***************************************************************************)
EXTENDS FileSystemLimites, FiniteSetTheorems, SequenceTheorems, TLAPS

LEMMA Constantes ==
  /\ TBLOQUE \in Nat \ {0} /\ TDIRECTORIO \in Nat \ {0}
  /\ firstDataBlock \in Nat /\ CANTIDADBLOQUES \in Nat
  /\ firstDataBlock < CANTIDADBLOQUES
  /\ EntradasGuardadas \in Nat /\ PalabrasMeta \in Nat \ {0}
  /\ Directos \in Nat \ {0} /\ Indirectos \in Nat \ {0}
  /\ MaxFile \in Nat /\ MaxFile <= MaxBloques /\ MaxBloques \in Nat
BY ConstantesValidas, MaxFileValido DEF MaxBloques

(***************************************************************************)
(* Numbers.                                                                *)
(***************************************************************************)
LEMMA Minimo ==
  ASSUME NEW S \in SUBSET Nat, S # {}
  PROVE  \E m \in S : \A k \in S : m <= k
<1>1. PICK n \in S : TRUE
  OBVIOUS
<1> DEFINE T == {0 .. k : k \in S \cap (0 .. n)}
<1>2. /\ IsFiniteSet(0 .. n)
      /\ T \subseteq SUBSET (0 .. n)
      /\ 0 .. n \in T
  <2>1. IsFiniteSet(0 .. n)
    BY FS_Interval
  <2>2. QED BY <2>1
<1>3. IsWellFoundedOn(StrictSubsetOrdering(0 .. n), SUBSET (0 .. n))
  <2>1. FiniteSubsetsOf(0 .. n) = SUBSET (0 .. n)
    BY <1>2, FS_FiniteSubsetsOfFinite
  <2>2. QED BY <2>1, FS_StrictSubsetOrderingWellFounded
<1>4. PICK z \in T : \A w \in T : ~ (<<w, z>> \in StrictSubsetOrdering(0 .. n))
  <2> HIDE DEF T
  <2> QED BY <1>2, <1>3, WFMin
<1>5. PICK m \in S \cap (0 .. n) : z = 0 .. m
  OBVIOUS
<1>6. ASSUME NEW k \in S PROVE m <= k
  <2>1. CASE k > n
    BY <2>1
  <2>2. CASE k <= n /\ k < m
    <3>1. 0 .. k \subseteq 0 .. m /\ m \in 0 .. m /\ m \notin 0 .. k
      BY <2>2
    <3>2. 0 .. k \in T /\ 0 .. m \in T
      BY <2>2
    <3>3. <<0 .. k, 0 .. m>> \in StrictSubsetOrdering(0 .. n)
      BY <3>1, <3>2, <1>2 DEF StrictSubsetOrdering
    <3>4. QED BY <3>2, <3>3, <1>4, <1>5
  <2>3. QED BY <2>1, <2>2
<1>7. QED BY <1>6

\* The slot a search returns is the first that holds the name.
LEMMA Buscar ==
  ASSUME NEW s, NEW n, Existe(s, n)
  PROVE  LET p == buscarArchivoPorNombre(s, n)
         IN /\ p \in Slots
            /\ s.directorio[p].nombre = n
            /\ \A j \in 0 .. p - 1 : s.directorio[j].nombre # n
<1> DEFINE S == {i \in Slots : s.directorio[i].nombre = n}
<1>1. S \in SUBSET Nat /\ S # {}
  BY Constantes DEF Existe, Slots
<1>2. PICK m \in S : \A k \in S : m <= k
  <2> HIDE DEF S
  <2> QED BY <1>1, Minimo
<1>3. \A j \in 0 .. m - 1 : s.directorio[j].nombre # n
  BY <1>2, Constantes DEF Slots
<1>4. QED BY <1>2, <1>3 DEF buscarArchivoPorNombre

\* The block buscarBloqueLibre returns is free and no free block is lower.
LEMMA BloqueLibre ==
  ASSUME NEW s, Libres(s) # {}
  PROVE  /\ buscarBloqueLibre(s) \in Libres(s)
         /\ \A c \in Libres(s) : buscarBloqueLibre(s) <= c
<1>1. Libres(s) \in SUBSET Nat
  BY Constantes DEF Libres
<1>2. \E b \in Libres(s) : \A c \in Libres(s) : b <= c
  BY <1>1, Minimo
<1>3. QED BY <1>2 DEF buscarBloqueLibre

(***************************************************************************)
(* Counting: how far first-fit allocation reaches, and how much metadata   *)
(* a directory takes.                                                      *)
(***************************************************************************)
\* If every data block up to b is held by a file or is one of the blocks a
\* being allocated, b is below what TDIRECTORIO + 1 files can fill.
LEMMA Alcance ==
  ASSUME NEW s \in Estados, NEW k \in 0 .. MaxFile, NEW a \in [1 .. k -> Nat],
         NEW b \in Nat, b > firstDataBlock,
         \A c \in firstDataBlock + 1 .. b : c \in Usados(s) \/ c \in Range(a)
  PROVE  b <= firstDataBlock + (TDIRECTORIO + 1) * MaxFile
<1> USE Constantes
<1> DEFINE J == firstDataBlock + 1 .. b
           D == (0 .. TDIRECTORIO) \X (1 .. MaxFile)
           bl(i) == s.directorio[i].bloques
           R == {w \in D : IF w[1] = TDIRECTORIO THEN w[2] <= k
                           ELSE w[2] <= Len(bl(w[1]))}
           g == [w \in R |-> IF w[1] = TDIRECTORIO THEN a[w[2]] ELSE bl(w[1])[w[2]]]
           T == {g[w] : w \in R}
<1>1. \A i \in Slots : bl(i) \in Seq(DataBloques) /\ Len(bl(i)) <= MaxFile
  BY DEF Estados, INodos
<1>2. IsFiniteSet(D) /\ Cardinality(D) = (TDIRECTORIO + 1) * MaxFile
  <2>1. /\ IsFiniteSet(0 .. TDIRECTORIO) /\ Cardinality(0 .. TDIRECTORIO) = TDIRECTORIO + 1
        /\ IsFiniteSet(1 .. MaxFile) /\ Cardinality(1 .. MaxFile) = MaxFile
    <3>1. IsFiniteSet(0 .. TDIRECTORIO) /\ Cardinality(0 .. TDIRECTORIO) = TDIRECTORIO + 1
      BY FS_Interval
    <3>2. IsFiniteSet(1 .. MaxFile) /\ Cardinality(1 .. MaxFile) = MaxFile
      BY FS_Interval
    <3>3. QED BY <3>1, <3>2
  <2>2. /\ IsFiniteSet(D)
        /\ Cardinality(D) = Cardinality(0 .. TDIRECTORIO) * Cardinality(1 .. MaxFile)
    BY ONLY <2>1, FS_Product
  <2>3. QED BY <2>1, <2>2
<1>3. IsFiniteSet(R) /\ Cardinality(R) <= Cardinality(D) /\ Cardinality(R) \in Nat
  <2>1. R \subseteq D
    OBVIOUS
  <2> HIDE DEF R, D
  <2>2. QED BY <2>1, <1>2, FS_Subset, FS_CardinalityType
<1>4. g \in Surjection(R, T)
  BY DEF Surjection
<1>5. IsFiniteSet(T) /\ Cardinality(T) <= Cardinality(R) /\ Cardinality(T) \in Nat
  <2> HIDE DEF R, T, g
  <2> QED BY <1>3, <1>4, FS_Surjection, FS_CardinalityType
<1>6. J \subseteq T
  <2> SUFFICES ASSUME NEW c \in J PROVE c \in T
    OBVIOUS
  <2>1. CASE c \in Range(a)
    <3>1. PICK j \in 1 .. k : a[j] = c
      BY <2>1 DEF Range
    <3>2. <<TDIRECTORIO, j>> \in R
      OBVIOUS
    <3>3. g[<<TDIRECTORIO, j>>] = c
      BY <3>1, <3>2
    <3>4. QED BY <3>2, <3>3
  <2>2. CASE c \in Usados(s)
    <3>1. PICK i \in Slots : \E j \in DOMAIN bl(i) : bl(i)[j] = c
      BY <2>2 DEF Usados
    <3>2. PICK j \in DOMAIN bl(i) : bl(i)[j] = c
      BY <3>1
    <3>3. j \in 1 .. Len(bl(i)) /\ Len(bl(i)) <= MaxFile /\ Len(bl(i)) \in Nat
      BY <1>1, <3>2
    <3>4. i \in 0 .. TDIRECTORIO /\ i # TDIRECTORIO
      BY DEF Slots
    <3>5. <<i, j>> \in R
      BY <3>3, <3>4
    <3>6. g[<<i, j>>] = c
      BY <3>2, <3>4, <3>5
    <3>7. QED BY <3>5, <3>6
  <2>3. QED BY <2>1, <2>2
<1>7. Cardinality(J) <= Cardinality(T)
  <2> HIDE DEF J, T
  <2> QED BY <1>5, <1>6, FS_Subset
<1>8. Cardinality(J) = b - firstDataBlock
  BY FS_Interval
<1>9. QED
  <2> HIDE DEF J, T, R, D
  <2> (TDIRECTORIO + 1) * MaxFile \in Nat
    OBVIOUS
  <2> QED BY <1>2, <1>3, <1>5, <1>7, <1>8

\* The metadata of a directory whose files have at most MaxFile blocks fit
\* their block: guardarDirectorio reaches no data block.
LEMMA SinSolape ==
  ASSUME NEW dir \in [Slots -> INodos]
  PROVE  Solape(dir) = {}
<1> USE Constantes
<1> DEFINE W == 2 + (IF MaxFile <= Directos THEN Directos ELSE MaxFile)
           D == Slots \X (1 .. W)
<1>1. IsFiniteSet(D) /\ Cardinality(D) = TDIRECTORIO * W
  <2>1. IsFiniteSet(Slots) /\ Cardinality(Slots) = TDIRECTORIO
    BY FS_Interval DEF Slots
  <2>2. IsFiniteSet(1 .. W) /\ Cardinality(1 .. W) = W
    BY FS_Interval
  <2> HIDE DEF W
  <2>3. QED BY <2>1, <2>2, FS_Product
<1>2. Palabras(dir) \subseteq D
  <2> SUFFICES ASSUME NEW w \in Palabras(dir) PROVE w \in D
    OBVIOUS
  <2>1. w \in Slots \X (1 .. 2 + MaxBloques) /\ w[2] <= PalabrasINodo(dir[w[1]])
    BY DEF Palabras
  <2>2. dir[w[1]] \in INodos
    BY <2>1
  <2>3. Len(dir[w[1]].bloques) \in Nat /\ Len(dir[w[1]].bloques) <= MaxFile
    BY <2>2 DEF INodos
  <2>4. PalabrasINodo(dir[w[1]]) <= W
    BY <2>3 DEF PalabrasINodo
  <2>5. PalabrasINodo(dir[w[1]]) \in Nat
    BY <2>3 DEF PalabrasINodo
  <2>6. w[2] \in 1 .. W
    BY <2>1, <2>4, <2>5
  <2>7. QED BY <2>1, <2>6
<1>3. Cardinality(Palabras(dir)) <= PalabrasMeta /\ Cardinality(Palabras(dir)) \in Nat
  <2>1. IsFiniteSet(Palabras(dir)) /\ Cardinality(Palabras(dir)) <= Cardinality(D)
    <3> HIDE DEF D
    <3> QED BY <1>1, <1>2, FS_Subset
  <2>2. TDIRECTORIO * W <= PalabrasMeta /\ TDIRECTORIO * W \in Nat
    BY MetadatosCaben
  <2> HIDE DEF W, D
  <2>3. QED BY <2>1, <2>2, <1>1, FS_CardinalityType
<1>4. ASSUME NEW b \in Bloques, b > firstDataBlock
      PROVE  (b - firstDataBlock) * PalabrasMeta >= PalabrasMeta
  <2> DEFINE e == b - firstDataBlock - 1
  <2>1. e \in Nat /\ b - firstDataBlock = e + 1
    BY <1>4 DEF Bloques
  <2> HIDE DEF e
  <2>2. (e + 1) * PalabrasMeta = e * PalabrasMeta + PalabrasMeta /\ e * PalabrasMeta \in Nat
    BY <2>1
  <2>3. QED BY <2>1, <2>2
<1>5. ASSUME NEW b \in Bloques, b > firstDataBlock
      PROVE ~ ((b - firstDataBlock) * PalabrasMeta < Cardinality(Palabras(dir)))
  <2>1. (b - firstDataBlock) * PalabrasMeta \in Nat
    BY <1>5 DEF Bloques
  <2>2. QED BY <1>3, <1>4, <1>5, <2>1
<1>6. QED BY <1>5 DEF Solape

\* The blocks that are allocated to a file of at most MaxFile blocks have
\* their bitmap entry saved.
LEMMA AsignadosBajos ==
  ASSUME NEW s, MemoriaBuena(s), NEW k \in 0 .. MaxFile,
         NEW a \in Asignaciones(s, k), NEW i \in 1 .. k
  PROVE  a[i] < EntradasGuardadas
<1> USE Constantes
<1>1. a \in [1 .. k -> Libres(s)] /\ s \in Estados
  BY DEF Asignaciones, MemoriaBuena
<1>2. a[i] \in Libres(s) /\ a[i] \in Nat /\ a \in [1 .. k -> Nat] /\ a[i] < CANTIDADBLOQUES
  BY <1>1 DEF Libres
<1>3. a[i] > firstDataBlock
  BY <1>2 DEF Libres, MemoriaBuena, MarcadosJustos, Reservados
<1>4. ASSUME NEW c \in firstDataBlock + 1 .. a[i]
      PROVE  c \in Usados(s) \/ c \in Range(a)
  <2>1. CASE c \in s.bitmap
    BY <2>1, <1>4 DEF MemoriaBuena, MarcadosJustos, Reservados
  <2>2. CASE c \notin s.bitmap
    <3>1. c \in Libres(s)
      BY <2>2, <1>2 DEF Libres
    <3>2. c \notin Range(a) => a[i] < c
      BY <3>1 DEF Asignaciones
    <3>3. QED BY <3>2, <1>2
  <2>3. QED BY <2>1, <2>2
<1>5. a[i] <= firstDataBlock + (TDIRECTORIO + 1) * MaxFile
  BY <1>1, <1>2, <1>3, <1>4, Alcance
<1>6. (TDIRECTORIO + 1) * MaxFile \in Nat
  OBVIOUS
<1>7. QED BY <1>2, <1>5, <1>6, BitmapAlcanza

(***************************************************************************)
(* Saving.                                                                 *)
(***************************************************************************)
LEMMA MismaMemoria ==
  ASSUME NEW s, MemoriaBuena(s), NEW t \in Estados,
         t.directorio = s.directorio, t.bitmap = s.bitmap, t.nFiles = s.nFiles
  PROVE  MemoriaBuena(t)
<1>1. Usados(t) = Usados(s)
  BY DEF Usados
<1>2. QED BY <1>1 DEF MemoriaBuena, SinCruces, MarcadosJustos, Compacto, Bajos

\* guardarBitmap saves the whole bitmap of a sound object.
LEMMA BitmapGuardado ==
  ASSUME NEW s, MemoriaBuena(s)
  PROVE  /\ guardarBitmap(s) = [s EXCEPT !.dBitmap = s.bitmap]
         /\ MemoriaBuena(guardarBitmap(s))
<1> USE Constantes
<1>1. s \in Estados
  BY DEF MemoriaBuena
<1>2. firstDataBlock < EntradasGuardadas
  <2>1. (TDIRECTORIO + 1) * MaxFile \in Nat
    OBVIOUS
  <2>2. QED BY <2>1, BitmapAlcanza
<1>3. s.bitmap \subseteq 0 .. EntradasGuardadas - 1
  BY <1>1, <1>2 DEF MemoriaBuena, MarcadosJustos, Reservados, Bajos, Usados, Bloques
<1>4. guardarBitmap(s) = [s EXCEPT !.dBitmap = s.bitmap]
  BY <1>3 DEF guardarBitmap
<1>5. guardarBitmap(s) \in Estados
  BY <1>1, <1>4 DEF Estados
<1>6. /\ guardarBitmap(s).directorio = s.directorio
      /\ guardarBitmap(s).bitmap = s.bitmap
      /\ guardarBitmap(s).nFiles = s.nFiles
  BY <1>1, <1>4 DEF Estados
<1>7. QED BY <1>4, <1>5, <1>6, MismaMemoria

\* guardarDirectorio saves every inode under its whole name and leaves the
\* data blocks alone.
LEMMA DirectorioGuardado ==
  ASSUME NEW s, MemoriaBuena(s)
  PROVE  /\ guardarDirectorio(s) = [s EXCEPT !.dDirectorio = s.directorio, !.legible = TRUE]
         /\ MemoriaBuena(guardarDirectorio(s))
<1>1. s \in Estados
  BY DEF MemoriaBuena
<1>2. s.directorio \in [Slots -> INodos] /\ s.datos \in [Bloques -> Trozos]
  BY <1>1 DEF Estados
<1>3. Solape(s.directorio) = {}
  BY <1>2, SinSolape
<1>4. [i \in Slots |-> INodo(NombreGuardado(s.directorio[i].nombre), s.directorio[i].bloques)]
        = s.directorio
  <2>1. ASSUME NEW i \in Slots
        PROVE  INodo(NombreGuardado(s.directorio[i].nombre), s.directorio[i].bloques)
                 = s.directorio[i]
    <3>1. s.directorio[i] \in INodos
      BY <1>2
    <3>2. NombreGuardado(s.directorio[i].nombre) = s.directorio[i].nombre
      BY <3>1, NombresValidos DEF INodos, NombreGuardado
    <3>3. QED BY <3>1, <3>2 DEF INodos, INodo
  <2>2. QED BY <2>1, <1>2
<1>5. [b \in Bloques |-> IF b \in {} THEN <<ByteMeta>> ELSE s.datos[b]] = s.datos
  BY <1>2
<1>6. guardarDirectorio(s) = [s EXCEPT !.dDirectorio = s.directorio, !.datos = s.datos,
                                       !.legible = TRUE]
  BY <1>3, <1>4, <1>5 DEF guardarDirectorio
<1>7. guardarDirectorio(s) = [s EXCEPT !.dDirectorio = s.directorio, !.legible = TRUE]
  BY <1>1, <1>6 DEF Estados
<1>8. guardarDirectorio(s) \in Estados
  BY <1>1, <1>7 DEF Estados
<1>9. /\ guardarDirectorio(s).directorio = s.directorio
      /\ guardarDirectorio(s).bitmap = s.bitmap
      /\ guardarDirectorio(s).nFiles = s.nFiles
  BY <1>1, <1>7 DEF Estados
<1>10. QED BY <1>7, <1>8, <1>9, MismaMemoria

\* A sound object that saves bitmap and directory, in either order, is
\* sound on disk too.
LEMMA TodoGuardado ==
  ASSUME NEW s, MemoriaBuena(s)
  PROVE  /\ Bueno(guardarDirectorio(guardarBitmap(s)))
         /\ Bueno(guardarBitmap(guardarDirectorio(s)))
         /\ guardarDirectorio(guardarBitmap(s)).directorio = s.directorio
         /\ guardarBitmap(guardarDirectorio(s)).directorio = s.directorio
         /\ guardarDirectorio(guardarBitmap(s)).datos = s.datos
         /\ guardarBitmap(guardarDirectorio(s)).datos = s.datos
<1>1. s \in Estados
  BY DEF MemoriaBuena
<1>2. guardarDirectorio(guardarBitmap(s))
        = [[s EXCEPT !.dBitmap = s.bitmap] EXCEPT !.dDirectorio = s.directorio, !.legible = TRUE]
  <2>1. guardarBitmap(s).directorio = s.directorio
    BY <1>1, BitmapGuardado DEF Estados
  <2>2. QED BY <2>1, BitmapGuardado, DirectorioGuardado
<1>3. guardarBitmap(guardarDirectorio(s))
        = [[s EXCEPT !.dDirectorio = s.directorio, !.legible = TRUE] EXCEPT !.dBitmap = s.bitmap]
  <2>1. guardarDirectorio(s).bitmap = s.bitmap
    BY <1>1, DirectorioGuardado DEF Estados
  <2>2. QED BY <2>1, BitmapGuardado, DirectorioGuardado
<1>4. /\ MemoriaBuena(guardarDirectorio(guardarBitmap(s)))
      /\ MemoriaBuena(guardarBitmap(guardarDirectorio(s)))
  BY BitmapGuardado, DirectorioGuardado
<1>5. QED BY <1>1, <1>2, <1>3, <1>4 DEF Bueno, EnDisco, Estados

(***************************************************************************)
(* The operations.                                                         *)
(***************************************************************************)
\* Writing to data blocks leaves the object as it was.
LEMMA BloquesEscritos ==
  ASSUME NEW s, MemoriaBuena(s), NEW bs \in Seq(DataBloques), NEW c,
         \A i \in DOMAIN bs : c[i] \in Trozos
  PROVE  /\ MemoriaBuena(escribirBloques(s, bs, c))
         /\ escribirBloques(s, bs, c).directorio = s.directorio
         /\ \A b \in Bloques : b \notin Range(bs) => escribirBloques(s, bs, c).datos[b] = s.datos[b]
         /\ (\A i, j \in DOMAIN bs : bs[i] = bs[j] => i = j)
            => \A i \in DOMAIN bs : escribirBloques(s, bs, c).datos[bs[i]] = c[i]
<1> DEFINE u == escribirBloques(s, bs, c)
           dd == [b \in Bloques |-> IF \E i \in DOMAIN bs : bs[i] = b
                                    THEN c[CHOOSE i \in DOMAIN bs : bs[i] = b]
                                    ELSE s.datos[b]]
<1>1. s \in Estados
  BY DEF MemoriaBuena
<1>2. dd \in [Bloques -> Trozos]
  <2>1. s.datos \in [Bloques -> Trozos]
    BY <1>1 DEF Estados
  <2>2. QED BY <2>1
<1>3. /\ u = [s EXCEPT !.datos = dd,
                       !.legible = s.legible /\ Range(bs) \cap Solape(s.dDirectorio) = {}]
      /\ (s.legible /\ Range(bs) \cap Solape(s.dDirectorio) = {}) \in BOOLEAN
  <2>1. s.legible \in BOOLEAN
    BY <1>1 DEF Estados
  <2>2. QED BY <2>1 DEF escribirBloques
<1>a. \A b \in Bloques : b \notin Range(bs) => dd[b] = s.datos[b]
  BY DEF Range
<1>b. ASSUME \A i, j \in DOMAIN bs : bs[i] = bs[j] => i = j, NEW i \in DOMAIN bs
      PROVE  dd[bs[i]] = c[i]
  <2>1. bs[i] \in Bloques
    <3>1. bs[i] \in DataBloques
      BY ElementOfSeq
    <3>2. QED BY <3>1, Constantes DEF DataBloques, Bloques
  <2>2. (CHOOSE j \in DOMAIN bs : bs[j] = bs[i]) = i
    BY <1>b
  <2>3. QED BY <2>1, <2>2
<1> HIDE DEF dd, u
<1>4. /\ u \in Estados /\ u.datos = dd
      /\ u.directorio = s.directorio /\ u.bitmap = s.bitmap /\ u.nFiles = s.nFiles
  BY <1>1, <1>2, <1>3 DEF Estados
<1>5. MemoriaBuena(u)
  BY <1>4, MismaMemoria
<1>6. \A b \in Bloques : b \notin Range(bs) => u.datos[b] = s.datos[b]
  BY <1>4, <1>a
<1>7. (\A i, j \in DOMAIN bs : bs[i] = bs[j] => i = j) => \A i \in DOMAIN bs : u.datos[bs[i]] = c[i]
  BY <1>4, <1>b
<1>8. QED BY <1>4, <1>5, <1>6, <1>7 DEF u

\* The text that a list of blocks without gaps holds.
Tam(datos, bs) ==
  IF bs = <<>> THEN 0 ELSE (Len(bs) - 1) * TBLOQUE + Len(datos[bs[Len(bs)]])

Deletreado(datos, bs) ==
  [j \in 1 .. Tam(datos, bs) |->
     datos[bs[((j - 1) \div TBLOQUE) + 1]][((j - 1) % TBLOQUE) + 1]]

\* The blocks nb hold in y what bs hold in x, L full blocks and l characters
\* of the next, and then the character c.
Prolonga(x, bs, y, nb, c, L, l) ==
  /\ L \in Nat /\ l \in Nat /\ l < TBLOQUE
  /\ Tam(x, bs) = L * TBLOQUE + l
  /\ Tam(y, nb) = L * TBLOQUE + l + 1
  /\ \A k \in 1 .. L : y[nb[k]] = x[bs[k]]
  /\ \A r \in 1 .. l : y[nb[L + 1]][r] = x[bs[L + 1]][r]
  /\ y[nb[L + 1]][l + 1] = c

\* Slot i of u holds the file that slot j of s held.
Igual(s, j, u, i) ==
  /\ u.directorio[i].nombre = s.directorio[j].nombre
  /\ u.directorio[i].bloques = s.directorio[j].bloques
  /\ \A k \in DOMAIN s.directorio[j].bloques :
       u.datos[s.directorio[j].bloques[k]] = s.datos[s.directorio[j].bloques[k]]

\* Slot q holds file n in s and in u, where its text has one character more;
\* the other slots keep their files.
Alargado(s, q, u, n, c) ==
  /\ s.directorio[q].nombre = n /\ u.directorio[q].nombre = n
  /\ Deletreado(u.datos, u.directorio[q].bloques)
       = Append(Deletreado(s.datos, s.directorio[q].bloques), c)
  /\ \A i \in Slots : i # q => Igual(s, i, u, i)

\* Files that are those of s, or empty, and whose blocks were not written
\* to, have no gaps if those of s had none.
LEMMA Conservado ==
  ASSUME NEW s, Corridos(s), NEW t,
         \A i \in Slots :
           \/ DOMAIN t.directorio[i].bloques = {}
           \/ \E j \in Slots :
                /\ t.directorio[i].bloques = s.directorio[j].bloques
                /\ \A k \in DOMAIN s.directorio[j].bloques :
                     t.datos[s.directorio[j].bloques[k]] = s.datos[s.directorio[j].bloques[k]]
  PROVE  Corridos(t)
<1> SUFFICES ASSUME NEW i \in Slots PROVE Llenos(t.datos, t.directorio[i].bloques)
  BY DEF Corridos
<1>1. CASE DOMAIN t.directorio[i].bloques = {}
  BY <1>1 DEF Llenos
<1>2. ASSUME NEW j \in Slots,
             t.directorio[i].bloques = s.directorio[j].bloques,
             \A k \in DOMAIN s.directorio[j].bloques :
               t.datos[s.directorio[j].bloques[k]] = s.datos[s.directorio[j].bloques[k]]
      PROVE  Llenos(t.datos, t.directorio[i].bloques)
  <2>1. Llenos(s.datos, s.directorio[j].bloques)
    BY DEF Corridos
  <2>2. QED BY <1>2, <2>1 DEF Llenos
<1>3. QED BY <1>1, <1>2

\* The blocks a file of a sound object holds are data blocks, marked, and
\* not those of another file.
LEMMA BloquesPropios ==
  ASSUME NEW s, MemoriaBuena(s), NEW i \in Slots, NEW k \in DOMAIN s.directorio[i].bloques
  PROVE  /\ s.directorio[i].bloques[k] \in Bloques
         /\ s.directorio[i].bloques[k] \in s.bitmap
         /\ \A j \in Slots : j # i => s.directorio[i].bloques[k] \notin Range(s.directorio[j].bloques)
<1> USE Constantes
<1>1. s.directorio[i].bloques \in Seq(DataBloques)
  BY DEF MemoriaBuena, Estados, INodos
<1>2. s.directorio[i].bloques[k] \in Bloques
  BY <1>1, ElementOfSeq DEF DataBloques, Bloques
<1>3. s.directorio[i].bloques[k] \in s.bitmap
  BY <1>2 DEF MemoriaBuena, MarcadosJustos, Usados
<1>4. QED BY <1>2, <1>3 DEF MemoriaBuena, SinCruces, Range

\* crearInodo puts a file without blocks in the first free slot, which is
\* slot nFiles.
LEMMA InodoCreado ==
  ASSUME NEW s, Bueno(s), NEW n \in Nombres
  PROVE  /\ Bueno(crearInodo(s, n))
         /\ n \notin NombresLargos /\ Existe(s, Vacio) => Existe(crearInodo(s, n), n)
         /\ Corridos(s) => Corridos(crearInodo(s, n))
         /\ n \notin NombresLargos /\ ~Existe(s, n) /\ Existe(s, Vacio)
            => \E p \in Slots :
                 /\ s.directorio[p].nombre = Vacio
                 /\ crearInodo(s, n).directorio[p] = INodo(n, <<>>)
                 /\ \A i \in Slots : i # p => Igual(s, i, crearInodo(s, n), i)
<1> USE Constantes
<1> DEFINE p == buscarArchivoPorNombre(s, Vacio)
           t == [s EXCEPT !.directorio[p] = INodo(n, <<>>), !.nFiles = @ + 1]
<1>1. CASE n \in NombresLargos \/ Existe(s, n) \/ ~Existe(s, Vacio)
  BY <1>1 DEF crearInodo
<1>2. CASE n \notin NombresLargos /\ ~Existe(s, n) /\ Existe(s, Vacio)
  <2>1. s \in Estados /\ MemoriaBuena(s) /\ Compacto(s)
    BY DEF Bueno, MemoriaBuena
  <2>2. p \in Slots /\ s.directorio[p].nombre = Vacio
        /\ \A j \in 0 .. p - 1 : s.directorio[j].nombre # Vacio
    BY <1>2, Buscar
  <2>3. p = s.nFiles
    <3>1. p >= s.nFiles
      BY <2>1, <2>2 DEF Compacto, Slots, Estados
    <3>2. s.nFiles \in Slots => s.directorio[s.nFiles].nombre = Vacio
      BY <2>1 DEF Compacto, Slots, Estados
    <3>3. QED BY <3>1, <3>2, <2>1, <2>2 DEF Slots, Estados
  <2>4. INodo(n, <<>>) \in INodos
    BY <1>2 DEF INodo, INodos
  <2> HIDE DEF p
  <2>5. t \in Estados
    <3>1. [s.directorio EXCEPT ![p] = INodo(n, <<>>)] \in [Slots -> INodos]
      BY <2>1, <2>4 DEF Estados
    <3>2. s.nFiles + 1 \in 0 .. TDIRECTORIO
      BY <2>2, <2>3 DEF Slots
    <3>3. t = [s EXCEPT !.directorio = [s.directorio EXCEPT ![p] = INodo(n, <<>>)],
                        !.nFiles = s.nFiles + 1]
      BY <2>1 DEF Estados
    <3>4. QED BY <2>1, <3>1, <3>2, <3>3 DEF Estados
  <2>6. /\ t.directorio = [s.directorio EXCEPT ![p] = INodo(n, <<>>)]
        /\ t.nFiles = s.nFiles + 1 /\ t.bitmap = s.bitmap /\ t.datos = s.datos
        /\ s.directorio[p].bloques = <<>>
    BY <2>1, <2>2, <2>3 DEF Estados, Compacto
  <2>7. s.directorio \in [Slots -> INodos] /\ s.nFiles \in 0 .. TDIRECTORIO
    BY <2>1 DEF Estados
  <2>8. \A i \in Slots : t.directorio[i] = IF i = p THEN INodo(n, <<>>) ELSE s.directorio[i]
    BY <2>6, <2>7
  <2>9. \A i \in Slots : t.directorio[i].bloques = s.directorio[i].bloques
    BY <2>6, <2>8 DEF INodo
  <2> HIDE DEF t
  <2>10. Usados(t) = Usados(s)
    BY <2>9 DEF Usados
  <2>11. Compacto(t)
    <3>1. \A i \in Slots : t.directorio[i].nombre # Vacio <=> i < t.nFiles
      BY <2>1, <2>3, <2>6, <2>7, <2>8, NombresValidos DEF Compacto, INodo, Slots
    <3>2. \A i, j \in 0 .. t.nFiles - 1 :
            t.directorio[i].nombre = t.directorio[j].nombre => i = j
      <4> SUFFICES ASSUME NEW i \in 0 .. t.nFiles - 1, NEW j \in 0 .. t.nFiles - 1,
                          t.directorio[i].nombre = t.directorio[j].nombre
                   PROVE  i = j
        OBVIOUS
      <4>1. i \in Slots /\ j \in Slots /\ i <= p /\ j <= p
        BY <2>2, <2>3, <2>6, <2>7 DEF Slots
      <4>2. \A k \in Slots : s.directorio[k].nombre # n
        BY <1>2 DEF Existe
      <4>3. CASE i = p \/ j = p
        BY <4>1, <4>2, <4>3, <2>8 DEF INodo
      <4>4. CASE i # p /\ j # p
        <5>1. i \in 0 .. s.nFiles - 1 /\ j \in 0 .. s.nFiles - 1
          BY <4>1, <4>4, <2>3, <2>7
        <5>2. s.directorio[i].nombre = s.directorio[j].nombre
          BY <4>1, <4>4, <2>8
        <5>3. QED BY <5>1, <5>2, <2>1 DEF Compacto
      <4>5. QED BY <4>3, <4>4
    <3>3. \A i \in Slots : i >= t.nFiles => t.directorio[i].bloques = <<>>
      BY <2>1, <2>6, <2>7, <2>9 DEF Compacto, Slots
    <3>4. QED BY <3>1, <3>2, <3>3 DEF Compacto
  <2>12. SinCruces(t)
    BY <2>1, <2>9 DEF SinCruces, MemoriaBuena
  <2>13. MemoriaBuena(t)
    BY <2>1, <2>5, <2>6, <2>10, <2>11, <2>12 DEF MemoriaBuena, MarcadosJustos, Bajos
  <2>14. crearInodo(s, n) = guardarBitmap(guardarDirectorio(t))
    BY <1>2 DEF crearInodo, t, p
  <2>15. /\ Bueno(crearInodo(s, n)) /\ crearInodo(s, n).directorio = t.directorio
         /\ crearInodo(s, n).datos = s.datos
    BY <2>6, <2>13, <2>14, TodoGuardado
  <2>16. t.directorio[p].nombre = n
    BY <2>2, <2>8 DEF INodo
  <2>17. Corridos(s) => Corridos(crearInodo(s, n))
    BY <2>9, <2>15 DEF Corridos
  <2>18. \A i \in Slots : i # p => Igual(s, i, crearInodo(s, n), i)
    BY <2>8, <2>15 DEF Igual
  <2>19. crearInodo(s, n).directorio[p] = INodo(n, <<>>)
    BY <2>2, <2>8, <2>15
  <2>20. QED BY <2>2, <2>15, <2>16, <2>17, <2>18, <2>19 DEF Existe
<1>3. QED BY <1>1, <1>2

\* A file exchanges its blocks for a list nb of its own and of free blocks.
LEMMA CambioDeBloques ==
  ASSUME NEW s, MemoriaBuena(s), NEW p \in Slots, s.directorio[p].nombre # Vacio,
         NEW nb \in Seq(DataBloques), Len(nb) <= MaxFile,
         \A k, l \in DOMAIN nb : nb[k] = nb[l] => k = l,
         \A k \in DOMAIN nb : nb[k] \in Range(s.directorio[p].bloques) \/ nb[k] \notin s.bitmap,
         \A k \in DOMAIN nb : nb[k] < EntradasGuardadas,
         NEW t,
         t = [s EXCEPT !.bitmap = (s.bitmap \ Range(s.directorio[p].bloques)) \cup Range(nb),
                       !.directorio = [s.directorio EXCEPT
                                         ![p] = INodo(s.directorio[p].nombre, nb)]]
  PROVE  /\ MemoriaBuena(t)
         /\ t.directorio = [s.directorio EXCEPT ![p] = INodo(s.directorio[p].nombre, nb)]
<1> USE Constantes
<1>1. /\ s \in Estados /\ s.directorio \in [Slots -> INodos] /\ s.bitmap \subseteq Bloques
      /\ SinCruces(s) /\ MarcadosJustos(s) /\ Compacto(s) /\ Bajos(s)
  BY DEF MemoriaBuena, Estados
<1> DEFINE viejos == Range(s.directorio[p].bloques)
           bm == (s.bitmap \ viejos) \cup Range(nb)
           dir == [s.directorio EXCEPT ![p] = INodo(s.directorio[p].nombre, nb)]
<1>a. DataBloques \subseteq Bloques /\ DataBloques \cap Reservados = {}
  BY SMTT(30) DEF DataBloques, Bloques, Reservados
<1>b. /\ \A q \in Slots : \A m \in DOMAIN s.directorio[q].bloques :
            s.directorio[q].bloques[m] \in DataBloques
      /\ \A m \in DOMAIN nb : nb[m] \in DataBloques
  BY <1>1, ElementOfSeq, SMTT(30) DEF INodos
<1>2. dir \in [Slots -> INodos]
  BY <1>1 DEF INodo, INodos
<1>3. bm \in SUBSET Bloques
  <2>1. Range(nb) \subseteq Bloques
    BY <1>a, <1>b, Zenon DEF Range
  <2>2. QED BY <1>1, <2>1
<1>4. t \in Estados /\ t.directorio = dir /\ t.bitmap = bm /\ t.nFiles = s.nFiles
  <2> HIDE DEF bm, dir
  <2>1. t = [s EXCEPT !.bitmap = bm, !.directorio = dir]
    BY DEF bm, dir, viejos
  <2>2. QED BY <1>1, <1>2, <1>3, <2>1 DEF Estados
<1>5. /\ \A i \in Slots : t.directorio[i].nombre = s.directorio[i].nombre
      /\ \A i \in Slots : t.directorio[i].bloques = IF i = p THEN nb ELSE s.directorio[i].bloques
  BY <1>1, <1>4 DEF INodo
<1>6. SinCruces(t)
  <2> SUFFICES ASSUME NEW i \in Slots, NEW j \in Slots,
                      NEW k \in DOMAIN t.directorio[i].bloques,
                      NEW l \in DOMAIN t.directorio[j].bloques,
                      t.directorio[i].bloques[k] = t.directorio[j].bloques[l]
               PROVE  i = j /\ k = l
    BY DEF SinCruces
  <2>1. ASSUME NEW q \in Slots, q # p, NEW m \in DOMAIN s.directorio[q].bloques,
               NEW r \in DOMAIN nb
        PROVE  s.directorio[q].bloques[m] # nb[r]
    <3>1. s.directorio[q].bloques[m] \in Bloques
      BY <1>a, <1>b
    <3>2. s.directorio[q].bloques[m] \in s.bitmap
      BY <1>1, <3>1 DEF MarcadosJustos, Usados
    <3>3. s.directorio[q].bloques[m] \notin viejos
      BY <1>1, <2>1, SMTT(30) DEF SinCruces, Range
    <3>4. QED BY <3>2, <3>3
  <2>2. CASE i = p /\ j = p
    BY <2>2, <1>5
  <2>3. CASE i = p /\ j # p
    BY <2>1, <2>3, <1>5
  <2>4. CASE i # p /\ j = p
    BY <2>1, <2>4, <1>5, SMTT(30)
  <2>5. CASE i # p /\ j # p
    BY <2>5, <1>1, <1>5 DEF SinCruces
  <2>6. QED BY <2>2, <2>3, <2>4, <2>5
<1>7. \A b \in Bloques : b \in Usados(t) <=> b \in Range(nb) \/ (b \in Usados(s) /\ b \notin viejos)
  <2> SUFFICES ASSUME NEW b \in Bloques
               PROVE  b \in Usados(t) <=> b \in Range(nb) \/ (b \in Usados(s) /\ b \notin viejos)
    OBVIOUS
  <2>1. ASSUME b \in Usados(t) PROVE b \in Range(nb) \/ (b \in Usados(s) /\ b \notin viejos)
    <3>1. PICK i \in Slots : \E k \in DOMAIN t.directorio[i].bloques : t.directorio[i].bloques[k] = b
      BY <2>1 DEF Usados
    <3>2. CASE i = p
      BY <3>1, <3>2, <1>5 DEF Range
    <3>3. CASE i # p
      BY <3>1, <3>3, <1>1, <1>5 DEF Usados, SinCruces, Range
    <3>4. QED BY <3>2, <3>3
  <2>2. ASSUME b \in Range(nb) PROVE b \in Usados(t)
    BY <2>2, <1>5 DEF Range, Usados
  <2>3. ASSUME b \in Usados(s), b \notin viejos PROVE b \in Usados(t)
    <3>1. PICK i \in Slots : \E k \in DOMAIN s.directorio[i].bloques : s.directorio[i].bloques[k] = b
      BY <2>3 DEF Usados
    <3>2. i # p
      BY <2>3, <3>1 DEF Range
    <3>3. QED BY <3>1, <3>2, <1>5 DEF Usados
  <2>4. QED BY <2>1, <2>2, <2>3
<1>8. MarcadosJustos(t)
  <2>1. \A b \in viejos : b \notin Reservados /\ b \in Usados(s)
    BY <1>a, <1>b DEF Range, Usados
  <2>2. Usados(t) \subseteq Bloques /\ Usados(s) \subseteq Bloques /\ Range(nb) \subseteq Bloques
    BY <1>a, <1>b DEF Usados, Range
  <2>3. QED BY <1>1, <1>4, <1>7, <2>1, <2>2 DEF MarcadosJustos
<1>9. Bajos(t)
  <2>1. \A b \in Range(nb) : b < EntradasGuardadas
    BY DEF Range
  <2>2. Usados(t) \subseteq Bloques
    BY DEF Usados
  <2>3. QED BY <1>1, <1>7, <2>1, <2>2 DEF Bajos
<1>10. Compacto(t)
  <2>1. s.nFiles \in 0 .. TDIRECTORIO /\ 0 .. s.nFiles - 1 \subseteq Slots
    BY <1>1, SMTT(30) DEF Estados, Slots
  <2>2. p < s.nFiles
    BY <1>1 DEF Compacto
  <2>3. \A i \in Slots : i >= s.nFiles => i # p
    BY <2>1, <2>2 DEF Slots
  <2>4. QED BY <1>1, <1>4, <1>5, <2>1, <2>3 DEF Compacto
<1>11. QED BY <1>4, <1>6, <1>8, <1>9, <1>10 DEF MemoriaBuena

\* A piece of a text fits a block.
LEMMA TrozoCabe ==
  ASSUME NEW d \in Textos, NEW i \in Nat \ {0}
  PROVE  Trozo(d, i) \in Trozos
<1> USE Constantes
<1> DEFINE lo == (i - 1) * TBLOQUE + 1
           hi == IF i * TBLOQUE <= Len(d) THEN i * TBLOQUE ELSE Len(d)
<1>1. d \in Seq(Bytes) /\ Len(d) \in Nat
  BY TextosValidos
<1>2. /\ (i - 1) * TBLOQUE \in Nat /\ i * TBLOQUE \in Nat
      /\ i * TBLOQUE = (i - 1) * TBLOQUE + TBLOQUE
  OBVIOUS
<1>3. lo \in Int /\ hi \in Int /\ lo >= 1 /\ hi <= Len(d) /\ hi - lo + 1 <= TBLOQUE
  BY <1>1, <1>2
<1> HIDE DEF lo, hi
<1>4. \A j \in lo .. hi : d[j] \in Bytes \cup {ByteMeta}
  BY <1>1, <1>3
<1>5. /\ SubSeq(d, lo, hi) \in Seq(Bytes \cup {ByteMeta})
      /\ Len(SubSeq(d, lo, hi)) = IF lo <= hi THEN hi - lo + 1 ELSE 0
  BY <1>3, <1>4, SubSeqProperties
<1>6. SubSeq(d, lo, hi) \in Trozos
  BY <1>3, <1>5 DEF Trozos
<1>7. QED BY <1>6 DEF Trozo, lo, hi

\* The pieces of a text fill their blocks, all but the last, which is not
\* empty.
LEMMA TrozosLlenos ==
  ASSUME NEW d \in Textos, NEW i \in 1 .. BloquesPara(d)
  PROVE  IF i < BloquesPara(d) THEN Len(Trozo(d, i)) = TBLOQUE ELSE Trozo(d, i) # <<>>
<1> USE Constantes
<1> DEFINE k == BloquesPara(d)
           lo == (i - 1) * TBLOQUE + 1
           hi == IF i * TBLOQUE <= Len(d) THEN i * TBLOQUE ELSE Len(d)
<1>1. d \in Seq(Bytes) /\ Len(d) \in Nat
  BY TextosValidos
<1>2. /\ k \in Nat /\ k * TBLOQUE \in Nat
      /\ k * TBLOQUE <= Len(d) + TBLOQUE - 1
      /\ Len(d) + TBLOQUE - 1 < k * TBLOQUE + TBLOQUE
  <2>1. Len(d) + TBLOQUE - 1 \in Nat
    BY <1>1
  <2>2. ASSUME NEW x \in Nat
        PROVE  /\ x \div TBLOQUE \in Nat /\ (x \div TBLOQUE) * TBLOQUE \in Nat
               /\ (x \div TBLOQUE) * TBLOQUE <= x
               /\ x < (x \div TBLOQUE) * TBLOQUE + TBLOQUE
    OBVIOUS
  <2>3. QED BY <2>1, <2>2 DEF BloquesPara
<1> HIDE DEF k
<1>3. i \in Nat /\ 1 <= i /\ i <= k
  BY <1>2 DEF k
<1>4. /\ (i - 1) * TBLOQUE \in Nat /\ i * TBLOQUE \in Nat
      /\ i * TBLOQUE = (i - 1) * TBLOQUE + TBLOQUE
  BY <1>3
<1>5. i < k => i * TBLOQUE + TBLOQUE <= k * TBLOQUE
  <2> SUFFICES ASSUME i < k PROVE i * TBLOQUE + TBLOQUE <= k * TBLOQUE
    OBVIOUS
  <2> DEFINE e == k - i - 1
  <2>1. e \in Nat /\ k = i + 1 + e
    BY <1>2, <1>3
  <2> HIDE DEF e
  <2>2. (i + 1 + e) * TBLOQUE = i * TBLOQUE + TBLOQUE + e * TBLOQUE /\ e * TBLOQUE \in Nat
    BY <1>3, <2>1
  <2>3. QED BY <1>4, <2>1, <2>2
<1>6. /\ lo \in Int /\ hi \in Int /\ lo >= 1 /\ hi <= Len(d) /\ lo <= hi
      /\ i < k => hi - lo + 1 = TBLOQUE
  <2>1. CASE i < k
    BY <2>1, <1>1, <1>2, <1>4, <1>5
  <2>2. CASE i = k
    BY <2>2, <1>1, <1>2, <1>4
  <2>3. QED BY <1>2, <1>3, <2>1, <2>2
<1> HIDE DEF lo, hi
<1>7. \A j \in lo .. hi : d[j] \in Bytes
  BY <1>1, <1>6
<1>8. Len(SubSeq(d, lo, hi)) = hi - lo + 1
  BY <1>6, <1>7, SubSeqProperties
<1>9. Trozo(d, i) = SubSeq(d, lo, hi)
  BY DEF Trozo, lo, hi
<1>10. hi - lo + 1 >= 1 /\ Len(<<>>) = 0
  BY <1>6
<1>11. QED BY <1>3, <1>2, <1>6, <1>8, <1>9, <1>10 DEF k

(***************************************************************************)
(* Texts: what the blocks of a file read.                                  *)
(***************************************************************************)
\* Byte j of a text lies in its block q + 1, at place r + 1.
LEMMA Lugar ==
  ASSUME NEW j \in Nat \ {0}
  PROVE  LET q == (j - 1) \div TBLOQUE
             r == (j - 1) % TBLOQUE
         IN /\ q \in Nat /\ r \in Nat /\ r < TBLOQUE
            /\ q * TBLOQUE \in Nat
            /\ j = q * TBLOQUE + r + 1
            /\ \A L \in Nat : /\ L * TBLOQUE \in Nat
                              /\ j <= L * TBLOQUE => q < L
                              /\ j > L * TBLOQUE => q >= L
                              /\ L * TBLOQUE < j /\ j <= L * TBLOQUE + TBLOQUE => q = L
<1> USE Constantes
<1> DEFINE q == (j - 1) \div TBLOQUE
           r == (j - 1) % TBLOQUE
<1>1. /\ q \in Nat /\ r \in Nat /\ r < TBLOQUE
      /\ q * TBLOQUE \in Nat
      /\ j - 1 = q * TBLOQUE + r
  <2>1. j - 1 \in Nat
    OBVIOUS
  <2>2. ASSUME NEW x \in Nat
        PROVE  /\ x \div TBLOQUE \in Nat /\ x % TBLOQUE \in Nat /\ x % TBLOQUE < TBLOQUE
               /\ (x \div TBLOQUE) * TBLOQUE \in Nat
               /\ x = (x \div TBLOQUE) * TBLOQUE + (x % TBLOQUE)
    OBVIOUS
  <2>3. QED BY <2>1, <2>2
<1> HIDE DEF q, r
<1>2. ASSUME NEW a \in Nat, NEW b \in Nat, a < b
      PROVE  a * TBLOQUE + TBLOQUE <= b * TBLOQUE /\ a * TBLOQUE \in Nat /\ b * TBLOQUE \in Nat
  <2> DEFINE e == b - a - 1
  <2>1. e \in Nat /\ b = a + 1 + e
    BY <1>2
  <2> HIDE DEF e
  <2>2. /\ (a + 1 + e) * TBLOQUE = a * TBLOQUE + TBLOQUE + e * TBLOQUE
        /\ e * TBLOQUE \in Nat /\ a * TBLOQUE \in Nat
    BY <2>1
  <2>3. QED BY <2>1, <2>2
<1>3. ASSUME NEW L \in Nat
      PROVE  /\ L * TBLOQUE \in Nat
             /\ j <= L * TBLOQUE => q < L
             /\ j > L * TBLOQUE => q >= L
  <2>1. L * TBLOQUE \in Nat
    OBVIOUS
  <2>2. q > L => L * TBLOQUE + TBLOQUE <= q * TBLOQUE
    BY <1>1, <1>2
  <2>3. q < L => q * TBLOQUE + TBLOQUE <= L * TBLOQUE
    BY <1>1, <1>2
  <2>4. q = L => q * TBLOQUE = L * TBLOQUE
    OBVIOUS
  <2> DEFINE x == q * TBLOQUE
             y == L * TBLOQUE
  <2> HIDE DEF x, y
  <2>5. /\ j - 1 = x + r /\ x \in Nat /\ y \in Nat /\ r \in Nat /\ r < TBLOQUE
        /\ q > L => y + TBLOQUE <= x
        /\ q < L => x + TBLOQUE <= y
        /\ q = L => x = y
    BY <1>1, <2>1, <2>2, <2>3, <2>4 DEF x, y
  <2>6. (j <= y => q < L) /\ (j > y => q >= L)
    BY <1>1, <2>5
  <2>7. QED BY <2>1, <2>6 DEF y
<1>4. ASSUME NEW L \in Nat, L * TBLOQUE < j, j <= L * TBLOQUE + TBLOQUE
      PROVE  q = L
  <2>1. (L + 1) * TBLOQUE = L * TBLOQUE + TBLOQUE /\ L * TBLOQUE \in Nat
    OBVIOUS
  <2>2. L + 1 \in Nat
    OBVIOUS
  <2>3. q < L + 1 /\ q >= L
    BY <1>3, <1>4, <2>1, <2>2
  <2>4. QED BY <1>1, <2>3
<1>5. j = q * TBLOQUE + r + 1
  <2> DEFINE x == q * TBLOQUE
  <2> HIDE DEF x
  <2>1. j - 1 = x + r /\ x \in Nat /\ r \in Nat
    BY <1>1 DEF x
  <2>2. j = x + r + 1
    BY <2>1
  <2>3. QED BY <2>2 DEF x
<1>6. QED BY <1>1, <1>3, <1>4, <1>5 DEF q, r

\* Under a file without gaps, leer takes every block: what it returns is the
\* file's text.
LEMMA LeidoEntero ==
  ASSUME NEW s, MemoriaBuena(s), Corridos(s), NEW i \in Slots,
         s.directorio[i].nombre # Vacio
  PROVE  /\ leer(s, s.directorio[i].nombre, MaxBloques * TBLOQUE)
              = Deletreado(s.datos, s.directorio[i].bloques)
         /\ Tam(s.datos, s.directorio[i].bloques) \in Nat
<1> USE Constantes
<1> DEFINE n == s.directorio[i].nombre
           p == buscarArchivoPorNombre(s, n)
           bs == s.directorio[i].bloques
           tope == MaxBloques * TBLOQUE
           lleno(k) == Len(s.datos[bs[k]]) = TBLOQUE
           corte == {k \in DOMAIN bs : \A j \in 1 .. k - 1 : lleno(j)}
           total == IF Len(bs) = 0 THEN 0 ELSE (Len(bs) - 1) * TBLOQUE + Len(s.datos[bs[Len(bs)]])
<1>1. Existe(s, n)
  BY DEF Existe
<1>2. p = i
  <2>1. p \in Slots /\ s.directorio[p].nombre = n
    BY <1>1, Buscar
  <2>2. s.nFiles \in 0 .. TDIRECTORIO /\ Compacto(s)
    BY DEF MemoriaBuena, Estados
  <2>3. i < s.nFiles /\ p < s.nFiles
    BY <2>1, <2>2 DEF Compacto
  <2>4. i \in 0 .. s.nFiles - 1 /\ p \in 0 .. s.nFiles - 1
    BY <2>1, <2>2, <2>3 DEF Slots
  <2>5. QED BY <2>1, <2>2, <2>4 DEF Compacto
<1>3. /\ bs \in Seq(DataBloques) /\ Len(bs) \in Nat /\ Len(bs) <= MaxFile
      /\ DOMAIN bs = 1 .. Len(bs) /\ s.datos \in [Bloques -> Trozos]
      /\ Llenos(s.datos, bs)
      /\ \A k \in DOMAIN bs : bs[k] \in Bloques
  <2>1. s.directorio[i] \in INodos /\ s.datos \in [Bloques -> Trozos]
    BY DEF MemoriaBuena, Estados
  <2>2. bs \in Seq(DataBloques) /\ Len(bs) <= MaxFile
    BY <2>1 DEF INodos
  <2>3. \A k \in DOMAIN bs : bs[k] \in Bloques
    BY <2>2, ElementOfSeq DEF DataBloques, Bloques
  <2>4. Llenos(s.datos, bs)
    BY DEF Corridos
  <2>5. QED BY <2>1, <2>2, <2>3, <2>4
<1> HIDE DEF n, p, bs
<1>4. \A k \in 1 .. Len(bs) : k < Len(bs) => lleno(k)
  BY <1>3 DEF Llenos
<1>5. corte = 1 .. Len(bs)
  BY <1>3, <1>4
<1>6. Cardinality(corte) = Len(bs)
  <2>1. \A L \in Nat : Cardinality(1 .. L) = L
    BY FS_Interval
  <2>2. QED BY <1>3, <1>5, <2>1
<1> HIDE DEF corte
<1>7. total \in Nat /\ tope \in Nat /\ total <= tope
  <2>1. tope \in Nat
    OBVIOUS
  <2>2. CASE Len(bs) = 0
    BY <2>1, <2>2
  <2>3. CASE Len(bs) # 0
    <3>1. s.datos[bs[Len(bs)]] \in Trozos
      BY <1>3, <2>3
    <3>2. Len(s.datos[bs[Len(bs)]]) \in Nat /\ Len(s.datos[bs[Len(bs)]]) <= TBLOQUE
      BY <3>1 DEF Trozos
    <3> DEFINE x == Len(bs) - 1
               e == MaxBloques - Len(bs)
    <3>3. x \in Nat /\ e \in Nat /\ MaxBloques = x + 1 + e
      BY <1>3, <2>3
    <3> HIDE DEF x, e
    <3>4. /\ (x + 1 + e) * TBLOQUE = x * TBLOQUE + TBLOQUE + e * TBLOQUE
          /\ x * TBLOQUE \in Nat /\ e * TBLOQUE \in Nat
      BY <3>3
    <3>5. tope = x * TBLOQUE + TBLOQUE + e * TBLOQUE
      BY <3>3, <3>4
    <3>6. total = x * TBLOQUE + Len(s.datos[bs[Len(bs)]])
      BY <2>3 DEF x
    <3> HIDE DEF total, tope
    <3> DEFINE l == Len(s.datos[bs[Len(bs)]])
               z == x * TBLOQUE
               w == e * TBLOQUE
    <3>7. /\ l \in Nat /\ l <= TBLOQUE /\ z \in Nat /\ w \in Nat
          /\ tope = z + TBLOQUE + w /\ total = z + l
      BY <3>2, <3>4, <3>5, <3>6
    <3> HIDE DEF l, z, w
    <3>8. QED BY <2>1, <3>7
  <2>4. QED BY <2>2, <2>3
<1>8. total = Tam(s.datos, bs)
  BY <1>3 DEF Tam
<1> HIDE DEF total, tope
<1>9. leer(s, n, tope)
        = [j \in 1 .. (IF tope <= total THEN tope ELSE total) |->
             s.datos[bs[((j - 1) \div TBLOQUE) + 1]][((j - 1) % TBLOQUE) + 1]]
  BY <1>1, <1>2, <1>6 DEF leer, bs, p, n, corte, total
<1>10. (IF tope <= total THEN tope ELSE total) = total
  BY <1>7
<1>11. leer(s, n, tope) = Deletreado(s.datos, bs)
  BY <1>8, <1>9, <1>10 DEF Deletreado
<1>12. QED BY <1>7, <1>8, <1>11 DEF n, bs, tope

\* Two lists of blocks that hold the same read the same.
LEMMA MismoTexto ==
  ASSUME NEW x, NEW y, NEW bs, bs \in Seq(Bloques),
         \A k \in DOMAIN bs : x[bs[k]] = y[bs[k]],
         Tam(x, bs) \in Nat, \A k \in DOMAIN bs : Len(x[bs[k]]) <= TBLOQUE,
         \A k \in DOMAIN bs : Len(x[bs[k]]) \in Nat
  PROVE  Deletreado(x, bs) = Deletreado(y, bs)
<1> USE Constantes
<1>1. DOMAIN bs = 1 .. Len(bs) /\ Len(bs) \in Nat
  OBVIOUS
<1>2. Tam(x, bs) = Tam(y, bs)
  <2>1. CASE bs = <<>>
    BY <2>1 DEF Tam
  <2>2. CASE bs # <<>>
    <3>1. Len(bs) \in DOMAIN bs
      BY <1>1, <2>2
    <3>2. QED BY <2>2, <3>1 DEF Tam
  <2>3. QED BY <2>1, <2>2
<1>3. ASSUME NEW j \in 1 .. Tam(x, bs)
      PROVE  ((j - 1) \div TBLOQUE) + 1 \in DOMAIN bs
  <2>1. j <= Len(bs) * TBLOQUE /\ j \in Nat \ {0}
    <3>1. bs # <<>>
      <4>1. bs = <<>> => Tam(x, bs) = 0
        BY DEF Tam
      <4>2. Tam(x, bs) # 0
        BY <1>3
      <4>3. QED BY <4>1, <4>2
    <3>2. Len(bs) \in DOMAIN bs
      BY <1>1, <3>1
    <3> DEFINE e == Len(bs) - 1
    <3>3. e \in Nat /\ Len(bs) = e + 1
      BY <1>1, <3>2
    <3> HIDE DEF e
    <3>4. (e + 1) * TBLOQUE = e * TBLOQUE + TBLOQUE /\ e * TBLOQUE \in Nat
      BY <3>3
    <3>5. Tam(x, bs) = e * TBLOQUE + Len(x[bs[Len(bs)]])
      BY <3>1 DEF Tam, e
    <3>6. Len(x[bs[Len(bs)]]) <= TBLOQUE /\ Len(x[bs[Len(bs)]]) \in Nat
      BY <3>2
    <3> DEFINE l == Len(x[bs[Len(bs)]])
               z == e * TBLOQUE
    <3>7. l <= TBLOQUE /\ l \in Nat /\ z \in Nat /\ j \in 1 .. z + l
      BY <1>3, <3>4, <3>5, <3>6
    <3> HIDE DEF l, z
    <3>8. j <= z + TBLOQUE /\ j \in Nat \ {0}
      BY <3>7
    <3>9. Len(bs) * TBLOQUE = z + TBLOQUE
      BY <3>3, <3>4 DEF z
    <3>10. QED BY <3>8, <3>9
  <2>2. /\ (j - 1) \div TBLOQUE \in Nat
        /\ (j - 1) \div TBLOQUE < Len(bs)
    BY <1>1, <2>1, Lugar
  <2>3. QED BY <1>1, <2>2
<1>4. \A j \in 1 .. Tam(x, bs) :
        x[bs[((j - 1) \div TBLOQUE) + 1]][((j - 1) % TBLOQUE) + 1]
          = y[bs[((j - 1) \div TBLOQUE) + 1]][((j - 1) % TBLOQUE) + 1]
  BY <1>3
<1>5. QED BY <1>2, <1>4 DEF Deletreado

\* A text cut in pieces over its blocks reads back as it was.
LEMMA TextoEscrito ==
  ASSUME NEW d \in Textos, NEW x, NEW bs, bs \in Seq(Bloques),
         Len(bs) = BloquesPara(d),
         \A k \in DOMAIN bs : x[bs[k]] = Trozo(d, k)
  PROVE  Deletreado(x, bs) = d
<1> USE Constantes
<1> DEFINE K == BloquesPara(d)
           N == Len(d)
<1>1. /\ d \in Seq(Bytes) /\ N \in Nat /\ DOMAIN d = 1 .. N
      /\ DOMAIN bs = 1 .. K /\ K \in Nat
  BY TextosValidos
<1>2. K * TBLOQUE \in Nat /\ N <= K * TBLOQUE /\ K * TBLOQUE < N + TBLOQUE
  <2>1. N + TBLOQUE - 1 \in Nat
    BY <1>1
  <2>2. ASSUME NEW y \in Nat
        PROVE  /\ (y \div TBLOQUE) * TBLOQUE \in Nat
               /\ (y \div TBLOQUE) * TBLOQUE <= y
               /\ y < (y \div TBLOQUE) * TBLOQUE + TBLOQUE
    OBVIOUS
  <2>3. /\ K * TBLOQUE \in Nat
        /\ K * TBLOQUE <= N + TBLOQUE - 1
        /\ N + TBLOQUE - 1 < K * TBLOQUE + TBLOQUE
    BY <2>1, <2>2 DEF BloquesPara
  <2> DEFINE z == K * TBLOQUE
  <2> HIDE DEF K, N, z
  <2>4. z \in Nat /\ z <= N + TBLOQUE - 1 /\ N + TBLOQUE - 1 < z + TBLOQUE
    BY <2>3 DEF z
  <2>5. N <= z /\ z < N + TBLOQUE
    BY <1>1, <2>4
  <2>6. QED BY <2>3, <2>5 DEF z
\* The characters of each piece.
<1>3. ASSUME NEW q \in Nat, q < K
      PROVE  LET hi == IF q * TBLOQUE + TBLOQUE <= N THEN TBLOQUE ELSE N - q * TBLOQUE
             IN /\ q * TBLOQUE \in Nat /\ q * TBLOQUE < N
                /\ Len(Trozo(d, q + 1)) = hi
                /\ \A r \in Nat : r < hi => Trozo(d, q + 1)[r + 1] = d[q * TBLOQUE + r + 1]
  <2> DEFINE z == q * TBLOQUE
             hi == IF z + TBLOQUE <= N THEN z + TBLOQUE ELSE N
             e == K - q - 1
  <2>1. e \in Nat /\ K = q + 1 + e
    BY <1>1, <1>3
  <2> HIDE DEF K, N, e
  <2>2. /\ (q + 1 + e) * TBLOQUE = z + TBLOQUE + e * TBLOQUE
        /\ z \in Nat /\ e * TBLOQUE \in Nat
        /\ (q + 1) * TBLOQUE = z + TBLOQUE
    BY <2>1
  <2>3. z < N
    <3> DEFINE w == e * TBLOQUE
               v == K * TBLOQUE
    <3>1. v = z + TBLOQUE + w /\ w \in Nat
      BY <2>1, <2>2
    <3>2. v < N + TBLOQUE
      BY <1>2
    <3> HIDE DEF v, w, z
    <3>3. QED BY <1>1, <2>2, <3>1, <3>2
  <2>4. Trozo(d, q + 1) = SubSeq(d, z + 1, hi)
    <3>1. (q + 1) - 1 = q
      OBVIOUS
    <3>2. ((q + 1) - 1) * TBLOQUE = z
      BY <3>1
    <3>3. Trozo(d, q + 1)
            = SubSeq(d, ((q + 1) - 1) * TBLOQUE + 1,
                     IF (q + 1) * TBLOQUE <= Len(d) THEN (q + 1) * TBLOQUE ELSE Len(d))
      BY Zenon DEF Trozo
    <3>4. (q + 1) * TBLOQUE = z + TBLOQUE
      BY <2>2
    <3> HIDE DEF z
    <3>5. QED BY <3>2, <3>3, <3>4, Zenon DEF N
  <2> HIDE DEF z
  <2>5. /\ hi \in Nat /\ z + 1 <= hi /\ hi <= N /\ z \in Nat
    BY <1>1, <2>2, <2>3
  <2>6. \A j \in z + 1 .. hi : d[j] \in Bytes
    <3>1. \A j \in z + 1 .. hi : j \in 1 .. N
      BY <1>1, <2>5
    <3>2. QED BY <1>1, <3>1
  <2>a. z + 1 \in Int /\ hi \in Int
    BY <2>5
  <2> DEFINE lo == z + 1
  <2>b. lo = z + 1 /\ lo \in Int /\ lo <= hi
    BY <2>a, <2>5
  <2> HIDE DEF hi
  <2>7. /\ Len(SubSeq(d, lo, hi)) = hi - lo + 1
        /\ \A j \in 1 .. hi - lo + 1 : SubSeq(d, lo, hi)[j] = d[lo + j - 1]
    <3> HIDE DEF lo
    <3>1. \A j \in lo .. hi : d[j] \in Bytes
      BY <2>6, <2>b
    <3>2. QED BY <2>a, <2>b, <3>1, SubSeqProperties
  <2> HIDE DEF lo
  <2>8. Len(Trozo(d, q + 1)) = hi - z
    BY <2>4, <2>5, <2>7, <2>b
  <2>9. ASSUME NEW r \in Nat, r < hi - z
        PROVE  Trozo(d, q + 1)[r + 1] = d[z + r + 1]
    <3>1. r + 1 \in 1 .. hi - lo + 1 /\ lo + (r + 1) - 1 = z + r + 1
      BY <2>5, <2>9, <2>b
    <3>2. SubSeq(d, lo, hi)[r + 1] = d[lo + (r + 1) - 1]
      BY <2>7, <3>1
    <3>3. QED BY <2>4, <2>b, <3>1, <3>2
  <2>10. hi - z = IF z + TBLOQUE <= N THEN TBLOQUE ELSE N - z
    BY <1>1, <2>2 DEF hi
  <2>11. QED BY <2>2, <2>3, <2>8, <2>9, <2>10 DEF z
<1> HIDE DEF K, N
<1>4. Tam(x, bs) = N
  <2>1. CASE K = 0
    <3>1. K * TBLOQUE = 0
      BY <2>1
    <3>2. N = 0
      BY <1>1, <1>2, <3>1
    <3>3. bs = <<>>
      BY <2>1 DEF K
    <3>4. QED BY <3>2, <3>3 DEF Tam
  <2>2. CASE K # 0
    <3> DEFINE q == K - 1
               z == q * TBLOQUE
    <3>1. q \in Nat /\ q < K /\ K = q + 1 /\ K \in DOMAIN bs /\ Len(bs) = K
      BY <1>1, <2>2 DEF K
    <3> HIDE DEF q
    <3>2. /\ z \in Nat /\ z < N
          /\ Len(Trozo(d, q + 1)) = IF z + TBLOQUE <= N THEN TBLOQUE ELSE N - z
      BY <1>3, <3>1
    <3>3. K * TBLOQUE = z + TBLOQUE
      BY <3>1
    <3>4. Len(x[bs[K]]) = Len(Trozo(d, q + 1))
      BY <3>1
    <3>5. Tam(x, bs) = z + Len(Trozo(d, q + 1))
      <4>1. bs # <<>>
        BY <1>1, <3>1
      <4>2. Len(bs) - 1 = q
        BY <3>1
      <4>3. QED BY <3>1, <3>4, <4>1, <4>2 DEF Tam
    <3> HIDE DEF z
    <3>6. QED BY <1>1, <1>2, <3>2, <3>3, <3>5
  <2>3. QED BY <2>1, <2>2
<1>5. ASSUME NEW j \in 1 .. N
      PROVE  x[bs[((j - 1) \div TBLOQUE) + 1]][((j - 1) % TBLOQUE) + 1] = d[j]
  <2> DEFINE q == (j - 1) \div TBLOQUE
             r == (j - 1) % TBLOQUE
             z == q * TBLOQUE
  <2>1. j \in Nat \ {0} /\ j <= K * TBLOQUE
    BY <1>1, <1>2
  <2>2. /\ q \in Nat /\ r \in Nat /\ r < TBLOQUE /\ z \in Nat /\ j = z + r + 1 /\ q < K
    BY <1>1, <2>1, Lugar
  <2> HIDE DEF q, r
  <2>3. /\ z < N
        /\ \A t \in Nat : t < (IF z + TBLOQUE <= N THEN TBLOQUE ELSE N - z)
             => Trozo(d, q + 1)[t + 1] = d[z + t + 1]
    BY <1>3, <2>2
  <2> HIDE DEF z
  <2>4. r < (IF z + TBLOQUE <= N THEN TBLOQUE ELSE N - z)
    BY <1>1, <2>1, <2>2
  <2>5. Trozo(d, q + 1)[r + 1] = d[j]
    BY <2>2, <2>3, <2>4
  <2>6. q + 1 \in DOMAIN bs
    BY <1>1, <2>2
  <2>7. QED BY <2>5, <2>6 DEF q, r
<1>6. d = [j \in 1 .. N |-> d[j]]
  BY <1>1
<1>7. QED BY <1>4, <1>5, <1>6 DEF Deletreado

\* One character more in the last block, or in a block of its own, is one
\* character more at the end of the text.
LEMMA TextoAgregado ==
  ASSUME NEW x, NEW y, NEW bs, NEW nb, NEW c, NEW L, NEW l,
         Prolonga(x, bs, y, nb, c, L, l)
  PROVE  Deletreado(y, nb) = Append(Deletreado(x, bs), c)
<1> USE DEF Prolonga
<1> USE Constantes
<1> DEFINE N == L * TBLOQUE + l
           ant(j) == x[bs[((j - 1) \div TBLOQUE) + 1]][((j - 1) % TBLOQUE) + 1]
           sig(j) == y[nb[((j - 1) \div TBLOQUE) + 1]][((j - 1) % TBLOQUE) + 1]
<1>1. N \in Nat /\ L * TBLOQUE \in Nat
  OBVIOUS
<1>2. Deletreado(x, bs) = [j \in 1 .. N |-> ant(j)] /\ Deletreado(y, nb) = [j \in 1 .. N + 1 |-> sig(j)]
  BY DEF Deletreado
<1>3. ASSUME NEW j \in 1 .. N + 1
      PROVE  sig(j) = IF j <= N THEN ant(j) ELSE c
  <2> DEFINE q == (j - 1) \div TBLOQUE
             r == (j - 1) % TBLOQUE
             z == L * TBLOQUE
             w == q * TBLOQUE
  <2>1. j \in Nat \ {0} /\ z \in Nat /\ N = z + l /\ j <= z + TBLOQUE
    <3> HIDE DEF N
    <3>1. z \in Nat /\ N = z + l
      BY <1>1 DEF N
    <3> HIDE DEF z
    <3>2. QED BY <3>1, <1>3
  <2>2. /\ q \in Nat /\ r \in Nat /\ w \in Nat /\ j = w + r + 1
        /\ j <= z => q < L
        /\ z < j /\ j <= z + TBLOQUE => q = L
    BY <2>1, Lugar
  <2>3. sig(j) = y[nb[q + 1]][r + 1] /\ ant(j) = x[bs[q + 1]][r + 1]
    OBVIOUS
  <2>4. q = L => w = z
    OBVIOUS
  <2> HIDE DEF q, r, z, w, N, sig, ant
  <2>5. CASE j <= z
    <3>1. q + 1 \in 1 .. L /\ j <= N
      BY <2>1, <2>2, <2>5
    <3>2. QED BY <2>3, <3>1
  <2>6. CASE z < j /\ j <= N
    <3>1. q = L /\ r + 1 \in 1 .. l
      BY <2>1, <2>2, <2>4, <2>6
    <3>2. QED BY <2>3, <2>6, <3>1
  <2>7. CASE j = N + 1
    <3>1. q = L /\ r = l /\ ~(j <= N)
      BY <1>1, <2>1, <2>2, <2>4, <2>7
    <3>2. QED BY <2>3, <3>1
  <2>8. j \in Nat /\ j <= N + 1
    BY <1>1, <1>3
  <2>9. QED BY <1>1, <2>1, <2>5, <2>6, <2>7, <2>8
<1> HIDE DEF ant, sig, N
<1>4. /\ Deletreado(x, bs) \in Seq({ant(j) : j \in 1 .. N} \cup {c})
      /\ Len(Deletreado(x, bs)) = N
  BY <1>1, <1>2
<1>5. Append(Deletreado(x, bs), c) = [j \in 1 .. N + 1 |-> IF j <= N THEN ant(j) ELSE c]
  <2> DEFINE S == {ant(j) : j \in 1 .. N} \cup {c}
             t == Deletreado(x, bs)
             A == Append(t, c)
  <2>1. t \in Seq(S) /\ c \in S /\ Len(t) = N
    BY <1>4
  <2>2. \A j \in 1 .. N : t[j] = ant(j)
    BY <1>2
  <2> HIDE DEF S, t
  <2>3. /\ A \in Seq(S) /\ Len(A) = N + 1
        /\ \A j \in 1 .. N : A[j] = t[j]
        /\ A[N + 1] = c
    BY <2>1, AppendProperties
  <2> HIDE DEF A
  <2>4. A = [j \in 1 .. N + 1 |-> A[j]]
    BY <2>3
  <2>5. \A j \in 1 .. N + 1 : A[j] = IF j <= N THEN ant(j) ELSE c
    BY <1>1, <2>2, <2>3
  <2>6. A = [j \in 1 .. N + 1 |-> IF j <= N THEN ant(j) ELSE c]
    BY <2>4, <2>5
  <2>7. QED BY <2>6 DEF A, t
<1>6. QED BY <1>2, <1>3, <1>5

(***************************************************************************)
(* Writing, deleting, renaming.                                            *)
(***************************************************************************)
\* The blocks an allocation gives are free, different, and data blocks.
LEMMA BloquesAsignados ==
  ASSUME NEW s, MemoriaBuena(s), NEW k \in 0 .. MaxFile, NEW a \in Asignaciones(s, k)
  PROVE  /\ a \in Seq(DataBloques) /\ Len(a) = k /\ DOMAIN a = 1 .. k
         /\ \A i, j \in 1 .. k : a[i] = a[j] => i = j
         /\ \A i \in 1 .. k : a[i] \notin s.bitmap /\ a[i] < EntradasGuardadas
<1> USE Constantes
<1>1. a \in [1 .. k -> Libres(s)] /\ \A i, j \in 1 .. k : i < j => a[i] < a[j]
  BY DEF Asignaciones
<1>2. Libres(s) \subseteq DataBloques /\ Libres(s) \subseteq Nat
  BY DEF Libres, DataBloques, MemoriaBuena, MarcadosJustos, Reservados
<1>3. a \in [1 .. k -> DataBloques]
  BY <1>1, <1>2
<1>4. a \in Seq(DataBloques) /\ Len(a) = k /\ DOMAIN a = 1 .. k
  BY <1>3
<1>5. \A i, j \in 1 .. k : a[i] = a[j] => i = j
  BY <1>1, <1>2
<1>6. \A i \in 1 .. k : a[i] \notin s.bitmap
  BY <1>1 DEF Libres
<1>7. \A i \in 1 .. k : a[i] < EntradasGuardadas
  BY AsignadosBajos
<1>8. QED BY <1>4, <1>5, <1>6, <1>7

\* escribir on a file that exists gives it its new blocks and saves.
LEMMA EscrituraBuena ==
  ASSUME NEW s, Bueno(s), NEW n \in Nombres, Existe(s, n), NEW d \in Textos,
         NEW u \in escribir(s, n, d)
  PROVE  /\ Bueno(u)
         /\ Corridos(s) => Corridos(u)
         /\ u = s \/ \E p \in Slots :
                       /\ s.directorio[p].nombre = n /\ u.directorio[p].nombre = n
                       /\ Deletreado(u.datos, u.directorio[p].bloques) = d
                       /\ \A i \in Slots : i # p => Igual(s, i, u, i)
<1> USE Constantes
<1> DEFINE p == buscarArchivoPorNombre(s, n)
           k == BloquesPara(d)
<1>1. p \in Slots /\ s.directorio[p].nombre = n /\ n # Vacio
  BY Buscar, NombresValidos
<1>2. MemoriaBuena(s) /\ s \in Estados /\ k \in 0 .. MaxFile
  BY MaxFileValido DEF Bueno, MemoriaBuena
<1>3. CASE u = s
  BY <1>3
<1>4. ASSUME NEW a \in Asignaciones(s, k), u = escribirEn(s, p, n, d, a)
      PROVE  /\ Bueno(u) /\ (Corridos(s) => Corridos(u))
             /\ u.directorio[p].nombre = n
             /\ Deletreado(u.datos, u.directorio[p].bloques) = d
             /\ \A i \in Slots : i # p => Igual(s, i, u, i)
  <2> HIDE DEF p, k
  <2>1. /\ a \in Seq(DataBloques) /\ Len(a) = k /\ DOMAIN a = 1 .. k
        /\ \A i, j \in 1 .. k : a[i] = a[j] => i = j
        /\ \A i \in 1 .. k : a[i] \notin s.bitmap /\ a[i] < EntradasGuardadas
    BY <1>2, BloquesAsignados
  <2>2. Len(a) <= MaxBloques /\ SubSeq(a, 1, Len(a)) = a
    BY <1>2, <2>1, SubSeqFull
  <2> DEFINE viejos == Range(s.directorio[p].bloques)
             m == [s EXCEPT !.bitmap = (s.bitmap \ viejos) \cup Range(a),
                            !.directorio = [s.directorio EXCEPT ![p] = INodo(n, a)]]
             c == [i \in DOMAIN a |-> Trozo(d, i)]
  <2>3. viejos \subseteq s.bitmap /\ Range(a) \cap s.bitmap = {}
    <3>1. s.directorio[p] \in INodos
      BY <1>1, <1>2 DEF Estados
    <3>2. viejos \subseteq Bloques
      BY <3>1, ElementOfSeq DEF INodos, Range, DataBloques, Bloques
    <3>3. viejos \subseteq s.bitmap
      BY <1>1, <1>2, <3>2 DEF MemoriaBuena, MarcadosJustos, Usados, Range
    <3>4. QED BY <3>3, <2>1 DEF Range
  <2>4. MemoriaBuena(m)
    <3>1. /\ Len(a) <= MaxFile
          /\ \A i, j \in DOMAIN a : a[i] = a[j] => i = j
          /\ \A i \in DOMAIN a : a[i] \notin s.bitmap
          /\ \A i \in DOMAIN a : a[i] < EntradasGuardadas
      BY <1>2, <2>1
    <3>2. m = [s EXCEPT !.bitmap = (s.bitmap \ Range(s.directorio[p].bloques)) \cup Range(a),
                        !.directorio = [s.directorio EXCEPT
                                          ![p] = INodo(s.directorio[p].nombre, a)]]
      BY <1>1
    <3> HIDE DEF m
    <3>3. QED BY <1>1, <1>2, <2>1, <3>1, <3>2, CambioDeBloques
  <2>5. \A i \in DOMAIN a : c[i] \in Trozos
    BY <2>1, <1>2, TrozoCabe
  <2>6. (s.bitmap \cup Range(a)) \ viejos = (s.bitmap \ viejos) \cup Range(a)
    BY <2>3
  <2>7. m = [s EXCEPT !.bitmap = (@ \cup Range(a)) \ viejos, !.directorio[p] = INodo(n, a)]
    BY <1>2, <2>6 DEF Estados
  <2>8. u = guardarDirectorio(guardarBitmap(escribirBloques(m, a, c)))
    BY <1>1, <1>4, <2>2, <2>7 DEF escribirEn
  <2>a. /\ m.datos = s.datos
        /\ \A i \in Slots : m.directorio[i].bloques = IF i = p THEN a ELSE s.directorio[i].bloques
        /\ \A i \in Slots : m.directorio[i].nombre = s.directorio[i].nombre
    BY <1>1, <1>2 DEF Estados, INodo
  <2>b. \A i \in 1 .. k : IF i < k THEN Len(c[i]) = TBLOQUE ELSE c[i] # <<>>
    BY <2>1, TrozosLlenos DEF k
  <2> HIDE DEF m, c
  <2>9. /\ MemoriaBuena(escribirBloques(m, a, c))
        /\ escribirBloques(m, a, c).directorio = m.directorio
        /\ \A b \in Bloques : b \notin Range(a) => escribirBloques(m, a, c).datos[b] = s.datos[b]
        /\ \A i \in 1 .. k : escribirBloques(m, a, c).datos[a[i]] = c[i]
    BY <2>1, <2>4, <2>5, <2>a, BloquesEscritos
  <2>10. Bueno(u) /\ u.directorio = m.directorio /\ u.datos = escribirBloques(m, a, c).datos
    BY <2>8, <2>9, TodoGuardado
  <2>11. ASSUME Corridos(s), NEW i \in Slots PROVE Llenos(u.datos, u.directorio[i].bloques)
    <3>1. CASE i = p
      BY <3>1, <2>1, <2>9, <2>10, <2>a, <2>b DEF Llenos
    <3>2. CASE i # p
      <4>1. Llenos(s.datos, s.directorio[i].bloques)
        BY <2>11 DEF Corridos
      <4>2. ASSUME NEW l \in DOMAIN s.directorio[i].bloques
            PROVE  u.datos[s.directorio[i].bloques[l]] = s.datos[s.directorio[i].bloques[l]]
        <5>1. /\ s.directorio[i].bloques[l] \in Bloques
              /\ s.directorio[i].bloques[l] \in s.bitmap
          BY <1>2, BloquesPropios
        <5>2. QED BY <5>1, <2>3, <2>9, <2>10
      <4>3. u.directorio[i].bloques = s.directorio[i].bloques
        BY <3>2, <2>10, <2>a
      <4>4. QED BY <4>1, <4>2, <4>3 DEF Llenos
    <3>3. QED BY <3>1, <3>2
  <2>12. ASSUME NEW i \in Slots, i # p PROVE Igual(s, i, u, i)
    <3>1. ASSUME NEW l \in DOMAIN s.directorio[i].bloques
          PROVE  u.datos[s.directorio[i].bloques[l]] = s.datos[s.directorio[i].bloques[l]]
      <4>1. /\ s.directorio[i].bloques[l] \in Bloques
            /\ s.directorio[i].bloques[l] \in s.bitmap
        BY <1>2, BloquesPropios
      <4>2. QED BY <4>1, <2>3, <2>9, <2>10
    <3>2. QED BY <3>1, <2>10, <2>12, <2>a DEF Igual
  <2>13. Deletreado(u.datos, u.directorio[p].bloques) = d
    <3>1. u.directorio[p].bloques = a
      BY <1>1, <2>10, <2>a
    <3>2. \A i \in DOMAIN a : u.datos[a[i]] = Trozo(d, i)
      BY <2>1, <2>9, <2>10 DEF c
    <3>3. a \in Seq(Bloques) /\ Len(a) = BloquesPara(d)
      <4>1. DataBloques \subseteq Bloques
        BY DEF DataBloques, Bloques
      <4>2. \A i \in 1 .. k : a[i] \in Bloques
        BY <2>1, <4>1, ElementOfSeq
      <4>3. QED BY <2>1, <4>2 DEF k
    <3>4. QED BY <3>1, <3>2, <3>3, TextoEscrito
  <2>14. u.directorio[p].nombre = n
    BY <1>1, <2>10, <2>a
  <2>15. QED BY <2>10, <2>11, <2>12, <2>13, <2>14 DEF Corridos
<1>5. QED BY <1>1, <1>3, <1>4 DEF escribir

\* Writing to one data block changes that block.
LEMMA UnBloque ==
  ASSUME NEW s, MemoriaBuena(s), NEW e \in DataBloques, NEW z \in Trozos,
         NEW es \in Seq(DataBloques), DOMAIN es = {1}, es[1] = e, NEW zs, zs[1] = z,
         NEW u, u = escribirBloques(s, es, zs)
  PROVE  /\ MemoriaBuena(u) /\ u.directorio = s.directorio
         /\ u.datos[e] = z
         /\ \A b \in Bloques : b # e => u.datos[b] = s.datos[b]
<1>1. \A i \in DOMAIN es : zs[i] \in Trozos
  OBVIOUS
<1>3. \A b : b \in Range(es) <=> b = e
  BY <1>1 DEF Range
<1>4. \A i, j \in DOMAIN es : es[i] = es[j] => i = j
  BY <1>1
<1>5. /\ MemoriaBuena(u) /\ u.directorio = s.directorio
      /\ \A b \in Bloques : b \notin Range(es) => u.datos[b] = s.datos[b]
      /\ \A i \in DOMAIN es : u.datos[es[i]] = zs[i]
  BY <1>1, <1>4, BloquesEscritos
<1>6. u.datos[e] = z
  BY <1>5
<1>7. QED BY <1>3, <1>5, <1>6

\* A block that is not full takes one byte more.
LEMMA TrozoMasLargo ==
  ASSUME NEW tr \in Trozos, Len(tr) < TBLOQUE, NEW c \in Bytes
  PROVE  Append(tr, c) \in Trozos
<1>1. tr \in Seq(Bytes \cup {ByteMeta}) /\ c \in Bytes \cup {ByteMeta}
  BY DEF Trozos
<1>2. /\ Append(tr, c) \in Seq(Bytes \cup {ByteMeta})
      /\ Len(Append(tr, c)) = Len(tr) + 1 /\ Len(tr) \in Nat
  BY <1>1
<1>3. Len(Append(tr, c)) <= TBLOQUE
  BY <1>2, Constantes
<1> QED BY <1>2, <1>3 DEF Trozos

\* agregar within the file's last block, or with one block more.
LEMMA AgregadoBueno ==
  ASSUME NEW s, Bueno(s), NEW n \in Nombres, Existe(s, n), NEW c \in Bytes,
         LET bs == BloquesDe(s, n)
         IN Len(bs) < MaxFile \/ (bs # <<>> /\ Len(s.datos[bs[Len(bs)]]) < TBLOQUE)
  PROVE  /\ Bueno(agregar(s, n, c))
         /\ Corridos(s) => Corridos(agregar(s, n, c))
         /\ Corridos(s) =>
              \/ agregar(s, n, c) = s
              \/ \E q \in Slots : Alargado(s, q, agregar(s, n, c), n, c)
<1> USE Constantes
<1> DEFINE p == buscarArchivoPorNombre(s, n)
           bs == s.directorio[p].bloques
           ultimo == bs[Len(bs)]
           b == buscarBloqueLibre(s)
           t == [s EXCEPT !.directorio[p].bloques = Append(bs, b),
                          !.bitmap = @ \cup {b}]
<1>1. p \in Slots /\ s.directorio[p].nombre = n /\ n # Vacio
  BY Buscar, NombresValidos
<1>2. /\ MemoriaBuena(s) /\ s \in Estados /\ s.directorio[p] \in INodos
      /\ bs \in Seq(DataBloques) /\ Len(bs) <= MaxFile /\ Len(bs) \in Nat
      /\ s.datos \in [Bloques -> Trozos]
      /\ SinCruces(s) /\ MarcadosJustos(s)
  <2>1. MemoriaBuena(s) /\ s \in Estados
    BY DEF Bueno, MemoriaBuena
  <2>2. s.directorio[p] \in INodos
    BY <1>1, <2>1 DEF Estados
  <2>3. QED BY <2>1, <2>2 DEF INodos, Estados, MemoriaBuena
<1>3. \A i \in DOMAIN bs : bs[i] \in DataBloques /\ bs[i] \in Bloques /\ bs[i] \in s.bitmap
  <2>1. \A i \in DOMAIN bs : bs[i] \in DataBloques
    BY <1>2, ElementOfSeq
  <2>2. DataBloques \subseteq Bloques
    BY DEF DataBloques, Bloques
  <2>3. \A i \in DOMAIN bs : bs[i] \in Usados(s)
    BY <1>1, <2>1, <2>2 DEF Usados
  <2>4. QED BY <1>2, <2>1, <2>2, <2>3 DEF MarcadosJustos
<1>4. CASE bs # <<>> /\ Len(s.datos[ultimo]) < TBLOQUE
  <2>1. ultimo \in DataBloques /\ ultimo \in Bloques
    BY <1>2, <1>3, <1>4
  <2>2. s.datos[ultimo] \in Seq(Bytes \cup {ByteMeta}) /\ s.datos[ultimo] \in Trozos
    BY <1>2, <2>1 DEF Trozos
  <2>3. Append(s.datos[ultimo], c) \in Trozos
    BY <1>4, <2>2, TrozoMasLargo
  <2> DEFINE es == <<ultimo>>
             zs == <<Append(s.datos[ultimo], c)>>
             u == escribirBloques(s, es, zs)
  <2>4. agregar(s, n, c) = u
    BY <1>4 DEF agregar, obtenerUltimoBloque
  <2> HIDE DEF ultimo
  <2>5. /\ es \in Seq(DataBloques) /\ DOMAIN es = {1} /\ es[1] = ultimo
        /\ zs[1] = Append(s.datos[ultimo], c)
    <3>1. es \in Seq(DataBloques) /\ Len(es) = 1 /\ es[1] = ultimo
      BY <2>1
    <3>2. QED BY <3>1
  <2>6. u = escribirBloques(s, es, zs)
    OBVIOUS
  <2> HIDE DEF es, zs, u
  <2>7. /\ MemoriaBuena(u) /\ u.directorio = s.directorio
        /\ \A e \in Bloques : e # ultimo => u.datos[e] = s.datos[e]
        /\ u.datos[ultimo] = Append(s.datos[ultimo], c)
    <3> DEFINE z == Append(s.datos[ultimo], c)
    <3>1. z \in Trozos /\ zs[1] = z
      BY <2>3, <2>5
    <3>2. SUFFICES /\ MemoriaBuena(u) /\ u.directorio = s.directorio
                   /\ \A e \in Bloques : e # ultimo => u.datos[e] = s.datos[e]
                   /\ u.datos[ultimo] = z
      OBVIOUS
    <3>3. es \in Seq(DataBloques) /\ DOMAIN es = {1} /\ es[1] = ultimo
      BY <2>5
    <3> HIDE DEF z
    <3>4. QED BY <1>2, <2>1, <2>6, <3>1, <3>3, UnBloque
  <2>8. Solape(s.dDirectorio) = {}
    BY <1>2, SinSolape DEF Estados
  <2>9. EnDisco(u)
    <3>1. /\ u.directorio = s.directorio /\ u.bitmap = s.bitmap
          /\ u.dDirectorio = s.dDirectorio /\ u.dBitmap = s.dBitmap
          /\ u.legible = (s.legible /\ Range(es) \cap Solape(s.dDirectorio) = {})
      BY <1>2 DEF escribirBloques, Estados, u
    <3>2. QED BY <3>1, <2>8 DEF EnDisco, Bueno
  <2>10. ASSUME Corridos(s), NEW i \in Slots PROVE Llenos(u.datos, u.directorio[i].bloques)
    <3>1. Llenos(s.datos, s.directorio[i].bloques)
      BY <2>10 DEF Corridos
    <3>2. Append(s.datos[ultimo], c) # <<>>
      BY <2>2
    <3>3. CASE i = p
      <4>1. \A l \in DOMAIN bs : l < Len(bs) => bs[l] # ultimo
        BY <1>1, <1>2 DEF SinCruces, ultimo
      <4>2. \A l \in DOMAIN bs : l = Len(bs) => bs[l] = ultimo
        BY DEF ultimo
      <4>3. \A l \in DOMAIN bs : l \in 1 .. Len(bs)
        BY <1>2
      <4>4. QED BY <3>1, <3>2, <3>3, <4>1, <4>2, <4>3, <1>2, <1>3, <2>7 DEF Llenos
    <3>4. CASE i # p
      <4>1. Len(bs) \in DOMAIN bs
        BY <1>2, <1>4
      <4>2. ASSUME NEW l \in DOMAIN s.directorio[i].bloques
            PROVE  u.datos[s.directorio[i].bloques[l]] = s.datos[s.directorio[i].bloques[l]]
        <5>1. s.directorio[i].bloques[l] \in Bloques /\ s.directorio[i].bloques[l] \notin Range(bs)
          BY <1>1, <1>2, <3>4, BloquesPropios
        <5>2. ultimo \in Range(bs)
          BY <4>1 DEF Range, ultimo
        <5>3. QED BY <5>1, <5>2, <2>7
      <4>3. QED BY <3>1, <4>2, <2>7 DEF Llenos
    <3>5. QED BY <3>3, <3>4
  <2>11. ASSUME NEW i \in Slots, i # p PROVE Igual(s, i, u, i)
    <3>1. Len(bs) \in DOMAIN bs
      BY <1>2, <1>4
    <3>2. ASSUME NEW l \in DOMAIN s.directorio[i].bloques
          PROVE  u.datos[s.directorio[i].bloques[l]] = s.datos[s.directorio[i].bloques[l]]
      <4>1. s.directorio[i].bloques[l] \in Bloques /\ s.directorio[i].bloques[l] \notin Range(bs)
        BY <1>1, <1>2, <2>11, BloquesPropios
      <4>2. ultimo \in Range(bs)
        BY <3>1 DEF Range, ultimo
      <4>3. QED BY <4>1, <4>2, <2>7
    <3>3. QED BY <3>2, <2>7 DEF Igual
  <2>12. Deletreado(u.datos, bs) = Append(Deletreado(s.datos, bs), c)
    <3> DEFINE L == Len(bs) - 1
               l == Len(s.datos[ultimo])
               z == Append(s.datos[ultimo], c)
    <3>1. L \in Nat /\ Len(bs) = L + 1 /\ L + 1 \in DOMAIN bs /\ bs[L + 1] = ultimo
      BY <1>2, <1>4 DEF ultimo
    <3>2. l \in Nat /\ l < TBLOQUE
      BY <1>4, <2>2 DEF ultimo
    <3>3. /\ Len(z) = l + 1 /\ z[l + 1] = c
          /\ \A r \in 1 .. l : z[r] = s.datos[ultimo][r]
      <4>1. c \in Bytes \cup {ByteMeta}
        OBVIOUS
      <4>2. QED BY <2>2, <4>1, AppendProperties
    <3>4. Tam(s.datos, bs) = L * TBLOQUE + l
      BY <1>4, <3>1 DEF Tam
    <3>5. Tam(u.datos, bs) = L * TBLOQUE + l + 1
      <4>1. Tam(u.datos, bs) = L * TBLOQUE + Len(z)
        BY <1>4, <2>7, <3>1 DEF Tam
      <4> HIDE DEF L, z, l
      <4>2. L * TBLOQUE \in Nat
        BY <3>1
      <4>3. QED BY <3>2, <3>3, <4>1, <4>2
    <3>6. \A k \in 1 .. L : u.datos[bs[k]] = s.datos[bs[k]]
      <4>1. \A k \in DOMAIN bs : k # L + 1 => bs[k] # ultimo
        BY <1>1, <1>2, <3>1 DEF SinCruces
      <4>2. \A k \in 1 .. L : k \in DOMAIN bs /\ k # L + 1
        BY <1>2, <3>1
      <4>3. QED BY <1>3, <2>7, <4>1, <4>2
    <3> HIDE DEF L, l, z, bs
    <3>7. u.datos[bs[L + 1]] = z /\ s.datos[bs[L + 1]] = s.datos[ultimo]
      BY <2>7, <3>1 DEF z
    <3> DEFINE x == s.datos
               y == u.datos
    <3>8. Prolonga(x, bs, y, bs, c, L, l)
      BY <3>1, <3>2, <3>3, <3>4, <3>5, <3>6, <3>7 DEF Prolonga
    <3> HIDE DEF x, y
    <3>9. Deletreado(y, bs) = Append(Deletreado(x, bs), c)
      BY <3>8, TextoAgregado, SMTT(60)
    <3>10. QED BY <3>9 DEF x, y
  <2>13. Alargado(s, p, u, n, c)
    BY <1>1, <2>7, <2>11, <2>12 DEF Alargado
  <2>14. QED BY <1>1, <2>4, <2>7, <2>9, <2>10, <2>13 DEF Bueno, Corridos
<1>5. CASE /\ ~ (bs # <<>> /\ Len(s.datos[ultimo]) < TBLOQUE)
           /\ Libres(s) = {} \/ Len(bs) = MaxBloques
  BY <1>5 DEF agregar, obtenerUltimoBloque
<1>6. CASE /\ ~ (bs # <<>> /\ Len(s.datos[ultimo]) < TBLOQUE)
           /\ Libres(s) # {} /\ Len(bs) # MaxBloques
  <2>1. Len(bs) < MaxFile
    BY <1>6 DEF BloquesDe
  <2>2. b \in Libres(s) /\ \A e \in Libres(s) : b <= e
    BY <1>6, BloqueLibre
  <2> HIDE DEF b
  <2>3. /\ b \in DataBloques /\ b \in Bloques /\ b \notin s.bitmap /\ b \in Nat
        /\ b > firstDataBlock /\ b < CANTIDADBLOQUES
    BY <2>2, <1>2 DEF Libres, MarcadosJustos, Reservados, DataBloques, Bloques
  <2>4. b < EntradasGuardadas
    <3> DEFINE a == [i \in 1 .. 1 |-> b]
    <3>1. ASSUME NEW e \in firstDataBlock + 1 .. b
          PROVE  e \in Usados(s) \/ e \in Range(a)
      <4>1. CASE e \in s.bitmap
        BY <4>1, <3>1, <1>2 DEF MarcadosJustos, Reservados
      <4>2. CASE e \notin s.bitmap
        <5>1. e \in Libres(s)
          BY <4>2, <2>3 DEF Libres
        <5>2. e = b
          BY <5>1, <2>2, <2>3, <3>1
        <5>3. QED BY <5>2 DEF Range
      <4>3. QED BY <4>1, <4>2
    <3>2. 1 \in 0 .. MaxFile /\ a \in [1 .. 1 -> Nat]
      BY <2>1, <2>3, <1>2
    <3>3. b <= firstDataBlock + (TDIRECTORIO + 1) * MaxFile
      BY <1>2, <2>3, <3>1, <3>2, Alcance
    <3>4. (TDIRECTORIO + 1) * MaxFile \in Nat
      OBVIOUS
    <3>5. QED BY <2>3, <3>3, <3>4, BitmapAlcanza
  <2> DEFINE nb == Append(bs, b)
  <2>5. /\ nb \in Seq(DataBloques) /\ Len(nb) = Len(bs) + 1
        /\ \A i \in 1 .. Len(bs) : nb[i] = bs[i]
        /\ nb[Len(bs) + 1] = b
    BY <1>2, <2>3, AppendProperties, SMTT(30)
  <2>6. /\ Len(nb) <= MaxFile
        /\ DOMAIN nb = 1 .. Len(bs) + 1 /\ DOMAIN bs = 1 .. Len(bs)
    <3>1. Len(nb) <= MaxFile
      BY <1>2, <2>1, <2>5
    <3>2. DOMAIN nb = 1 .. Len(bs) + 1 /\ DOMAIN bs = 1 .. Len(bs)
      BY <1>2, <2>5, LenProperties
    <3>3. QED BY <3>1, <3>2
  <2>7. Range(nb) = Range(bs) \cup {b} /\ Range(bs) \subseteq s.bitmap
    <3> HIDE DEF nb, bs
    <3>1. ASSUME NEW e \in Range(nb) PROVE e \in Range(bs) \cup {b}
      BY <1>2, <2>5, <2>6 DEF Range
    <3>2. ASSUME NEW e \in Range(bs) PROVE e \in Range(nb)
      BY <1>2, <2>5, <2>6 DEF Range
    <3>3. b \in Range(nb)
      BY <1>2, <2>5, <2>6 DEF Range
    <3>4. Range(bs) \subseteq s.bitmap
      BY <1>3 DEF Range, bs
    <3>5. QED BY <3>1, <3>2, <3>3, <3>4
  <2>8. MemoriaBuena(t)
    <3>1. \A i, j \in DOMAIN nb : nb[i] = nb[j] => i = j
      <4>1. \A i, j \in DOMAIN bs : bs[i] = bs[j] => i = j
        BY <1>1, <1>2 DEF SinCruces
      <4>2. \A i \in DOMAIN bs : bs[i] # b
        BY <1>3, <2>3
      <4> HIDE DEF nb, bs
      <4>3. QED BY <1>2, <2>5, <2>6, <4>1, <4>2
    <3>2. \A i \in DOMAIN nb : nb[i] \in Range(bs) \/ nb[i] \notin s.bitmap
      <4> HIDE DEF nb, bs
      <4>1. QED BY <2>3, <2>7 DEF Range
    <3>3. \A i \in DOMAIN nb : nb[i] < EntradasGuardadas
      <4>1. \A i \in DOMAIN bs : bs[i] < EntradasGuardadas
        <5>1. \A i \in DOMAIN bs : bs[i] \in Usados(s)
          BY <1>1, <1>3 DEF Usados
        <5>2. Bajos(s)
          BY <1>2 DEF MemoriaBuena
        <5>3. QED BY <5>1, <5>2 DEF Bajos
      <4> HIDE DEF nb, bs
      <4>2. QED BY <1>2, <2>4, <2>5, <2>6, <4>1
    <3>4. (s.bitmap \ Range(bs)) \cup Range(nb) = s.bitmap \cup {b}
      BY <2>7
    <3>5. [s.directorio EXCEPT ![p].bloques = nb]
            = [s.directorio EXCEPT ![p] = INodo(s.directorio[p].nombre, nb)]
      <4> HIDE DEF nb, p, bs
      <4>1. \A z \in INodos : [z EXCEPT !.bloques = nb] = INodo(z.nombre, nb)
        BY DEF INodo, INodos
      <4>2. [s.directorio[p] EXCEPT !.bloques = nb] = INodo(s.directorio[p].nombre, nb)
        BY <1>2, <4>1
      <4>3. QED BY <4>2
    <3>6. t = [s EXCEPT !.bitmap = (s.bitmap \ Range(bs)) \cup Range(nb),
                        !.directorio = [s.directorio EXCEPT
                                          ![p] = INodo(s.directorio[p].nombre, nb)]]
      BY <1>2, <3>4, <3>5 DEF Estados
    <3> HIDE DEF t
    <3>7. QED BY <1>1, <1>2, <2>5, <2>6, <3>1, <3>2, <3>3, <3>6, CambioDeBloques
  <2> HIDE DEF t
  <2>9. <<c>> \in Trozos
    BY DEF Trozos
  <2>10. /\ t.datos = s.datos
         /\ \A i \in Slots : t.directorio[i].bloques = IF i = p THEN nb ELSE s.directorio[i].bloques
    <3> HIDE DEF nb, p, bs
    <3>1. \A z \in INodos : [z EXCEPT !.bloques = nb].bloques = nb
      BY DEF INodos
    <3>2. t = [s EXCEPT !.directorio = [s.directorio EXCEPT ![p].bloques = nb],
                        !.bitmap = s.bitmap \cup {b}]
      BY DEF t, nb, bs
    <3>3. QED BY <1>1, <1>2, <3>1, <3>2 DEF Estados
\* What the new block does to a file system without gaps.
  <2>a. ASSUME Corridos(s), NEW v, v.directorio = t.directorio,
               v.datos[b] = <<c>>, \A e \in Bloques : e # b => v.datos[e] = s.datos[e]
        PROVE  Corridos(v)
    <3> SUFFICES ASSUME NEW i \in Slots PROVE Llenos(v.datos, v.directorio[i].bloques)
      BY DEF Corridos
    <3>1. Llenos(s.datos, s.directorio[i].bloques)
      BY <2>a DEF Corridos
    <3>2. CASE i = p
      <4> HIDE DEF nb, bs
      <4>1. v.directorio[i].bloques = nb
        BY <2>a, <2>10, <3>2
      <4>2. ASSUME NEW l \in 1 .. Len(bs) PROVE Len(v.datos[nb[l]]) = TBLOQUE
        <5>1. nb[l] = bs[l] /\ bs[l] \in Bloques /\ bs[l] # b /\ l \in DOMAIN bs
          BY <1>3, <2>3, <2>5, <2>6
        <5>2. s.datos[bs[l]] \in Trozos /\ Len(s.datos[bs[l]]) \in Nat
          BY <1>2, <5>1 DEF Trozos
        <5>3. Llenos(s.datos, bs)
          BY <3>1, <3>2 DEF bs
        <5>4. CASE l < Len(bs)
          BY <5>1, <5>3, <5>4, <2>a DEF Llenos
        <5>5. CASE l = Len(bs)
          <6>1. bs # <<>> /\ bs[l] = ultimo
            BY <5>1, <5>5 DEF ultimo
          <6>2. ~(Len(s.datos[ultimo]) < TBLOQUE)
            BY <1>6, <6>1 DEF bs
          <6>3. Len(s.datos[bs[l]]) <= TBLOQUE
            BY <5>2 DEF Trozos
          <6>4. QED BY <5>1, <5>2, <6>1, <6>2, <6>3, <2>a
        <5>6. QED BY <1>2, <5>4, <5>5
      <4>3. <<c>> # <<>>
        OBVIOUS
      <4>4. ASSUME NEW l \in DOMAIN nb
            PROVE  IF l < Len(nb) THEN Len(v.datos[nb[l]]) = TBLOQUE ELSE v.datos[nb[l]] # <<>>
        <5>1. CASE l \in 1 .. Len(bs)
          BY <5>1, <1>2, <2>5, <4>2
        <5>2. CASE l = Len(bs) + 1
          <6>1. v.datos[nb[l]] = <<c>> /\ ~(l < Len(nb))
            BY <5>2, <1>2, <2>5, <2>a
          <6>2. QED BY <4>3, <6>1
        <5>3. QED BY <1>2, <2>6, <5>1, <5>2
      <4>5. QED BY <4>1, <4>4 DEF Llenos
    <3>3. CASE i # p
      <4>1. v.directorio[i].bloques = s.directorio[i].bloques
        BY <2>a, <2>10, <3>3
      <4>2. ASSUME NEW l \in DOMAIN s.directorio[i].bloques
            PROVE  v.datos[s.directorio[i].bloques[l]] = s.datos[s.directorio[i].bloques[l]]
        BY <1>2, <2>3, <2>a, BloquesPropios
      <4>3. QED BY <3>1, <4>1, <4>2 DEF Llenos
    <3>4. QED BY <3>2, <3>3
\* And to the texts.
  <2>c. ASSUME Corridos(s), NEW v, v.directorio = t.directorio,
               v.datos[b] = <<c>>, \A e \in Bloques : e # b => v.datos[e] = s.datos[e]
        PROVE  Alargado(s, p, v, n, c)
    <3>1. \A i \in Slots : v.directorio[i].nombre = s.directorio[i].nombre
      <4>1. \A i \in Slots : t.directorio[i].nombre = s.directorio[i].nombre
        <5> HIDE DEF nb, p, bs
        <5>1. \A z \in INodos : [z EXCEPT !.bloques = nb].nombre = z.nombre
          BY DEF INodos
        <5>2. t = [s EXCEPT !.directorio = [s.directorio EXCEPT ![p].bloques = nb],
                            !.bitmap = s.bitmap \cup {b}]
          BY DEF t, nb, bs
        <5>3. QED BY <1>1, <1>2, <5>1, <5>2 DEF Estados
      <4>2. QED BY <2>c, <4>1
    <3>2. ASSUME NEW i \in Slots, i # p PROVE Igual(s, i, v, i)
      <4>1. v.directorio[i].bloques = s.directorio[i].bloques
        BY <2>c, <2>10, <3>2
      <4>2. ASSUME NEW l \in DOMAIN s.directorio[i].bloques
            PROVE  v.datos[s.directorio[i].bloques[l]] = s.datos[s.directorio[i].bloques[l]]
        BY <1>2, <2>3, <2>c, BloquesPropios
      <4>3. QED BY <3>1, <4>1, <4>2 DEF Igual
    <3>3. Deletreado(v.datos, nb) = Append(Deletreado(s.datos, bs), c)
      <4> DEFINE L == Len(bs)
      <4>1. L \in Nat /\ Len(nb) = L + 1 /\ nb # <<>>
        BY <1>2, <2>5
      <4>2. Tam(s.datos, bs) = L * TBLOQUE
        <5>1. CASE bs = <<>>
          BY <5>1 DEF Tam
        <5>2. CASE bs # <<>>
          <6>1. L \in DOMAIN bs /\ ultimo = bs[L]
            BY <1>2, <5>2
          <6>2. Len(s.datos[bs[L]]) = TBLOQUE
            <7>1. s.datos[bs[L]] \in Trozos
              BY <1>2, <1>3, <6>1
            <7>2. Len(s.datos[bs[L]]) \in Nat /\ Len(s.datos[bs[L]]) <= TBLOQUE
              <8>1. \A z \in Trozos : Len(z) \in Nat /\ Len(z) <= TBLOQUE
                BY DEF Trozos
              <8>2. QED BY <7>1, <8>1
            <7>3. ~(Len(s.datos[bs[L]]) < TBLOQUE)
              BY <1>6, <5>2, <6>1
            <7>4. QED BY <7>2, <7>3
          <6> DEFINE e == L - 1
          <6>3. e \in Nat /\ L = e + 1
            BY <1>2, <6>1
          <6> HIDE DEF e
          <6>4. (e + 1) * TBLOQUE = e * TBLOQUE + TBLOQUE
            BY <6>3
          <6>5. Tam(s.datos, bs) = e * TBLOQUE + Len(s.datos[bs[L]])
            BY <5>2 DEF Tam, e
          <6>6. QED BY <6>2, <6>3, <6>4, <6>5
        <5>3. QED BY <5>1, <5>2
      <4>3. v.datos[nb[L + 1]] = <<c>>
        BY <2>5, <2>c
      <4>4. Tam(v.datos, nb) = L * TBLOQUE + 1
        <5>1. Tam(v.datos, nb) = (Len(nb) - 1) * TBLOQUE + Len(v.datos[nb[Len(nb)]])
          BY <4>1 DEF Tam
        <5>2. Len(<<c>>) = 1 /\ Len(nb) - 1 = L
          BY <4>1
        <5> HIDE DEF L, nb
        <5>3. QED BY <4>1, <4>3, <5>1, <5>2
      <4>5. \A k \in 1 .. L : v.datos[nb[k]] = s.datos[bs[k]]
        <5> HIDE DEF nb, bs
        <5>1. \A k \in 1 .. L : k \in DOMAIN bs /\ nb[k] = bs[k]
          BY <2>5, <2>6
        <5>2. \A k \in DOMAIN bs : bs[k] \in Bloques /\ bs[k] # b
          BY <1>3, <2>3
        <5>3. QED BY <2>c, <5>1, <5>2
      <4>6. v.datos[nb[L + 1]][0 + 1] = c
        <5>1. <<c>>[1] = c
          BY Z3
        <5> HIDE DEF L, nb, bs
        <5>2. 0 + 1 = 1
          BY Z3
        <5> QED BY <4>3, <5>1, <5>2, Zenon
      <4>7. 0 < TBLOQUE /\ 0 \in Nat
        OBVIOUS
      <4>8. L * TBLOQUE = L * TBLOQUE + 0 /\ L * TBLOQUE + 1 = L * TBLOQUE + 0 + 1
        <5> HIDE DEF L
        <5>1. L * TBLOQUE \in Nat
          BY <4>1
        <5>2. QED BY <5>1
      <4>9. \A r \in 1 .. 0 : v.datos[nb[L + 1]][r] = s.datos[bs[L + 1]][r]
        <5> HIDE DEF L, nb, bs
        <5>1. \A r : r \notin 1 .. 0
          BY Z3
        <5> QED BY <5>1, Zenon
      <4> HIDE DEF L, nb, bs
      <4>10. Tam(s.datos, bs) = L * TBLOQUE + 0 /\ Tam(v.datos, nb) = L * TBLOQUE + 0 + 1
        BY <4>2, <4>4, <4>8
      <4> DEFINE x == s.datos
                 y == v.datos
      <4>11. Prolonga(x, bs, y, nb, c, L, 0)
        BY <4>1, <4>5, <4>6, <4>7, <4>9, <4>10 DEF Prolonga
      <4> HIDE DEF x, y
      <4>12. Deletreado(y, nb) = Append(Deletreado(x, bs), c)
        BY <4>11, TextoAgregado, SMTT(60)
      <4>13. QED BY <4>12 DEF x, y
    <3>4. QED BY <1>1, <2>c, <2>10, <3>1, <3>2, <3>3 DEF Alargado
  <2> DEFINE es == <<b>>
             zs == << <<c>> >>
  <2>b. es \in Seq(DataBloques) /\ DOMAIN es = {1} /\ es[1] = b /\ zs[1] = <<c>>
    <3>1. es \in Seq(DataBloques) /\ Len(es) = 1 /\ es[1] = b
      BY <2>3
    <3>2. QED BY <3>1
  <2> HIDE DEF es, zs
  <2>11. CASE bs = <<>>
    <3> DEFINE w == escribirBloques(t, es, zs)
               v == guardarDirectorio(guardarBitmap(w))
    <3>1. agregar(s, n, c) = v
      BY <1>6, <2>11 DEF agregar, obtenerUltimoBloque, t, b, es, zs
    <3> HIDE DEF v
    <3>2. /\ MemoriaBuena(w) /\ w.directorio = t.directorio /\ w.datos[b] = <<c>>
          /\ \A e \in Bloques : e # b => w.datos[e] = t.datos[e]
      <4>1. w = escribirBloques(t, es, zs)
        OBVIOUS
      <4> HIDE DEF w
      <4>2. QED BY <2>3, <2>8, <2>9, <2>b, <4>1, UnBloque
    <3> HIDE DEF w
    <3>3. Bueno(v) /\ v.directorio = w.directorio /\ v.datos = w.datos
      BY <3>2, TodoGuardado DEF v
    <3>4. Corridos(s) => Corridos(v) /\ Alargado(s, p, v, n, c)
      BY <2>10, <2>a, <2>c, <3>2, <3>3
    <3>5. QED BY <1>1, <3>1, <3>3, <3>4
  <2>12. CASE bs # <<>>
    <3> DEFINE g == guardarDirectorio(guardarBitmap(t))
               u == escribirBloques(g, es, zs)
    <3>1. agregar(s, n, c) = u
      BY <1>6, <2>12 DEF agregar, obtenerUltimoBloque, t, b, es, zs
    <3>a. u = escribirBloques(g, es, zs)
      OBVIOUS
    <3> HIDE DEF u
    <3>2. Bueno(g) /\ g.directorio = t.directorio /\ g.datos = t.datos
      BY <2>8, TodoGuardado
    <3> HIDE DEF g
    <3>3. MemoriaBuena(g) /\ EnDisco(g) /\ g \in Estados
      BY <3>2 DEF Bueno, MemoriaBuena
    <3>4. /\ MemoriaBuena(u) /\ u.directorio = g.directorio /\ u.datos[b] = <<c>>
          /\ \A e \in Bloques : e # b => u.datos[e] = g.datos[e]
      BY <2>3, <2>9, <2>b, <3>a, <3>3, UnBloque
    <3>5. Solape(g.dDirectorio) = {}
      BY <3>3, SinSolape DEF Estados
    <3>6. /\ u.bitmap = g.bitmap
          /\ u.dDirectorio = g.dDirectorio /\ u.dBitmap = g.dBitmap
          /\ u.legible = (g.legible /\ Range(es) \cap Solape(g.dDirectorio) = {})
      BY <3>3 DEF escribirBloques, Estados, u
    <3>7. EnDisco(u)
      BY <3>3, <3>4, <3>5, <3>6 DEF EnDisco
    <3>8. Corridos(s) => Corridos(u) /\ Alargado(s, p, u, n, c)
      BY <2>10, <2>a, <2>c, <3>2, <3>4
    <3>9. QED BY <1>1, <3>1, <3>4, <3>7, <3>8 DEF Bueno
  <2>13. QED BY <2>11, <2>12
<1>7. QED BY <1>4, <1>5, <1>6

\* eliminar releases the file's blocks and closes the gap with the last
\* file: its name is gone and a slot is free.
LEMMA Eliminado ==
  ASSUME NEW s, Bueno(s), NEW n \in Nombres, Existe(s, n)
  PROVE  /\ Bueno(eliminar(s, n))
         /\ ~Existe(eliminar(s, n), n)
         /\ Existe(eliminar(s, n), Vacio)
         /\ Corridos(s) => Corridos(eliminar(s, n))
         /\ \A i \in Slots :
              \/ eliminar(s, n).directorio[i].nombre = Vacio
              \/ \E j \in Slots : Igual(s, j, eliminar(s, n), i)
         /\ \A j \in Slots :
              \/ s.directorio[j].nombre = n
              \/ \E i \in Slots : Igual(s, j, eliminar(s, n), i)
<1> USE Constantes
<1> DEFINE p == buscarArchivoPorNombre(s, n)
           bs == Range(s.directorio[p].bloques)
           fin == s.nFiles - 1
           dir == IF p < fin THEN [s.directorio EXCEPT ![p] = s.directorio[fin]]
                  ELSE s.directorio
           nd == [dir EXCEPT ![fin] = INodoVacio]
           dat == [b \in Bloques |-> IF b \in bs THEN <<>> ELSE s.datos[b]]
           t == [s EXCEPT !.bitmap = s.bitmap \ bs, !.datos = dat,
                          !.directorio = nd, !.nFiles = fin]
<1>1. p \in Slots /\ s.directorio[p].nombre = n /\ n # Vacio
  BY Buscar, NombresValidos
<1>2. /\ MemoriaBuena(s) /\ s \in Estados
      /\ SinCruces(s) /\ MarcadosJustos(s) /\ Compacto(s) /\ Bajos(s)
  BY DEF Bueno, MemoriaBuena
<1>3. /\ s.directorio \in [Slots -> INodos] /\ s.bitmap \subseteq Bloques
      /\ s.nFiles \in 0 .. TDIRECTORIO /\ s.datos \in [Bloques -> Trozos]
  BY <1>2 DEF Estados
<1>4. p < s.nFiles
  BY <1>1, <1>2 DEF Compacto
<1>5. fin \in Slots /\ p <= fin
  BY <1>1, <1>3, <1>4 DEF Slots
<1>6. INodoVacio \in INodos /\ <<>> \in Trozos
  BY DEF INodoVacio, INodo, INodos, Trozos
<1> HIDE DEF p, fin
<1>7. /\ nd \in [Slots -> INodos]
      /\ \A i \in Slots : nd[i] = IF i = fin THEN INodoVacio
                                  ELSE IF i = p THEN s.directorio[fin] ELSE s.directorio[i]
  BY <1>1, <1>3, <1>5, <1>6 DEF Slots
<1>8. /\ t \in Estados /\ t.directorio = nd /\ t.bitmap = s.bitmap \ bs /\ t.nFiles = fin
      /\ \A b \in Bloques : b \notin bs => t.datos[b] = s.datos[b]
  <2>1. dat \in [Bloques -> Trozos]
    BY <1>3, <1>6
  <2>2. fin \in 0 .. TDIRECTORIO
    BY <1>5 DEF Slots
  <2>3. s.bitmap \ bs \in SUBSET Bloques
    BY <1>3
  <2>4. \A b \in Bloques : b \notin bs => dat[b] = s.datos[b]
    OBVIOUS
  <2> HIDE DEF nd, dat, bs
  <2>5. QED BY <1>2, <1>7, <2>1, <2>2, <2>3, <2>4 DEF Estados
<1>9. /\ fin # p => s.directorio[fin].nombre # n
      /\ \A i \in Slots : i # p => s.directorio[i].nombre # n
  <2>1. \A i \in Slots : i < s.nFiles <=> i \in 0 .. s.nFiles - 1
    BY <1>3 DEF Slots
  <2>2. \A i \in Slots : s.directorio[i].nombre = n => i < s.nFiles
    BY <1>1, <1>2 DEF Compacto
  <2>3. \A i \in Slots : s.directorio[i].nombre = n => i = p
    BY <1>1, <1>2, <1>4, <2>1, <2>2 DEF Compacto
  <2>4. QED BY <1>5, <2>3
\* Where each file of the new directory was in the old one.
<1> DEFINE de(i) == IF i = p THEN fin ELSE i
<1>10. /\ INodoVacio.bloques = <<>> /\ INodoVacio.nombre = Vacio /\ DOMAIN INodoVacio.bloques = {}
       /\ \A i \in Slots : i # fin => nd[i] = s.directorio[de(i)] /\ de(i) \in Slots /\ de(i) # p
       /\ \A i, j \in Slots : i # fin /\ j # fin /\ de(i) = de(j) => i = j
  BY <1>5, <1>7 DEF INodoVacio, INodo
<1> HIDE DEF t, nd
<1>11. SinCruces(t)
  <2> SUFFICES ASSUME NEW i \in Slots, NEW j \in Slots,
                      NEW k \in DOMAIN nd[i].bloques, NEW l \in DOMAIN nd[j].bloques,
                      nd[i].bloques[k] = nd[j].bloques[l]
               PROVE  i = j /\ k = l
    BY <1>8 DEF SinCruces
  <2>1. i # fin /\ j # fin
    BY <1>7, <1>10
  <2>2. de(i) = de(j) /\ k = l
    BY <1>2, <1>10, <2>1 DEF SinCruces
  <2>3. QED BY <1>10, <2>1, <2>2
<1>12. \A b \in Bloques : b \in Usados(t) <=> b \in Usados(s) /\ b \notin bs
  <2> SUFFICES ASSUME NEW b \in Bloques
               PROVE  b \in Usados(t) <=> b \in Usados(s) /\ b \notin bs
    OBVIOUS
  <2>1. ASSUME b \in Usados(t) PROVE b \in Usados(s) /\ b \notin bs
    <3>1. PICK i \in Slots : \E k \in DOMAIN nd[i].bloques : nd[i].bloques[k] = b
      BY <2>1, <1>8 DEF Usados
    <3>2. i # fin
      BY <1>7, <1>10, <3>1
    <3>3. PICK k \in DOMAIN s.directorio[de(i)].bloques : s.directorio[de(i)].bloques[k] = b
      BY <1>10, <3>1, <3>2
    <3>4. b \in Usados(s)
      BY <1>10, <3>2, <3>3 DEF Usados
    <3>5. b \notin bs
      BY <1>1, <1>2, <1>10, <3>2, <3>3 DEF SinCruces, Range
    <3>6. QED BY <3>4, <3>5
  <2>2. ASSUME b \in Usados(s), b \notin bs PROVE b \in Usados(t)
    <3>1. PICK i \in Slots : \E k \in DOMAIN s.directorio[i].bloques : s.directorio[i].bloques[k] = b
      BY <2>2 DEF Usados
    <3>2. i # p
      BY <2>2, <3>1 DEF Range
    <3>3. CASE i = fin
      <4>1. nd[p] = s.directorio[fin]
        BY <1>1, <1>7, <3>2, <3>3
      <4>2. QED BY <1>1, <1>8, <3>1, <3>3, <4>1 DEF Usados
    <3>4. CASE i # fin
      <4>1. nd[i] = s.directorio[i]
        BY <1>7, <3>2, <3>4
      <4>2. QED BY <1>8, <3>1, <4>1 DEF Usados
    <3>5. QED BY <3>3, <3>4
  <2>3. QED BY <2>1, <2>2
<1>13. MarcadosJustos(t)
  <2>1. Usados(t) \subseteq Bloques /\ Usados(s) \subseteq Bloques
    BY DEF Usados
  <2>2. s.directorio[p].bloques \in Seq(DataBloques)
    BY <1>1, <1>3 DEF INodos
  <2>3. bs \subseteq DataBloques
    BY <2>2, ElementOfSeq DEF Range
  <2>4. bs \cap Reservados = {}
    BY <2>3 DEF DataBloques, Reservados
  <2>5. QED BY <1>2, <1>8, <1>12, <2>1, <2>4 DEF MarcadosJustos
<1>14. Bajos(t)
  BY <1>2, <1>12 DEF Bajos, Usados
<1>15. Compacto(t)
  <2>1. \A i \in Slots : nd[i].nombre # Vacio <=> i < fin
    <3>1. \A i \in Slots : i < fin => i < s.nFiles /\ i # fin
      BY <1>3 DEF fin, Slots
    <3>2. fin < s.nFiles
      BY <1>3 DEF fin
    <3>3. \A i \in Slots : i # fin /\ i < s.nFiles => i < fin
      BY <1>3 DEF fin, Slots
    <3>4. p = fin \/ p < fin
      BY <1>1, <1>5 DEF Slots
    <3>5. \A i \in Slots : s.directorio[i].nombre # Vacio <=> i < s.nFiles
      BY <1>2 DEF Compacto
    <3>6. QED BY <1>1, <1>5, <1>7, <1>10, <3>1, <3>2, <3>3, <3>4, <3>5
  <2>2. \A i, j \in 0 .. fin - 1 : nd[i].nombre = nd[j].nombre => i = j
    <3> SUFFICES ASSUME NEW i \in 0 .. fin - 1, NEW j \in 0 .. fin - 1,
                        nd[i].nombre = nd[j].nombre
                 PROVE  i = j
      OBVIOUS
    <3>1. i \in Slots /\ j \in Slots /\ i # fin /\ j # fin
      BY <1>5 DEF Slots
    <3>2. de(i) \in 0 .. s.nFiles - 1 /\ de(j) \in 0 .. s.nFiles - 1
      BY <1>3, <1>5 DEF fin, Slots
    <3>3. de(i) = de(j)
      BY <1>2, <1>10, <3>1, <3>2 DEF Compacto
    <3>4. QED BY <1>10, <3>1, <3>3
  <2>3. \A i \in Slots : i >= fin => nd[i].bloques = <<>>
    <3> SUFFICES ASSUME NEW i \in Slots, i >= fin PROVE nd[i].bloques = <<>>
      OBVIOUS
    <3>1. CASE i = fin
      BY <3>1, <1>7, <1>10
    <3>2. CASE i # fin
      <4>1. i >= s.nFiles /\ i # p
        BY <3>2, <1>3, <1>4 DEF fin, Slots
      <4>2. QED BY <4>1, <3>2, <1>2, <1>7 DEF Compacto
    <3>3. QED BY <3>1, <3>2
  <2>4. QED BY <1>8, <2>1, <2>2, <2>3 DEF Compacto
<1>16. MemoriaBuena(t)
  BY <1>8, <1>11, <1>13, <1>14, <1>15 DEF MemoriaBuena
<1>17. eliminar(s, n) = guardarDirectorio(guardarBitmap(t))
  BY DEF eliminar, t, nd, p, fin
<1>18. Bueno(eliminar(s, n)) /\ eliminar(s, n).directorio = nd /\ eliminar(s, n).datos = t.datos
  BY <1>8, <1>16, <1>17, TodoGuardado
<1>19. \A i \in Slots : nd[i].nombre # n
  BY <1>1, <1>5, <1>7, <1>9, <1>10
<1>20. nd[fin].nombre = Vacio
  BY <1>5, <1>7, <1>10
<1>21. ASSUME NEW i \in Slots, i # fin
       PROVE  Igual(s, de(i), eliminar(s, n), i) /\ de(i) \in Slots
  <2>1. de(i) \in Slots /\ de(i) # p /\ nd[i] = s.directorio[de(i)]
    BY <1>10, <1>21
  <2> HIDE DEF de
  <2>2. \A k \in DOMAIN s.directorio[de(i)].bloques :
          /\ s.directorio[de(i)].bloques[k] \in Bloques
          /\ s.directorio[de(i)].bloques[k] \notin bs
    BY <1>1, <1>2, <2>1, BloquesPropios
  <2> HIDE DEF bs
  <2>3. QED BY <1>8, <1>18, <2>1, <2>2 DEF Igual
<1>22. ASSUME Corridos(s) PROVE Corridos(eliminar(s, n))
  <2>1. DOMAIN eliminar(s, n).directorio[fin].bloques = {}
    BY <1>5, <1>7, <1>10, <1>18
  <2> HIDE DEF de
  <2>2. ASSUME NEW i \in Slots
        PROVE  \/ DOMAIN eliminar(s, n).directorio[i].bloques = {}
               \/ \E j \in Slots :
                    /\ eliminar(s, n).directorio[i].bloques = s.directorio[j].bloques
                    /\ \A k \in DOMAIN s.directorio[j].bloques :
                         eliminar(s, n).datos[s.directorio[j].bloques[k]]
                           = s.datos[s.directorio[j].bloques[k]]
    BY <1>21, <2>1 DEF Igual
  <2>3. QED BY <1>22, <2>2, Conservado
<1>23. ASSUME NEW i \in Slots
       PROVE  \/ eliminar(s, n).directorio[i].nombre = Vacio
              \/ \E j \in Slots : Igual(s, j, eliminar(s, n), i)
  <2>1. CASE i = fin
    BY <2>1, <1>18, <1>20
  <2>2. CASE i # fin
    <3> HIDE DEF de
    <3>1. QED BY <2>2, <1>21
  <2>3. QED BY <2>1, <2>2
<1>24. ASSUME NEW j \in Slots
       PROVE  \/ s.directorio[j].nombre = n
              \/ \E i \in Slots : Igual(s, j, eliminar(s, n), i)
  <2>1. CASE j = p
    BY <2>1, <1>1
  <2>2. CASE j # p /\ j = fin
    <3>1. p \in Slots /\ p # fin /\ de(p) = j
      BY <1>1, <2>2
    <3>2. QED BY <3>1, <1>21
  <2>3. CASE j # p /\ j # fin
    <3>1. de(j) = j
      BY <2>3
    <3>2. QED BY <2>3, <3>1, <1>21
  <2>4. QED BY <2>1, <2>2, <2>3
<1>25. QED BY <1>5, <1>18, <1>19, <1>20, <1>22, <1>23, <1>24 DEF Existe

\* renombrar gives a file a name that no file has.
LEMMA Renombrado ==
  ASSUME NEW s, Bueno(s), NEW n \in Nombres, Existe(s, n),
         NEW m \in Nombres \ NombresLargos, ~Existe(s, m)
  PROVE  /\ Bueno(renombrar(s, n, m))
         /\ Corridos(s) => Corridos(renombrar(s, n, m))
         /\ \E p \in Slots :
              /\ s.directorio[p].nombre = n /\ renombrar(s, n, m).directorio[p].nombre = m
              /\ renombrar(s, n, m).directorio[p].bloques = s.directorio[p].bloques
              /\ renombrar(s, n, m).datos = s.datos
              /\ \A i \in Slots : i # p => Igual(s, i, renombrar(s, n, m), i)
<1> USE Constantes
<1> DEFINE p == buscarArchivoPorNombre(s, n)
           t == [s EXCEPT !.directorio[p].nombre = m]
           x == [s.directorio[p] EXCEPT !.nombre = m]
           nd == [s.directorio EXCEPT ![p] = x]
<1>1. p \in Slots /\ s.directorio[p].nombre = n /\ n # Vacio /\ m # Vacio
  BY Buscar, NombresValidos
<1>2. /\ MemoriaBuena(s) /\ s \in Estados /\ Compacto(s) /\ EnDisco(s)
      /\ s.directorio \in [Slots -> INodos] /\ s.nFiles \in 0 .. TDIRECTORIO
  BY DEF Bueno, MemoriaBuena, Estados
<1> HIDE DEF p
<1>3. x \in INodos /\ x.nombre = m /\ x.bloques = s.directorio[p].bloques
  <2>1. s.directorio[p] \in INodos
    BY <1>1, <1>2
  <2>2. QED BY <2>1 DEF INodos
<1>4. t = [s EXCEPT !.directorio = nd]
  BY <1>1, <1>2 DEF Estados
<1> HIDE DEF x, t
<1>5. /\ nd \in [Slots -> INodos]
      /\ \A i \in Slots : nd[i] = IF i = p THEN x ELSE s.directorio[i]
  BY <1>1, <1>2, <1>3
<1>6. \A i \in Slots : /\ nd[i].bloques = s.directorio[i].bloques
                       /\ nd[i].nombre = IF i = p THEN m ELSE s.directorio[i].nombre
  BY <1>3, <1>5
<1> HIDE DEF nd
<1>7. /\ t \in Estados
      /\ t.directorio = nd /\ t.bitmap = s.bitmap /\ t.nFiles = s.nFiles
      /\ t.dBitmap = s.dBitmap /\ t.datos = s.datos
  BY <1>2, <1>4, <1>5 DEF Estados
<1>8. Usados(t) = Usados(s) /\ SinCruces(t)
  BY <1>2, <1>6, <1>7 DEF Usados, SinCruces, MemoriaBuena
<1>9. Compacto(t)
  <2>1. \A i \in Slots : nd[i].nombre # Vacio <=> i < s.nFiles
    BY <1>1, <1>2, <1>6 DEF Compacto
  <2>2. \A i, j \in 0 .. s.nFiles - 1 : nd[i].nombre = nd[j].nombre => i = j
    <3>1. \A i \in 0 .. s.nFiles - 1 : i \in Slots
      BY <1>2 DEF Slots
    <3>2. \A i \in Slots : s.directorio[i].nombre # m
      BY DEF Existe
    <3>3. QED BY <1>2, <1>6, <3>1, <3>2 DEF Compacto
  <2>3. \A i \in Slots : i >= s.nFiles => nd[i].bloques = <<>>
    BY <1>2, <1>6 DEF Compacto
  <2>4. QED BY <1>7, <2>1, <2>2, <2>3 DEF Compacto
<1>10. MemoriaBuena(t)
  BY <1>2, <1>7, <1>8, <1>9 DEF MemoriaBuena, MarcadosJustos, Bajos
<1>11. renombrar(s, n, m) = [t EXCEPT !.dDirectorio = nd, !.legible = TRUE]
  <2>1. renombrar(s, n, m) = guardarDirectorio(t)
    BY DEF renombrar, t, p
  <2>2. QED BY <2>1, <1>7, <1>10, DirectorioGuardado
<1>12. MemoriaBuena(renombrar(s, n, m))
  <2>1. renombrar(s, n, m) = guardarDirectorio(t)
    BY DEF renombrar, t, p
  <2>2. QED BY <2>1, <1>10, DirectorioGuardado
<1>13. EnDisco(renombrar(s, n, m))
  BY <1>2, <1>7, <1>11 DEF EnDisco, Estados
<1>14. renombrar(s, n, m).directorio = nd /\ renombrar(s, n, m).datos = s.datos
  BY <1>7, <1>11 DEF Estados
<1>15. Corridos(s) => Corridos(renombrar(s, n, m))
  BY <1>6, <1>14 DEF Corridos
<1>16. \A i \in Slots : i # p => Igual(s, i, renombrar(s, n, m), i)
  BY <1>6, <1>14 DEF Igual
<1>17. QED BY <1>1, <1>6, <1>12, <1>13, <1>14, <1>15, <1>16 DEF Bueno

\* reemplazar deletes the file, creates it and writes it.
LEMMA Reemplazado ==
  ASSUME NEW s, Bueno(s), NEW n \in Nombres, NEW d \in Textos,
         NEW u \in reemplazar(s, n, d)
  PROVE  /\ Bueno(u)
         /\ Corridos(s) => Corridos(u)
<1>1. CASE ~Existe(s, n)
  BY <1>1 DEF reemplazar
<1>2. CASE Existe(s, n)
  <2> DEFINE e == eliminar(s, n)
             f == crearInodo(e, n)
  <2>1. n \notin NombresLargos
    <3>1. PICK i \in Slots : s.directorio[i].nombre = n
      BY <1>2 DEF Existe
    <3>2. s.directorio[i] \in INodos
      BY DEF Bueno, MemoriaBuena, Estados
    <3>3. QED BY <3>1, <3>2, NombresValidos DEF INodos
  <2>2. Bueno(e) /\ Existe(e, Vacio) /\ (Corridos(s) => Corridos(e))
    BY <1>2, Eliminado
  <2>3. u \in escribir(f, n, d)
    BY <1>2 DEF reemplazar
  <2> HIDE DEF e
  <2>4. Bueno(f) /\ Existe(f, n) /\ (Corridos(e) => Corridos(f))
    BY <2>1, <2>2, InodoCreado
  <2> HIDE DEF f
  <2>5. QED BY <2>2, <2>3, <2>4, EscrituraBuena
<1>3. QED BY <1>1, <1>2

\* A restart finds a sound and saved object as it was.
LEMMA Recargado ==
  ASSUME NEW s, Bueno(s)
  PROVE  cargar(s) = {s}
<1> USE Constantes
<1>1. s \in Estados /\ EnDisco(s) /\ Compacto(s)
  BY DEF Bueno, MemoriaBuena
<1>2. Cardinality({i \in Slots : s.directorio[i].nombre # Vacio}) = s.nFiles
  <2>1. {i \in Slots : s.directorio[i].nombre # Vacio} = 0 .. s.nFiles - 1
    BY <1>1 DEF Compacto, Slots, Estados
  <2>2. s.nFiles \in Nat
    BY <1>1 DEF Estados
  <2>3. Cardinality(0 .. s.nFiles - 1) = s.nFiles
    BY <2>2, FS_Interval
  <2>4. QED BY <2>1, <2>3
<1>3. [s EXCEPT !.directorio = s.dDirectorio, !.bitmap = s.dBitmap,
                !.nFiles = Cardinality({i \in Slots : s.dDirectorio[i].nombre # Vacio})] = s
  BY <1>1, <1>2 DEF EnDisco, Estados
<1>4. cargar(s) =
        {[s EXCEPT !.directorio = dir, !.bitmap = s.dBitmap,
                   !.nFiles = Cardinality({i \in Slots : dir[i].nombre # Vacio})] :
           dir \in {s.dDirectorio}}
  <2>1. s.legible
    BY <1>1 DEF EnDisco
  <2>2. QED BY <2>1, Zenon DEF cargar, cargarBitmap
<1>5. QED BY <1>3, <1>4

\* A new disk is sound: all its entries free, the reserved blocks marked and
\* saved.
LEMMA DiscoNuevoBueno == Bueno(DiscoNuevo)
<1> USE Constantes
<1>1. firstDataBlock < EntradasGuardadas
  <2>1. (TDIRECTORIO + 1) * MaxFile \in Nat
    OBVIOUS
  <2>2. QED BY <2>1, BitmapAlcanza
<1>2. /\ DiscoNuevo.directorio = [i \in Slots |-> INodoVacio]
      /\ DiscoNuevo.dDirectorio = [i \in Slots |-> INodoVacio]
      /\ DiscoNuevo.bitmap = Reservados /\ DiscoNuevo.nFiles = 0
      /\ DiscoNuevo.dBitmap = Reservados /\ DiscoNuevo.legible = TRUE
      /\ DiscoNuevo.datos = [b \in Bloques |-> <<>>]
  BY <1>1 DEF DiscoNuevo, Reservados
<1>3. INodoVacio \in INodos /\ INodoVacio.nombre = Vacio /\ INodoVacio.bloques = <<>>
  BY DEF INodoVacio, INodo, INodos
<1>4. DiscoNuevo \in Estados
  <2>1. [i \in Slots |-> INodoVacio] \in [Slots -> INodos]
    BY <1>3
  <2>2. [b \in Bloques |-> <<>>] \in [Bloques -> Trozos]
    BY DEF Trozos
  <2>3. Reservados \subseteq Bloques /\ 0 \in 0 .. TDIRECTORIO
    BY DEF Reservados, Bloques
  <2>4. Reservados \cap (0 .. EntradasGuardadas - 1) = Reservados
    BY <1>1 DEF Reservados
  <2>5. QED BY <2>1, <2>2, <2>3, <2>4 DEF DiscoNuevo, Estados
<1>5. \A i \in Slots : /\ DiscoNuevo.directorio[i].nombre = Vacio
                       /\ DiscoNuevo.directorio[i].bloques = <<>>
  BY <1>2, <1>3
<1>6. Usados(DiscoNuevo) = {} /\ SinCruces(DiscoNuevo)
  BY <1>5 DEF Usados, SinCruces
<1>7. Compacto(DiscoNuevo)
  BY <1>2, <1>5 DEF Compacto, Slots
<1>8. MarcadosJustos(DiscoNuevo) /\ Bajos(DiscoNuevo)
  BY <1>2, <1>6 DEF MarcadosJustos, Bajos
<1>9. QED BY <1>2, <1>4, <1>6, <1>7, <1>8 DEF Bueno, MemoriaBuena, EnDisco

LEMMA DiscoNuevoCorrido == Corridos(DiscoNuevo)
BY DEF Corridos, Llenos, DiscoNuevo, INodoVacio, INodo

(***************************************************************************)
(* The theorems.                                                           *)
(***************************************************************************)
\* Every call of FileSystemUso keeps the object sound and saved.
LEMMA PasoBueno ==
  ASSUME InvFileSystem, [UsoNext]_vars
  PROVE  InvFileSystem'
<1> USE DEF InvFileSystem
<1>1. ASSUME NEW n \in Nombres, UsoCrear(n) PROVE Bueno(fs')
  BY <1>1, InodoCreado DEF UsoCrear, CrearInodo
<1>2. ASSUME NEW n \in Nombres, UsoEliminar(n) PROVE Bueno(fs')
  <2>1. fs' = eliminar(fs, n)
    BY <1>2 DEF UsoEliminar, Eliminar
  <2>2. CASE Existe(fs, n)
    BY <2>1, <2>2, Eliminado
  <2>3. CASE ~Existe(fs, n)
    BY <2>1, <2>3 DEF eliminar
  <2>4. QED BY <2>2, <2>3
<1>3. ASSUME NEW n \in Nombres, NEW d \in Textos, UsoEscribir(n, d) PROVE Bueno(fs')
  BY <1>3, EscrituraBuena DEF UsoEscribir, Escribir
<1>4. ASSUME NEW n \in Nombres, NEW d \in Textos, UsoReemplazar(n, d) PROVE Bueno(fs')
  BY <1>4, Reemplazado DEF UsoReemplazar, Reemplazar
<1>5. ASSUME NEW n \in Nombres, NEW c \in Bytes, UsoAgregar(n, c) PROVE Bueno(fs')
  <2>1. fs' = agregar(fs, n, c) /\ Existe(fs, n)
    BY <1>5 DEF UsoAgregar, Agregar
  <2>2. LET bs == BloquesDe(fs, n)
        IN Len(bs) < MaxFile \/ (bs # <<>> /\ Len(fs.datos[bs[Len(bs)]]) < TBLOQUE)
    BY <1>5 DEF UsoAgregar
  <2>3. Bueno(agregar(fs, n, c))
    BY <2>1, <2>2, AgregadoBueno
  <2>4. QED BY <2>1, <2>3
<1>6. ASSUME NEW n \in Nombres, NEW m \in Nombres, UsoRenombrar(n, m) PROVE Bueno(fs')
  <2>1. fs' = renombrar(fs, n, m) /\ m \notin NombresLargos /\ ~Existe(fs, m)
    BY <1>6 DEF UsoRenombrar, Renombrar
  <2>2. CASE Existe(fs, n)
    BY <2>1, <2>2, Renombrado
  <2>3. CASE ~Existe(fs, n)
    BY <2>1, <2>3 DEF renombrar
  <2>4. QED BY <2>2, <2>3
<1>7. ASSUME ReinicioOrdenado PROVE Bueno(fs')
  <2>1. Bueno(destructor(fs))
    BY TodoGuardado DEF destructor, Bueno
  <2>2. QED BY <1>7, <2>1, Recargado DEF ReinicioOrdenado
<1>8. ASSUME ReinicioAbrupto PROVE Bueno(fs')
  BY <1>8, Recargado DEF ReinicioAbrupto
<1>9. ASSUME Formatear PROVE Bueno(fs')
  BY <1>9, DiscoNuevoBueno DEF Formatear
<1>10. ASSUME UNCHANGED vars PROVE Bueno(fs')
  BY <1>10 DEF vars
<1>11. QED
  BY <1>1, <1>2, <1>3, <1>4, <1>5, <1>6, <1>7, <1>8, <1>9, <1>10 DEF UsoNext

\* And keeps the files without gaps.
LEMMA PasoCorrido ==
  ASSUME InvFileSystem, SinHuecos, [UsoNext]_vars
  PROVE  SinHuecos'
<1> USE DEF InvFileSystem, SinHuecos
<1>1. ASSUME NEW n \in Nombres, UsoCrear(n) PROVE Corridos(fs')
  BY <1>1, InodoCreado DEF UsoCrear, CrearInodo
<1>2. ASSUME NEW n \in Nombres, UsoEliminar(n) PROVE Corridos(fs')
  <2>1. fs' = eliminar(fs, n)
    BY <1>2 DEF UsoEliminar, Eliminar
  <2>2. CASE Existe(fs, n)
    BY <2>1, <2>2, Eliminado
  <2>3. CASE ~Existe(fs, n)
    BY <2>1, <2>3 DEF eliminar
  <2>4. QED BY <2>2, <2>3
<1>3. ASSUME NEW n \in Nombres, NEW d \in Textos, UsoEscribir(n, d) PROVE Corridos(fs')
  BY <1>3, EscrituraBuena DEF UsoEscribir, Escribir
<1>4. ASSUME NEW n \in Nombres, NEW d \in Textos, UsoReemplazar(n, d) PROVE Corridos(fs')
  BY <1>4, Reemplazado DEF UsoReemplazar, Reemplazar
<1>5. ASSUME NEW n \in Nombres, NEW c \in Bytes, UsoAgregar(n, c) PROVE Corridos(fs')
  <2>1. fs' = agregar(fs, n, c) /\ Existe(fs, n)
    BY <1>5 DEF UsoAgregar, Agregar
  <2>2. LET bs == BloquesDe(fs, n)
        IN Len(bs) < MaxFile \/ (bs # <<>> /\ Len(fs.datos[bs[Len(bs)]]) < TBLOQUE)
    BY <1>5 DEF UsoAgregar
  <2>3. Corridos(agregar(fs, n, c))
    BY <2>1, <2>2, AgregadoBueno
  <2>4. QED BY <2>1, <2>3
<1>6. ASSUME NEW n \in Nombres, NEW m \in Nombres, UsoRenombrar(n, m) PROVE Corridos(fs')
  <2>1. fs' = renombrar(fs, n, m) /\ m \notin NombresLargos /\ ~Existe(fs, m)
    BY <1>6 DEF UsoRenombrar, Renombrar
  <2>2. CASE Existe(fs, n)
    BY <2>1, <2>2, Renombrado
  <2>3. CASE ~Existe(fs, n)
    BY <2>1, <2>3 DEF renombrar
  <2>4. QED BY <2>2, <2>3
<1>7. ASSUME ReinicioOrdenado PROVE Corridos(fs')
  <2>1. /\ Bueno(destructor(fs)) /\ destructor(fs).datos = fs.datos
        /\ destructor(fs).directorio = fs.directorio
    BY TodoGuardado DEF destructor, Bueno
  <2>2. fs' = destructor(fs)
    BY <1>7, <2>1, Recargado DEF ReinicioOrdenado
  <2>3. QED BY <2>1, <2>2 DEF Corridos
<1>8. ASSUME ReinicioAbrupto PROVE Corridos(fs')
  BY <1>8, Recargado DEF ReinicioAbrupto
<1>9. ASSUME Formatear PROVE Corridos(fs')
  BY <1>9, DiscoNuevoCorrido DEF Formatear
<1>10. ASSUME UNCHANGED vars PROVE Corridos(fs')
  BY <1>10 DEF vars
<1>11. QED
  BY <1>1, <1>2, <1>3, <1>4, <1>5, <1>6, <1>7, <1>8, <1>9, <1>10 DEF UsoNext

\* The inductive invariant of the file system: the object in memory is sound
\* and the disk holds it.
THEOREM Inductivo == UsoSpec => []InvFileSystem
<1>1. Init => InvFileSystem
  BY DiscoNuevoBueno DEF Init, InvFileSystem
<1>2. InvFileSystem /\ [UsoNext]_vars => InvFileSystem'
  BY PasoBueno
<1>3. QED BY <1>1, <1>2, PTL DEF UsoSpec

\* Every call keeps the types: directory, bitmap, inodes and blocks.
THEOREM Tipos == UsoSpec => []TypeOK
<1>1. InvFileSystem => TypeOK
  BY DEF InvFileSystem, Bueno, MemoriaBuena, TypeOK
<1>2. QED BY <1>1, Inductivo, PTL

\* No block ever belongs to two files or twice to one, whatever the calls
\* and the restarts.
THEOREM EnlacesSeparados == UsoSpec => []SinEnlacesCruzados
<1>1. InvFileSystem => SinEnlacesCruzados
  BY DEF InvFileSystem, Bueno, MemoriaBuena, SinEnlacesCruzados
<1>2. QED BY <1>1, Inductivo, PTL

\* The bitmap always marks the reserved blocks and those of the files, and
\* no other: escribir, agregar and eliminar leak nothing.
THEOREM BitmapSinFugas == UsoSpec => []BitmapExacto
<1>1. InvFileSystem => BitmapExacto
  BY DEF InvFileSystem, Bueno, MemoriaBuena, BitmapExacto
<1>2. QED BY <1>1, Inductivo, PTL

\* The files always fill the first nFiles slots under different names.
THEOREM DirectorioSinHuecos == UsoSpec => []DirectorioCompacto
<1>1. InvFileSystem => DirectorioCompacto
  BY DEF InvFileSystem, Bueno, MemoriaBuena, DirectorioCompacto
<1>2. QED BY <1>1, Inductivo, PTL

\* A file never has a gap: its blocks are full but for the last, which is
\* not empty, so that leer, which stops at the first NUL, reaches its end.
THEOREM ArchivosSinHuecos == UsoSpec => []SinHuecos
<1>1. Init => SinHuecos
  BY DiscoNuevoCorrido DEF Init, SinHuecos
<1>2. InvFileSystem /\ SinHuecos /\ [UsoNext]_vars => SinHuecos'
  BY PasoCorrido
<1>3. QED BY <1>1, <1>2, Inductivo, PTL DEF UsoSpec

\* At any point between calls a restart without the destructor loses
\* nothing: the constructor rebuilds the object from the disk.
THEOREM RecargaSinPerdidas == UsoSpec => []RecargaFiel
<1>1. InvFileSystem => RecargaFiel
  BY Recargado DEF InvFileSystem, RecargaFiel
<1>2. QED BY <1>1, Inductivo, PTL

(***************************************************************************)
(* The store the class documents: what a caller sees of the object is the  *)
(* names of its files and the text leer returns for each.                  *)
(***************************************************************************)
Contenido(s) ==
  [n \in {s.directorio[i].nombre : i \in Slots} \ {Vacio} |->
     leer(s, n, MaxBloques * TBLOQUE)]

\* Sound and without gaps: every call leaves the object like this.
Entero(s) == Bueno(s) /\ Corridos(s)

\* The store has one text for each file, the one its blocks spell.
LEMMA Contiene ==
  ASSUME NEW s, Entero(s)
  PROVE  /\ \A x : x \in DOMAIN Contenido(s)
                     <=> x # Vacio /\ \E i \in Slots : s.directorio[i].nombre = x
         /\ \A i \in Slots : s.directorio[i].nombre # Vacio
              => Contenido(s)[s.directorio[i].nombre]
                   = Deletreado(s.datos, s.directorio[i].bloques)
         /\ Contenido(s) = [x \in DOMAIN Contenido(s) |-> Contenido(s)[x]]
<1> DEFINE D == {s.directorio[i].nombre : i \in Slots} \ {Vacio}
           l(x) == leer(s, x, MaxBloques * TBLOQUE)
<1>1. Contenido(s) = [x \in D |-> l(x)]
  BY DEF Contenido
<1>2. ASSUME NEW i \in Slots, s.directorio[i].nombre # Vacio
      PROVE  Contenido(s)[s.directorio[i].nombre] = Deletreado(s.datos, s.directorio[i].bloques)
  <2>1. s.directorio[i].nombre \in D
    BY <1>2
  <2>2. l(s.directorio[i].nombre) = Deletreado(s.datos, s.directorio[i].bloques)
    BY <1>2, LeidoEntero DEF Entero, Bueno
  <2> HIDE DEF D, l
  <2>3. QED BY <1>1, <2>1, <2>2
<1>3. \A x : x \in DOMAIN Contenido(s) <=> x # Vacio /\ \E i \in Slots : s.directorio[i].nombre = x
  BY <1>1
<1> HIDE DEF D, l
<1>4. Contenido(s) = [x \in DOMAIN Contenido(s) |-> Contenido(s)[x]]
  BY <1>1
<1>5. QED BY <1>2, <1>3, <1>4

\* A file that a call leaves alone keeps its text.
LEMMA TextoIntacto ==
  ASSUME NEW s, Entero(s), NEW u, NEW i \in Slots, NEW j \in Slots,
         Igual(s, j, u, i), s.directorio[j].nombre # Vacio
  PROVE  Deletreado(u.datos, u.directorio[i].bloques) = Deletreado(s.datos, s.directorio[j].bloques)
<1> DEFINE bs == s.directorio[j].bloques
<1>1. s.directorio[j] \in INodos /\ s.datos \in [Bloques -> Trozos]
  BY DEF Entero, Bueno, MemoriaBuena, Estados
<1>2. bs \in Seq(DataBloques)
  BY <1>1 DEF INodos
<1>3. \A k \in DOMAIN bs : bs[k] \in Bloques
  BY <1>2, Constantes, ElementOfSeq DEF DataBloques, Bloques
<1>4. bs \in Seq(Bloques)
  BY <1>2, <1>3
<1>5. \A k \in DOMAIN bs : Len(s.datos[bs[k]]) \in Nat /\ Len(s.datos[bs[k]]) <= TBLOQUE
  <2>1. \A z \in Trozos : Len(z) \in Nat /\ Len(z) <= TBLOQUE
    BY DEF Trozos
  <2>2. QED BY <1>1, <1>3, <2>1
<1>6. Tam(s.datos, bs) \in Nat
  BY LeidoEntero DEF Entero, Bueno
<1>7. \A k \in DOMAIN bs : s.datos[bs[k]] = u.datos[bs[k]]
  BY DEF Igual
<1>8. u.directorio[i].bloques = bs
  BY DEF Igual
<1> HIDE DEF bs
<1>9. Deletreado(s.datos, bs) = Deletreado(u.datos, bs)
  BY <1>4, <1>5, <1>6, <1>7, MismoTexto
<1>10. QED BY <1>8, <1>9 DEF bs

\* A name belongs to one slot.
LEMMA UnSlot ==
  ASSUME NEW s, Entero(s), NEW i \in Slots, NEW j \in Slots,
         s.directorio[i].nombre = s.directorio[j].nombre, s.directorio[i].nombre # Vacio
  PROVE  i = j
<1>1. s.nFiles \in 0 .. TDIRECTORIO /\ Compacto(s)
  BY DEF Entero, Bueno, MemoriaBuena, Estados
<1>2. i < s.nFiles /\ j < s.nFiles
  BY <1>1 DEF Compacto
<1>3. i \in 0 .. s.nFiles - 1 /\ j \in 0 .. s.nFiles - 1
  BY <1>1, <1>2 DEF Slots
<1>4. QED BY <1>1, <1>3 DEF Compacto

\* A store is known by its names and the text of each.
LEMMA MismoContenido ==
  ASSUME NEW s, Entero(s), NEW D, NEW f, f = [x \in D |-> f[x]],
         \A i \in Slots : s.directorio[i].nombre # Vacio
           => /\ s.directorio[i].nombre \in D
              /\ Deletreado(s.datos, s.directorio[i].bloques) = f[s.directorio[i].nombre],
         \A x \in D : x # Vacio /\ \E i \in Slots : s.directorio[i].nombre = x
  PROVE  Contenido(s) = f
<1>1. \A x : x \in DOMAIN Contenido(s) <=> x \in D
  BY Contiene
<1>2. \A x \in D : Contenido(s)[x] = f[x]
  BY Contiene
<1>3. Contenido(s) = [x \in DOMAIN Contenido(s) |-> Contenido(s)[x]]
  BY Contiene
<1>4. DOMAIN Contenido(s) = D
  BY <1>1
<1>5. QED BY <1>2, <1>3, <1>4

\* A store with one text more, or another text for a name it had.
Mas(f, n, d) == [m \in DOMAIN f \cup {n} |-> IF m = n THEN d ELSE f[m]]

\* A store without a name.
Menos(f, n) == [m \in DOMAIN f \ {n} |-> f[m]]

\* A call that gives one file another text changes the store there.
LEMMA UnTexto ==
  ASSUME NEW s, Entero(s), NEW u, Entero(u), NEW n, n # Vacio, NEW d, NEW p \in Slots,
         s.directorio[p].nombre = n, u.directorio[p].nombre = n,
         Deletreado(u.datos, u.directorio[p].bloques) = d,
         \A i \in Slots : i # p => Igual(s, i, u, i)
  PROVE  Contenido(u) = Mas(Contenido(s), n, d) /\ n \in DOMAIN Contenido(s)
<1> DEFINE Z == Contenido(s)
           D == DOMAIN Z \cup {n}
           f == Mas(Z, n, d)
<1>1. /\ \A x : x \in DOMAIN Z <=> x # Vacio /\ \E i \in Slots : s.directorio[i].nombre = x
      /\ \A i \in Slots : s.directorio[i].nombre # Vacio
           => Z[s.directorio[i].nombre] = Deletreado(s.datos, s.directorio[i].bloques)
  BY Contiene
<1> HIDE DEF Z
<1>2. /\ f = [x \in D |-> f[x]] /\ f[n] = d
      /\ \A x \in D : x # n => f[x] = Z[x]
  BY DEF Mas
<1>3. n \in DOMAIN Z
  BY <1>1
<1> HIDE DEF f
<1>4. ASSUME NEW i \in Slots, u.directorio[i].nombre # Vacio
      PROVE  /\ u.directorio[i].nombre \in D
             /\ Deletreado(u.datos, u.directorio[i].bloques) = f[u.directorio[i].nombre]
  <2>1. CASE i = p
    BY <2>1, <1>2
  <2>2. CASE i # p
    <3>1. Igual(s, i, u, i)
      BY <2>2
    <3>2. u.directorio[i].nombre = s.directorio[i].nombre
      BY <3>1 DEF Igual
    <3>3. s.directorio[i].nombre # n
      BY <2>2, <1>4, <3>2, UnSlot
    <3>4. Deletreado(u.datos, u.directorio[i].bloques) = Deletreado(s.datos, s.directorio[i].bloques)
      BY <1>4, <3>1, <3>2, TextoIntacto
    <3>5. /\ s.directorio[i].nombre \in D
          /\ Z[s.directorio[i].nombre] = Deletreado(s.datos, s.directorio[i].bloques)
      BY <1>1, <1>4, <3>2
    <3> HIDE DEF D
    <3>6. f[s.directorio[i].nombre] = Z[s.directorio[i].nombre]
      BY <1>2, <3>3, <3>5
    <3>7. QED BY <3>2, <3>4, <3>5, <3>6
  <2>3. QED BY <2>1, <2>2
<1>5. ASSUME NEW x \in D PROVE x # Vacio /\ \E i \in Slots : u.directorio[i].nombre = x
  <2>1. CASE x = n
    BY <2>1
  <2>2. CASE x # n
    <3>1. PICK i \in Slots : s.directorio[i].nombre = x
      BY <1>1, <2>2
    <3>2. i # p
      BY <2>2, <3>1
    <3>3. QED BY <1>1, <2>2, <3>1, <3>2 DEF Igual
  <2>3. QED BY <2>1, <2>2
<1>6. Contenido(u) = f
  <2> HIDE DEF D
  <2>1. QED BY <1>2, <1>4, <1>5, MismoContenido
<1>7. QED BY <1>3, <1>6 DEF f, Z

\* crearInodo adds an empty text, and only when there is room for it.
LEMMA StoreCreado ==
  ASSUME NEW s, Entero(s), NEW n \in Nombres
  PROVE  /\ Entero(crearInodo(s, n))
         /\ n \notin NombresLargos /\ ~Existe(s, n) /\ Existe(s, Vacio)
            => /\ Contenido(crearInodo(s, n)) = Mas(Contenido(s), n, <<>>)
               /\ n \notin DOMAIN Contenido(s)
               /\ Cardinality(DOMAIN Contenido(s)) < TDIRECTORIO
<1> DEFINE u == crearInodo(s, n)
           Z == Contenido(s)
           D == DOMAIN Z \cup {n}
           f == Mas(Z, n, <<>>)
<1>1. Entero(u)
  BY InodoCreado DEF Entero
<1> SUFFICES ASSUME n \notin NombresLargos, ~Existe(s, n), Existe(s, Vacio)
             PROVE  /\ Contenido(u) = f /\ n \notin DOMAIN Z
                    /\ Cardinality(DOMAIN Z) < TDIRECTORIO
  BY <1>1
<1>2. PICK p \in Slots : /\ s.directorio[p].nombre = Vacio
                         /\ u.directorio[p] = INodo(n, <<>>)
                         /\ \A i \in Slots : i # p => Igual(s, i, u, i)
  BY InodoCreado DEF Entero
<1>3. /\ \A x : x \in DOMAIN Z <=> x # Vacio /\ \E i \in Slots : s.directorio[i].nombre = x
      /\ \A i \in Slots : s.directorio[i].nombre # Vacio
           => Z[s.directorio[i].nombre] = Deletreado(s.datos, s.directorio[i].bloques)
  BY Contiene
<1> HIDE DEF Z, u
<1>4. n \notin DOMAIN Z /\ n # Vacio
  BY <1>3, NombresValidos DEF Existe
<1>5. /\ f = [x \in D |-> f[x]] /\ f[n] = <<>>
      /\ \A x \in D : x # n => f[x] = Z[x]
  BY DEF Mas
<1> HIDE DEF f
<1>6. ASSUME NEW i \in Slots, u.directorio[i].nombre # Vacio
      PROVE  /\ u.directorio[i].nombre \in D
             /\ Deletreado(u.datos, u.directorio[i].bloques) = f[u.directorio[i].nombre]
  <2>1. CASE i = p
    <3>1. u.directorio[i].nombre = n /\ u.directorio[i].bloques = <<>>
      BY <1>2, <2>1 DEF INodo
    <3>2. Deletreado(u.datos, <<>>) = <<>>
      BY DEF Deletreado, Tam
    <3>3. QED BY <1>5, <3>1, <3>2
  <2>2. CASE i # p
    <3>1. Igual(s, i, u, i)
      BY <1>2, <2>2
    <3>2. u.directorio[i].nombre = s.directorio[i].nombre
      BY <3>1 DEF Igual
    <3>3. s.directorio[i].nombre # n
      BY DEF Existe
    <3>4. Deletreado(u.datos, u.directorio[i].bloques) = Deletreado(s.datos, s.directorio[i].bloques)
      BY <1>6, <3>1, <3>2, TextoIntacto
    <3>5. QED BY <1>3, <1>5, <1>6, <3>2, <3>3, <3>4
  <2>3. QED BY <2>1, <2>2
<1>7. ASSUME NEW x \in D PROVE x # Vacio /\ \E i \in Slots : u.directorio[i].nombre = x
  <2>1. CASE x = n
    BY <2>1, <1>2, <1>4 DEF INodo
  <2>2. CASE x # n
    <3>1. PICK i \in Slots : s.directorio[i].nombre = x /\ x # Vacio
      BY <1>3, <2>2
    <3>2. i # p
      BY <1>2, <3>1
    <3>3. QED BY <1>2, <3>1, <3>2 DEF Igual
  <2>3. QED BY <2>1, <2>2
<1>8. Contenido(u) = f
  <2> HIDE DEF D
  <2>1. QED BY <1>1, <1>5, <1>6, <1>7, MismoContenido DEF u
<1>9. Cardinality(DOMAIN Z) < TDIRECTORIO
  <2> DEFINE E == Slots \ {p}
             g == [i \in {j \in Slots : s.directorio[j].nombre # Vacio} |-> s.directorio[i].nombre]
             S == {j \in Slots : s.directorio[j].nombre # Vacio}
  <2>1. IsFiniteSet(Slots) /\ Cardinality(Slots) = TDIRECTORIO
    BY Constantes, FS_Interval DEF Slots
  <2>2. IsFiniteSet(E) /\ Cardinality(E) = TDIRECTORIO - 1
    BY <2>1, FS_RemoveElement
  <2>3. S \subseteq E
    BY <1>2
  <2>4. g \in Surjection(S, DOMAIN Z)
    BY <1>3 DEF Surjection
  <2> HIDE DEF E, S, g
  <2>5. IsFiniteSet(S) /\ Cardinality(S) <= TDIRECTORIO - 1 /\ Cardinality(S) \in Nat
    BY <2>2, <2>3, FS_Subset, FS_CardinalityType
  <2>6. Cardinality(DOMAIN Z) <= Cardinality(S) /\ Cardinality(DOMAIN Z) \in Nat
    BY <2>4, <2>5, FS_Surjection, FS_CardinalityType
  <2>7. QED BY <2>5, <2>6, Constantes
<1>10. QED BY <1>4, <1>8, <1>9

\* escribir on a file gives it the text, or does nothing when the disk is full.
LEMMA StoreEscrito ==
  ASSUME NEW s, Entero(s), NEW n \in Nombres, Existe(s, n), NEW d \in Textos,
         NEW u \in escribir(s, n, d)
  PROVE  /\ Entero(u)
         /\ \/ u = s
            \/ Contenido(u) = Mas(Contenido(s), n, d) /\ n \in DOMAIN Contenido(s)
<1>1. Entero(u)
  BY EscrituraBuena DEF Entero
<1>2. n # Vacio
  BY NombresValidos
<1>3. \/ u = s
      \/ \E p \in Slots : /\ s.directorio[p].nombre = n /\ u.directorio[p].nombre = n
                          /\ Deletreado(u.datos, u.directorio[p].bloques) = d
                          /\ \A i \in Slots : i # p => Igual(s, i, u, i)
  BY EscrituraBuena DEF Entero
<1>4. QED BY <1>1, <1>2, <1>3, UnTexto

\* A file with one character more.
LEMMA TextoAlargado ==
  ASSUME NEW s, Entero(s), NEW u, Entero(u), NEW n, n # Vacio, NEW c,
         NEW q \in Slots, Alargado(s, q, u, n, c)
  PROVE  /\ Contenido(u) = Mas(Contenido(s), n, Append(Contenido(s)[n], c))
         /\ n \in DOMAIN Contenido(s)
<1> DEFINE d == Deletreado(u.datos, u.directorio[q].bloques)
<1>1. /\ s.directorio[q].nombre = n /\ u.directorio[q].nombre = n
      /\ \A i \in Slots : i # q => Igual(s, i, u, i)
  BY DEF Alargado
<1>2. Contenido(u) = Mas(Contenido(s), n, d) /\ n \in DOMAIN Contenido(s)
  BY <1>1, UnTexto
<1>3. Contenido(s)[n] = Deletreado(s.datos, s.directorio[q].bloques)
  BY <1>1, Contiene
<1>4. d = Append(Contenido(s)[n], c)
  BY <1>3 DEF Alargado
<1>5. QED BY <1>2, <1>4

\* agregar puts one character at the end of the text, or does nothing.
LEMMA StoreAgregado ==
  ASSUME NEW s, Entero(s), NEW n \in Nombres, Existe(s, n), NEW c \in Bytes,
         LET bs == BloquesDe(s, n)
         IN Len(bs) < MaxFile \/ (bs # <<>> /\ Len(s.datos[bs[Len(bs)]]) < TBLOQUE),
         NEW u, u = agregar(s, n, c)
  PROVE  /\ Entero(u)
         /\ \/ u = s
            \/ /\ Contenido(u) = Mas(Contenido(s), n, Append(Contenido(s)[n], c))
               /\ n \in DOMAIN Contenido(s)
<1>1. Entero(u)
  BY AgregadoBueno DEF Entero
<1>2. n # Vacio
  BY NombresValidos
<1>3. u = s \/ \E q \in Slots : Alargado(s, q, u, n, c)
  BY AgregadoBueno DEF Entero
<1>4. QED BY <1>1, <1>2, <1>3, TextoAlargado

\* eliminar takes the name away.
LEMMA StoreEliminado ==
  ASSUME NEW s, Entero(s), NEW n \in Nombres, Existe(s, n),
         NEW u, u = eliminar(s, n)
  PROVE  /\ Entero(u)
         /\ Contenido(u) = Menos(Contenido(s), n)
         /\ n \in DOMAIN Contenido(s)
<1> DEFINE Z == Contenido(s)
           D == DOMAIN Z \ {n}
           f == Menos(Z, n)
<1>1. /\ Entero(u) /\ ~Existe(u, n) /\ n # Vacio
      /\ \A i \in Slots : u.directorio[i].nombre = Vacio \/ \E j \in Slots : Igual(s, j, u, i)
      /\ \A j \in Slots : s.directorio[j].nombre = n \/ \E i \in Slots : Igual(s, j, u, i)
  BY Eliminado, NombresValidos DEF Entero
<1>2. /\ \A x : x \in DOMAIN Z <=> x # Vacio /\ \E i \in Slots : s.directorio[i].nombre = x
      /\ \A i \in Slots : s.directorio[i].nombre # Vacio
           => Z[s.directorio[i].nombre] = Deletreado(s.datos, s.directorio[i].bloques)
  BY Contiene
<1> HIDE DEF Z
<1>3. /\ f = [x \in D |-> f[x]]
      /\ \A x \in D : f[x] = Z[x]
  BY DEF Menos
<1>4. n \in DOMAIN Z
  BY <1>1, <1>2 DEF Existe
<1> HIDE DEF f
<1>5. ASSUME NEW i \in Slots, u.directorio[i].nombre # Vacio
      PROVE  /\ u.directorio[i].nombre \in D
             /\ Deletreado(u.datos, u.directorio[i].bloques) = f[u.directorio[i].nombre]
  <2>1. PICK j \in Slots : Igual(s, j, u, i)
    BY <1>1, <1>5
  <2>2. u.directorio[i].nombre = s.directorio[j].nombre
    BY <2>1 DEF Igual
  <2>3. u.directorio[i].nombre # n
    BY <1>1 DEF Existe
  <2>4. Deletreado(u.datos, u.directorio[i].bloques) = Deletreado(s.datos, s.directorio[j].bloques)
    BY <1>5, <2>1, <2>2, TextoIntacto
  <2>5. /\ s.directorio[j].nombre \in D
        /\ Z[s.directorio[j].nombre] = Deletreado(s.datos, s.directorio[j].bloques)
    BY <1>2, <1>5, <2>2, <2>3
  <2> HIDE DEF D
  <2>6. f[s.directorio[j].nombre] = Z[s.directorio[j].nombre]
    BY <1>3, <2>5
  <2>7. QED BY <2>2, <2>4, <2>5, <2>6
<1>6. ASSUME NEW x \in D PROVE x # Vacio /\ \E i \in Slots : u.directorio[i].nombre = x
  <2>1. x # n /\ x # Vacio
    BY <1>2
  <2>2. PICK j \in Slots : s.directorio[j].nombre = x
    BY <1>2
  <2>3. QED BY <1>1, <2>1, <2>2 DEF Igual
<1>7. Contenido(u) = f
  <2> HIDE DEF D
  <2>1. QED BY <1>1, <1>3, <1>5, <1>6, MismoContenido
<1>8. QED BY <1>1, <1>4, <1>7 DEF f, Z

\* renombrar gives the text another name.
LEMMA StoreRenombrado ==
  ASSUME NEW s, Entero(s), NEW n \in Nombres, Existe(s, n),
         NEW m \in Nombres \ NombresLargos, ~Existe(s, m),
         NEW u, u = renombrar(s, n, m)
  PROVE  /\ Entero(u)
         /\ Contenido(u) = [x \in (DOMAIN Contenido(s) \ {n}) \cup {m} |->
                              IF x = m THEN Contenido(s)[n] ELSE Contenido(s)[x]]
         /\ n \in DOMAIN Contenido(s) /\ m \notin DOMAIN Contenido(s)
<1> DEFINE Z == Contenido(s)
           D == (DOMAIN Z \ {n}) \cup {m}
           f == [x \in D |-> IF x = m THEN Z[n] ELSE Z[x]]
<1>1. Entero(u) /\ n # Vacio /\ m # Vacio
  BY Renombrado, NombresValidos DEF Entero
<1>2. PICK p \in Slots : /\ s.directorio[p].nombre = n /\ u.directorio[p].nombre = m
                         /\ u.directorio[p].bloques = s.directorio[p].bloques
                         /\ u.datos = s.datos
                         /\ \A i \in Slots : i # p => Igual(s, i, u, i)
  BY Renombrado DEF Entero
<1>3. /\ \A x : x \in DOMAIN Z <=> x # Vacio /\ \E i \in Slots : s.directorio[i].nombre = x
      /\ \A i \in Slots : s.directorio[i].nombre # Vacio
           => Z[s.directorio[i].nombre] = Deletreado(s.datos, s.directorio[i].bloques)
  BY Contiene
<1> HIDE DEF Z
<1>4. n \in DOMAIN Z /\ m \notin DOMAIN Z
  BY <1>1, <1>2, <1>3 DEF Existe
<1>5. /\ f = [x \in D |-> f[x]] /\ f[m] = Z[n]
      /\ \A x \in D : x # m => f[x] = Z[x]
  OBVIOUS
<1> HIDE DEF f
<1>6. ASSUME NEW i \in Slots, u.directorio[i].nombre # Vacio
      PROVE  /\ u.directorio[i].nombre \in D
             /\ Deletreado(u.datos, u.directorio[i].bloques) = f[u.directorio[i].nombre]
  <2>1. CASE i = p
    <3>1. Z[n] = Deletreado(s.datos, s.directorio[p].bloques)
      BY <1>1, <1>2, <1>3
    <3>2. QED BY <1>2, <1>5, <2>1, <3>1
  <2>2. CASE i # p
    <3>1. Igual(s, i, u, i)
      BY <1>2, <2>2
    <3>2. u.directorio[i].nombre = s.directorio[i].nombre
      BY <3>1 DEF Igual
    <3>3. s.directorio[i].nombre # n /\ s.directorio[i].nombre # m
      BY <1>1, <1>2, <2>2, UnSlot DEF Existe
    <3>4. Deletreado(u.datos, u.directorio[i].bloques) = Deletreado(s.datos, s.directorio[i].bloques)
      BY <1>6, <3>1, <3>2, TextoIntacto
    <3>5. /\ s.directorio[i].nombre \in D
          /\ Z[s.directorio[i].nombre] = Deletreado(s.datos, s.directorio[i].bloques)
      BY <1>3, <1>6, <3>2, <3>3
    <3> HIDE DEF D
    <3>6. f[s.directorio[i].nombre] = Z[s.directorio[i].nombre]
      BY <1>5, <3>3, <3>5
    <3>7. QED BY <3>2, <3>4, <3>5, <3>6
  <2>3. QED BY <2>1, <2>2
<1>7. ASSUME NEW x \in D PROVE x # Vacio /\ \E i \in Slots : u.directorio[i].nombre = x
  <2>1. CASE x = m
    BY <2>1, <1>1, <1>2
  <2>2. CASE x # m
    <3>1. PICK i \in Slots : s.directorio[i].nombre = x /\ x # Vacio /\ x # n
      BY <1>3, <2>2
    <3>2. i # p
      BY <1>2, <3>1
    <3>3. QED BY <1>2, <3>1, <3>2 DEF Igual
  <2>3. QED BY <2>1, <2>2
<1>8. Contenido(u) = f
  <2> HIDE DEF D
  <2>1. QED BY <1>1, <1>5, <1>6, <1>7, MismoContenido
<1>9. QED BY <1>1, <1>4, <1>8 DEF f, Z

\* reemplazar leaves the new text or, on a full disk, an empty one.
LEMMA StoreReemplazado ==
  ASSUME NEW s, Entero(s), NEW n \in Nombres, Existe(s, n), NEW d \in Textos,
         NEW u \in reemplazar(s, n, d)
  PROVE  /\ Entero(u)
         /\ \/ Contenido(u) = Mas(Contenido(s), n, d)
            \/ Contenido(u) = Mas(Contenido(s), n, <<>>)
         /\ n \in DOMAIN Contenido(s)
<1> DEFINE e == eliminar(s, n)
           f == crearInodo(e, n)
           Z == Contenido(s)
<1>1. n \notin NombresLargos
  <2>1. PICK i \in Slots : s.directorio[i].nombre = n
    BY DEF Existe
  <2>2. s.directorio[i] \in INodos
    BY DEF Entero, Bueno, MemoriaBuena, Estados
  <2>3. QED BY <2>1, <2>2, NombresValidos DEF INodos
<1>2. Entero(e) /\ Contenido(e) = Menos(Z, n) /\ n \in DOMAIN Z
  BY StoreEliminado
<1>3. Existe(e, Vacio) /\ ~Existe(e, n)
  BY Eliminado DEF Entero
<1>4. u \in escribir(f, n, d)
  BY DEF reemplazar
<1> HIDE DEF e
<1>5. Entero(f) /\ Existe(f, n) /\ Contenido(f) = Mas(Menos(Z, n), n, <<>>)
  BY <1>1, <1>2, <1>3, StoreCreado, InodoCreado DEF Entero
<1> HIDE DEF f, Z
<1>6. \A t : Mas(Menos(Z, n), n, t) = Mas(Z, n, t)
  <2> SUFFICES ASSUME NEW t PROVE Mas(Menos(Z, n), n, t) = Mas(Z, n, t)
    OBVIOUS
  <2> DEFINE M == Menos(Z, n)
  <2>1. DOMAIN M = DOMAIN Z \ {n} /\ \A x \in DOMAIN M : M[x] = Z[x]
    BY DEF Menos
  <2> HIDE DEF M
  <2>2. DOMAIN M \cup {n} = DOMAIN Z \cup {n}
    BY <2>1
  <2>3. \A x \in DOMAIN Z \cup {n} : x # n => M[x] = Z[x]
    BY <2>1
  <2>4. Mas(M, n, t) = Mas(Z, n, t)
    BY <2>2, <2>3 DEF Mas
  <2>5. QED BY <2>4 DEF M
<1>7. \A t, v : Mas(Mas(Z, n, t), n, v) = Mas(Z, n, v)
  <2> SUFFICES ASSUME NEW t, NEW v PROVE Mas(Mas(Z, n, t), n, v) = Mas(Z, n, v)
    OBVIOUS
  <2> DEFINE M == Mas(Z, n, t)
  <2>1. DOMAIN M = DOMAIN Z \cup {n} /\ \A x \in DOMAIN M : x # n => M[x] = Z[x]
    BY DEF Mas
  <2> HIDE DEF M
  <2>2. DOMAIN M \cup {n} = DOMAIN Z \cup {n}
    BY <2>1
  <2>3. \A x \in DOMAIN Z \cup {n} : x # n => M[x] = Z[x]
    BY <2>1
  <2>4. Mas(M, n, v) = Mas(Z, n, v)
    BY <2>2, <2>3 DEF Mas
  <2>5. QED BY <2>4 DEF M
<1>8. Entero(u) /\ (u = f \/ Contenido(u) = Mas(Contenido(f), n, d))
  BY <1>4, <1>5, StoreEscrito
<1>9. QED BY <1>2, <1>5, <1>6, <1>7, <1>8 DEF Z

\* The destructor finds a saved object saved.
LEMMA DestructorIgual ==
  ASSUME NEW s, Bueno(s)
  PROVE  destructor(s) = s
<1>1. MemoriaBuena(s) /\ s \in Estados /\ EnDisco(s)
  BY DEF Bueno, MemoriaBuena
<1>2. guardarBitmap(s) = s
  <2>1. guardarBitmap(s) = [s EXCEPT !.dBitmap = s.bitmap]
    BY <1>1, BitmapGuardado
  <2>2. QED BY <1>1, <2>1 DEF EnDisco, Estados
<1>3. guardarDirectorio(s) = s
  <2>1. guardarDirectorio(s) = [s EXCEPT !.dDirectorio = s.directorio, !.legible = TRUE]
    BY <1>1, DirectorioGuardado
  <2>2. QED BY <1>1, <2>1 DEF EnDisco, Estados
<1>4. QED BY <1>2, <1>3 DEF destructor

\* Every call is a step of the store, or none.
LEMMA PasoDelStore ==
  ASSUME InvFileSystem, SinHuecos, [UsoNext]_vars
  PROVE  \/ Almacen!Next
         \/ Contenido(fs') = Contenido(fs)
<1> USE DEF InvFileSystem, SinHuecos
<1>1. Entero(fs)
  BY DEF Entero
<1> DEFINE Z == Contenido(fs)
\* The actions of the store in terms of the two states of the object.
<1>2. ASSUME NEW n \in Nombres, n \notin DOMAIN Z, Cardinality(DOMAIN Z) < TDIRECTORIO,
             Contenido(fs') = Mas(Z, n, <<>>)
      PROVE  Almacen!Next
  <2>a. n \notin Almacen!Presentes /\ Cardinality(Almacen!Presentes) < TDIRECTORIO
    <3>1. Almacen!Presentes = DOMAIN Z
      BY DEF Almacen!Presentes, Contenido
    <3>2. QED BY <1>2, <3>1, Zenon
  <2>1. Almacen!Crear(n)
    <3>1. Almacen!Con(n, <<>>) = Mas(Z, n, <<>>)
      BY DEF Almacen!Con, Almacen!Presentes, Mas, Contenido
    <3>2. Contenido(fs') = Almacen!Con(n, <<>>)
      BY <1>2, <3>1
    <3>3. Almacen!Cardinality(Almacen!Presentes) = Cardinality(Almacen!Presentes)
      BY Zenon DEF Almacen!Cardinality, Cardinality
    <3>4. QED BY <2>a, <3>2, <3>3, Zenon DEF Almacen!Crear, Contenido
  <2>2. QED BY <2>1 DEF Almacen!Next
<1>3. ASSUME NEW n \in Nombres, n \in DOMAIN Z, NEW d \in Textos,
             Contenido(fs') = Mas(Z, n, d)
      PROVE  Almacen!Next
  <2>1. Almacen!Escribir(n, d)
    BY <1>3 DEF Almacen!Escribir, Almacen!Con, Almacen!Presentes, Mas, Contenido
  <2>2. QED BY <2>1 DEF Almacen!Next
<1>4. ASSUME NEW n \in Nombres, n \in DOMAIN Z, Contenido(fs') = Mas(Z, n, <<>>)
      PROVE  Almacen!Next
  <2>1. Almacen!Vaciar(n)
    BY <1>4 DEF Almacen!Vaciar, Almacen!Escribir, Almacen!Con, Almacen!Presentes, Mas, Contenido
  <2>2. QED BY <2>1 DEF Almacen!Next
<1>5. ASSUME NEW n \in Nombres, n \in DOMAIN Z, NEW c \in Bytes,
             Contenido(fs') = Mas(Z, n, Append(Z[n], c))
      PROVE  Almacen!Next
  <2>1. Almacen!Agregar(n, c)
    BY <1>5 DEF Almacen!Agregar, Almacen!Con, Almacen!Presentes, Mas, Contenido
  <2>2. QED BY <2>1 DEF Almacen!Next
<1>6. ASSUME NEW n \in Nombres, n \in DOMAIN Z, Contenido(fs') = Menos(Z, n)
      PROVE  Almacen!Next
  <2>1. Almacen!Eliminar(n)
    BY <1>6 DEF Almacen!Eliminar, Almacen!Presentes, Menos, Contenido
  <2>2. QED BY <2>1 DEF Almacen!Next
<1>7. ASSUME NEW n \in Nombres, n \in DOMAIN Z, NEW m \in Nombres, m \notin DOMAIN Z,
             Contenido(fs') = [x \in (DOMAIN Z \ {n}) \cup {m} |-> IF x = m THEN Z[n] ELSE Z[x]]
      PROVE  Almacen!Next
  <2>1. Almacen!Renombrar(n, m)
    BY <1>7 DEF Almacen!Renombrar, Almacen!Presentes, Contenido
  <2>2. QED BY <2>1 DEF Almacen!Next
<1> HIDE DEF Z
<1>8. ASSUME NEW n \in Nombres, UsoCrear(n)
      PROVE  Almacen!Next \/ Contenido(fs') = Z
  <2>1. fs' = crearInodo(fs, n)
    BY <1>8 DEF UsoCrear, CrearInodo
  <2>2. CASE n \in NombresLargos \/ Existe(fs, n) \/ ~Existe(fs, Vacio)
    BY <2>1, <2>2 DEF crearInodo, Z
  <2>3. CASE n \notin NombresLargos /\ ~Existe(fs, n) /\ Existe(fs, Vacio)
    <3>1. /\ Contenido(fs') = Mas(Z, n, <<>>) /\ n \notin DOMAIN Z
          /\ Cardinality(DOMAIN Z) < TDIRECTORIO
      BY <1>1, <2>1, <2>3, StoreCreado DEF Z
    <3>2. QED BY <1>2, <3>1
  <2>4. QED BY <2>2, <2>3
<1>9. ASSUME NEW n \in Nombres, UsoEliminar(n)
      PROVE  Almacen!Next \/ Contenido(fs') = Z
  <2>1. fs' = eliminar(fs, n)
    BY <1>9 DEF UsoEliminar, Eliminar
  <2>2. CASE ~Existe(fs, n)
    BY <2>1, <2>2 DEF eliminar, Z
  <2>3. CASE Existe(fs, n)
    <3>1. Contenido(fs') = Menos(Z, n) /\ n \in DOMAIN Z
      BY <1>1, <2>1, <2>3, StoreEliminado DEF Z
    <3>2. QED BY <1>6, <3>1
  <2>4. QED BY <2>2, <2>3
<1>10. ASSUME NEW n \in Nombres, NEW d \in Textos, UsoEscribir(n, d)
       PROVE  Almacen!Next \/ Contenido(fs') = Z
  <2>1. fs' \in escribir(fs, n, d) /\ Existe(fs, n)
    BY <1>10 DEF UsoEscribir, Escribir
  <2>2. fs' = fs \/ (Contenido(fs') = Mas(Z, n, d) /\ n \in DOMAIN Z)
    BY <1>1, <2>1, StoreEscrito DEF Z
  <2>3. QED BY <1>3, <2>2 DEF Z
<1>11. ASSUME NEW n \in Nombres, NEW d \in Textos, UsoReemplazar(n, d)
       PROVE  Almacen!Next \/ Contenido(fs') = Z
  <2>1. fs' \in reemplazar(fs, n, d)
    BY <1>11 DEF UsoReemplazar, Reemplazar
  <2>2. CASE ~Existe(fs, n)
    BY <2>1, <2>2 DEF reemplazar, Z
  <2>3. CASE Existe(fs, n)
    <3>1. /\ Contenido(fs') = Mas(Z, n, d) \/ Contenido(fs') = Mas(Z, n, <<>>)
          /\ n \in DOMAIN Z
      BY <1>1, <2>1, <2>3, StoreReemplazado DEF Z
    <3>2. QED BY <1>3, <1>4, <3>1
  <2>4. QED BY <2>2, <2>3
<1>12. ASSUME NEW n \in Nombres, NEW c \in Bytes, UsoAgregar(n, c)
       PROVE  Almacen!Next \/ Contenido(fs') = Z
  <2>1. fs' = agregar(fs, n, c) /\ Existe(fs, n)
    BY <1>12 DEF UsoAgregar, Agregar
  <2>2. LET bs == BloquesDe(fs, n)
        IN Len(bs) < MaxFile \/ (bs # <<>> /\ Len(fs.datos[bs[Len(bs)]]) < TBLOQUE)
    BY <1>12 DEF UsoAgregar
  <2>3. fs' = fs \/ (Contenido(fs') = Mas(Z, n, Append(Z[n], c)) /\ n \in DOMAIN Z)
    BY <1>1, <2>1, <2>2, StoreAgregado DEF Z
  <2>4. QED BY <1>5, <2>3 DEF Z
<1>13. ASSUME NEW n \in Nombres, NEW m \in Nombres, UsoRenombrar(n, m)
       PROVE  Almacen!Next \/ Contenido(fs') = Z
  <2>1. fs' = renombrar(fs, n, m) /\ m \notin NombresLargos /\ ~Existe(fs, m)
    BY <1>13 DEF UsoRenombrar, Renombrar
  <2>2. CASE ~Existe(fs, n)
    BY <2>1, <2>2 DEF renombrar, Z
  <2>3. CASE Existe(fs, n)
    <3>1. /\ Contenido(fs') = [x \in (DOMAIN Z \ {n}) \cup {m} |->
                                 IF x = m THEN Z[n] ELSE Z[x]]
          /\ n \in DOMAIN Z /\ m \notin DOMAIN Z
      BY <1>1, <2>1, <2>3, StoreRenombrado DEF Z
    <3>2. QED BY <1>7, <3>1
  <2>4. QED BY <2>2, <2>3
<1>14. ASSUME ReinicioOrdenado PROVE Contenido(fs') = Z
  <2>1. destructor(fs) = fs
    BY DestructorIgual
  <2>2. fs' = fs
    BY <1>14, <2>1, Recargado DEF ReinicioOrdenado
  <2>3. QED BY <2>2 DEF Z
<1>15. ASSUME ReinicioAbrupto PROVE Contenido(fs') = Z
  BY <1>15, Recargado DEF ReinicioAbrupto, Z
<1>16. ASSUME Formatear PROVE Almacen!Next
  <2>1. Contenido(fs') = [n \in {} |-> <<>>]
    BY <1>16 DEF Formatear, Contenido, DiscoNuevo, INodoVacio, INodo
  <2>2. Almacen!Formatear
    BY <2>1 DEF Almacen!Formatear, Contenido
  <2>3. QED BY <2>2 DEF Almacen!Next
<1>17. ASSUME UNCHANGED vars PROVE Contenido(fs') = Z
  BY <1>17 DEF vars, Z
<1>18. QED
  BY <1>8, <1>9, <1>10, <1>11, <1>12, <1>13, <1>14, <1>15, <1>16, <1>17 DEF UsoNext, Z

\* The class implements the store of named texts FileSystem.h documents:
\* whatever the calls and the restarts, each name keeps the text last given
\* to it, and no call touches another name's.
THEOREM ImplementaElStore == UsoSpec => ImplementaAlmacen
<1>1. Init => Almacen!Init
  <2>1. ASSUME Init PROVE Contenido(fs) = [n \in {} |-> <<>>]
    BY <2>1 DEF Init, Contenido, DiscoNuevo, INodoVacio, INodo
  <2>2. QED BY <2>1 DEF Almacen!Init, Contenido
<1>2. /\ InvFileSystem /\ SinHuecos /\ [UsoNext]_vars
      => [Almacen!Next]_([n \in {fs.directorio[i].nombre : i \in Slots} \ {Vacio} |->
                            leer(fs, n, MaxBloques * TBLOQUE)])
  <2>1. SUFFICES ASSUME InvFileSystem, SinHuecos, [UsoNext]_vars,
                        Contenido(fs') = Contenido(fs)
                 PROVE  UNCHANGED [n \in {fs.directorio[i].nombre : i \in Slots} \ {Vacio} |->
                                     leer(fs, n, MaxBloques * TBLOQUE)]
    BY PasoDelStore
  <2>2. QED BY <2>1 DEF Contenido
<1>3. QED
  BY <1>1, <1>2, Inductivo, ArchivosSinHuecos, PTL DEF UsoSpec, ImplementaAlmacen, Almacen!Spec
=============================================================================
