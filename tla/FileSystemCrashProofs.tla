----------------------- MODULE FileSystemCrashProofs ------------------------
(***************************************************************************)
(* Proofs about the file system with its writes one by one: what a restart *)
(* finds wherever the process died, and that without a crash the calls are *)
(* atomic.  The argument: a call changes the memory to that of the state t *)
(* it returns when it is atomic, and every write that is pending puts a    *)
(* part of t on the disk; so one write less pending is one step closer to  *)
(* t, and the one order that matters for a restart is that of the names    *)
(* and their lists.                                                        *)
(*                                                                         *)
(* For what a restart reads, the state u the call started in counts too:   *)
(* a block holds what it held in u or what it holds in t, and a list is    *)
(* that of u until the lists are written and that of t after.              *)
(* Of the bitmap the disk has what the memory has unless its write is      *)
(* pending, and a call that adds blocks writes it before the lists.        *)
(***************************************************************************)
EXTENDS FileSystemCrash, FileSystemProofs

\* What a restart may find in an inode after a crash: any blocks.
INodosLeidos == [nombre : (Nombres \ NombresLargos) \cup {Vacio}, bloques : Seq(Bloques)]

\* Memory and disk as a crash may leave them, the metadata readable.
Discos ==
  [directorio : [Slots -> INodosLeidos], bitmap : SUBSET Bloques, nFiles : 0 .. TDIRECTORIO,
   dDirectorio : [Slots -> INodosLeidos], dBitmap : SUBSET Bloques,
   datos : [Bloques -> Trozos], legible : {TRUE}]

\* The names on the disk fill the first slots, each once.
Compactado(dir) == \E k \in 0 .. TDIRECTORIO : Compacto([directorio |-> dir, nFiles |-> k])

\* Whatever instant the process dies at, the next one finds the names in the
\* first slots and the reserved blocks marked.
Arrancable(s) ==
  /\ s \in Discos /\ Reservados \subseteq s.bitmap /\ Reservados \subseteq s.dBitmap
  /\ Compacto(s) /\ Compactado(s.dDirectorio)

\* Between calls: the inodes hold data blocks and the disk has the directory
\* of the memory.
Base(s) ==
  /\ Arrancable(s) /\ s.directorio \in [Slots -> INodos] /\ s.dDirectorio = s.directorio

\* The writes Grabar makes one by one.
Escrituras ==
  [que : {"bloque", "bitmap", "nombres", "listas"}, bloque : Bloques, texto : Trozos]

\* A write of this kind is still to be made.
Falta(P, q) == \E i \in DOMAIN P : P[i].que = q

\* The write of this block is still to be made.
FaltaBloque(P, b) == \E i \in DOMAIN P : P[i].que = "bloque" /\ P[i].bloque = b

\* The writes P put on the disk what t holds: the blocks of t, its bitmap, and
\* the lists right after the names.
Hacia(P, t) ==
  /\ P \in Seq(Escrituras)
  /\ \A i \in DOMAIN P :
       /\ P[i].que = "bloque" => P[i].bloque \in DataBloques /\ P[i].texto = t.datos[P[i].bloque]
       /\ P[i].que = "nombres" => i + 1 \in DOMAIN P /\ P[i + 1].que = "listas"
       /\ P[i].que = "bitmap" => t.dBitmap = t.bitmap \cap (0 .. EntradasGuardadas - 1)

\* The memory of s is that of t, and its disk will be that of t once the
\* writes P are made: what they do not write is there already.
Cerca(s, t, P) ==
  /\ Hacia(P, t)
  /\ s.directorio = t.directorio /\ s.bitmap = t.bitmap /\ s.nFiles = t.nFiles
  /\ \A b \in Bloques : FaltaBloque(P, b) \/ s.datos[b] = t.datos[b]
  /\ Falta(P, "bitmap") \/ s.dBitmap = t.dBitmap
  /\ Falta(P, "listas") \/ s.dDirectorio = t.dDirectorio
  /\ s.dDirectorio \in [Slots -> INodos] \/ (P # <<>> /\ P[1].que = "listas")
-----------------------------------------------------------------------------
\* The file system of the refinement looks names up as this one does: the
\* operators of an instance are copies of those of the module.
LEMMA MismoBuscar ==
  /\ \A s, n : Atomico!Existe(s, n) <=> Existe(s, n)
  /\ \A s, n : Atomico!buscarArchivoPorNombre(s, n) = buscarArchivoPorNombre(s, n)
BY Zenon DEF Atomico!Existe, Existe, Atomico!buscarArchivoPorNombre, buscarArchivoPorNombre,
   Atomico!Slots, Slots

\* The copy of Solape: the data blocks the metadata run into.
LEMMA MismoSolape == \A dir : Atomico!Solape(dir) = Solape(dir)
BY Zenon DEF Atomico!Solape, Solape, Atomico!Palabras, Palabras, Atomico!PalabrasINodo, PalabrasINodo,
   Atomico!Bloques, Bloques, Atomico!Slots, Slots, Atomico!MaxBloques, MaxBloques, Atomico!Cardinality, Cardinality

\* The copies of guardarDirectorio and guardarBitmap.
LEMMA MismoGuardar ==
  /\ \A s : Atomico!guardarDirectorio(s) = guardarDirectorio(s)
  /\ \A s : Atomico!guardarBitmap(s) = guardarBitmap(s)
<1>1. \A s : Atomico!guardarDirectorio(s) = guardarDirectorio(s)
  BY MismoSolape, Zenon DEF Atomico!guardarDirectorio, guardarDirectorio, Atomico!Slots, Slots,
     Atomico!Bloques, Bloques, Atomico!INodo, INodo, Atomico!NombreGuardado, NombreGuardado
<1>2. \A s : Atomico!guardarBitmap(s) = guardarBitmap(s)
  BY Zenon DEF Atomico!guardarBitmap, guardarBitmap
<1> QED BY <1>1, <1>2

\* The copy of escribirBloques.
LEMMA MismoEscribirBloques == \A s, bs, c : Atomico!escribirBloques(s, bs, c) = escribirBloques(s, bs, c)
BY MismoSolape, Zenon DEF Atomico!escribirBloques, escribirBloques, Atomico!Bloques, Bloques, Atomico!Range, Range

\* The copy of Asignaciones: the blocks a text may be given.
LEMMA MismoAsignaciones == \A s, k : Atomico!Asignaciones(s, k) = Asignaciones(s, k)
BY Zenon DEF Atomico!Asignaciones, Asignaciones, Atomico!Libres, Libres, Atomico!Range, Range

\* The copies of the saves in the orders the calls make them.
LEMMA MismosMetadatos ==
  /\ \A s : Atomico!guardarDirectorio(Atomico!guardarBitmap(s)) = guardarDirectorio(guardarBitmap(s))
  /\ \A s, bs, c : Atomico!guardarDirectorio(Atomico!guardarBitmap(Atomico!escribirBloques(s, bs, c)))
                   = guardarDirectorio(guardarBitmap(escribirBloques(s, bs, c)))
  /\ \A s, bs, c : Atomico!escribirBloques(Atomico!guardarDirectorio(Atomico!guardarBitmap(s)), bs, c)
                   = escribirBloques(guardarDirectorio(guardarBitmap(s)), bs, c)
BY MismoEscribirBloques, MismoGuardar

\* The copy of escribirEn, the body of escribir once it has a slot.
LEMMA MismoEscribirEn == \A s, p, n, d, a : Atomico!escribirEn(s, p, n, d, a) = escribirEn(s, p, n, d, a)
<1> SUFFICES ASSUME NEW s, NEW p, NEW n, NEW d, NEW a
             PROVE  Atomico!escribirEn(s, p, n, d, a) = escribirEn(s, p, n, d, a)
  OBVIOUS
<1> DEFINE viejos == IF s.directorio[p].nombre = Vacio THEN {}
                     ELSE Range(s.directorio[p].bloques)
           puestos == SubSeq(a, 1, IF Len(a) <= MaxBloques THEN Len(a) ELSE MaxBloques)
           m == [s EXCEPT !.bitmap = (@ \cup Range(a)) \ viejos,
                          !.directorio[p] = INodo(n, puestos)]
           c == [i \in DOMAIN puestos |-> Trozo(d, i)]
           t == escribirBloques(m, puestos, c)
           u == Atomico!escribirBloques(m, puestos, c)
<1>1. escribirEn(s, p, n, d, a)
        = IF Len(a) <= MaxBloques THEN guardarDirectorio(guardarBitmap(t))
          ELSE [t EXCEPT !.bitmap = @ \ Range(a)]
  BY Zenon DEF escribirEn
<1>2. Atomico!escribirEn(s, p, n, d, a)
        = IF Len(a) <= MaxBloques THEN Atomico!guardarDirectorio(Atomico!guardarBitmap(u))
          ELSE [u EXCEPT !.bitmap = @ \ Range(a)]
  BY Zenon DEF Atomico!escribirEn, Atomico!INodo, INodo, Atomico!MaxBloques, MaxBloques,
     Atomico!Range, Range, Atomico!Trozo, Trozo
<1> HIDE DEF m, puestos, c, viejos
<1>3. u = t
  BY MismoEscribirBloques
<1> HIDE DEF t, u
<1> QED BY <1>1, <1>2, <1>3, MismosMetadatos

\* The copy of escribir.
LEMMA MismoEscribir == \A s, n, d : Atomico!escribir(s, n, d) = escribir(s, n, d)
<1> SUFFICES ASSUME NEW s, NEW n, NEW d PROVE Atomico!escribir(s, n, d) = escribir(s, n, d)
  OBVIOUS
<1>1. Atomico!BloquesPara(d) = BloquesPara(d)
  BY Zenon DEF Atomico!BloquesPara, BloquesPara
<1>2. Atomico!Asignaciones(s, Atomico!BloquesPara(d)) = Asignaciones(s, BloquesPara(d))
  BY <1>1, MismoAsignaciones
<1> DEFINE q == buscarArchivoPorNombre(s, IF Existe(s, n) THEN n ELSE Vacio)
<1>3. Atomico!buscarArchivoPorNombre(s, IF Atomico!Existe(s, n) THEN n ELSE Vacio) = q
  BY MismoBuscar
<1>4. \A a : Atomico!escribirEn(s, q, n, d, a) = escribirEn(s, q, n, d, a)
  BY MismoEscribirEn
<1>5. (~Atomico!Existe(s, n) /\ ~Atomico!Existe(s, Vacio)) <=> (~Existe(s, n) /\ ~Existe(s, Vacio))
  BY MismoBuscar
<1> HIDE DEF q
<1> DEFINE A == Asignaciones(s, BloquesPara(d))
<1>6. {Atomico!escribirEn(s, q, n, d, a) : a \in A} = {escribirEn(s, q, n, d, a) : a \in A}
  BY <1>4
<1> QED BY <1>2, <1>3, <1>5, <1>6, Zenon DEF Atomico!escribir, escribir, q

\* The copy of crearInodo.
LEMMA MismoCrear == \A s, n : Atomico!crearInodo(s, n) = crearInodo(s, n)
BY MismoBuscar, MismoGuardar, Zenon DEF Atomico!crearInodo, crearInodo, Atomico!INodo, INodo

\* The copy of agregar.
LEMMA MismoAgregar == \A s, n, c : Atomico!agregar(s, n, c) = agregar(s, n, c)
<1> SUFFICES ASSUME NEW s, NEW n, NEW c PROVE Atomico!agregar(s, n, c) = agregar(s, n, c)
  OBVIOUS
<1> DEFINE p == buscarArchivoPorNombre(s, n)
           bs == s.directorio[p].bloques
           ultimo == obtenerUltimoBloque(s.directorio[p])
           b == buscarBloqueLibre(s)
           t == [s EXCEPT !.directorio[p].bloques = Append(bs, b),
                          !.bitmap = @ \cup {b}]
           byte == <<Append(s.datos[ultimo], c)>>
<1>1. agregar(s, n, c)
        = IF ~Existe(s, n) THEN s
          ELSE IF bs # <<>> /\ Len(s.datos[ultimo]) < TBLOQUE
          THEN escribirBloques(s, <<ultimo>>, byte)
          ELSE IF Libres(s) = {} \/ Len(bs) = MaxBloques THEN s
          ELSE IF bs = <<>>
          THEN guardarDirectorio(guardarBitmap(escribirBloques(t, <<b>>, << <<c>> >>)))
          ELSE escribirBloques(guardarDirectorio(guardarBitmap(t)), <<b>>, << <<c>> >>)
  BY Zenon DEF agregar
<1>2. Atomico!agregar(s, n, c)
        = IF ~Atomico!Existe(s, n) THEN s
          ELSE IF bs # <<>> /\ Len(s.datos[ultimo]) < TBLOQUE
          THEN Atomico!escribirBloques(s, <<ultimo>>, byte)
          ELSE IF Libres(s) = {} \/ Len(bs) = MaxBloques THEN s
          ELSE IF bs = <<>>
          THEN Atomico!guardarDirectorio(Atomico!guardarBitmap(Atomico!escribirBloques(t, <<b>>, << <<c>> >>)))
          ELSE Atomico!escribirBloques(Atomico!guardarDirectorio(Atomico!guardarBitmap(t)), <<b>>, << <<c>> >>)
  BY Zenon DEF Atomico!agregar, Atomico!buscarArchivoPorNombre, buscarArchivoPorNombre, Atomico!Slots, Slots,
     Atomico!obtenerUltimoBloque, obtenerUltimoBloque, Atomico!buscarBloqueLibre, buscarBloqueLibre,
     Atomico!Libres, Libres, Atomico!MaxBloques, MaxBloques
<1> HIDE DEF p, bs, ultimo, b, t, byte
<1> QED BY <1>1, <1>2, MismoBuscar, MismosMetadatos, MismoEscribirBloques

\* The copy of eliminar.
LEMMA MismoEliminar == \A s, n : Atomico!eliminar(s, n) = eliminar(s, n)
<1> SUFFICES ASSUME NEW s, NEW n PROVE Atomico!eliminar(s, n) = eliminar(s, n)
  OBVIOUS
<1> DEFINE p == buscarArchivoPorNombre(s, n)
           bs == Range(s.directorio[p].bloques)
           fin == s.nFiles - 1
           dir == IF p < fin THEN [s.directorio EXCEPT ![p] = s.directorio[fin]]
                  ELSE s.directorio
           t == [s EXCEPT !.bitmap = @ \ bs,
                      !.datos = [b \in Bloques |-> IF b \in bs THEN <<>> ELSE s.datos[b]],
                      !.directorio = [dir EXCEPT ![fin] = INodoVacio],
                      !.nFiles = fin]
<1>1. eliminar(s, n) = IF ~Existe(s, n) THEN s ELSE guardarDirectorio(guardarBitmap(t))
  BY Zenon DEF eliminar
<1>2. Atomico!eliminar(s, n) = IF ~Atomico!Existe(s, n) THEN s
                               ELSE Atomico!guardarDirectorio(Atomico!guardarBitmap(t))
  BY Zenon DEF Atomico!eliminar, Atomico!buscarArchivoPorNombre, buscarArchivoPorNombre, Atomico!Slots, Slots,
   Atomico!Range, Range, Atomico!Bloques, Bloques, Atomico!INodoVacio, INodoVacio, Atomico!INodo, INodo
<1> HIDE DEF t
<1> QED BY <1>1, <1>2, MismoBuscar, MismosMetadatos

\* The copy of renombrar.
LEMMA MismoRenombrar == \A s, n, m : Atomico!renombrar(s, n, m) = renombrar(s, n, m)
BY MismoBuscar, MismoGuardar, Zenon DEF Atomico!renombrar, renombrar

\* The copies of cargar, the constructor, and of the destructor.
LEMMA MismoCargar ==
  /\ \A s : Atomico!cargar(s) = cargar(s)
  /\ \A s : Atomico!destructor(s) = destructor(s)
<1>1. \A s : Atomico!cargar(s) = cargar(s)
  BY Zenon DEF Atomico!cargar, cargar, Atomico!MaxBloques, MaxBloques, Atomico!Bloques, Bloques,
     Atomico!Slots, Slots, Atomico!cargarBitmap, cargarBitmap, Atomico!Cardinality, Cardinality
<1>2. \A s : Atomico!destructor(s) = destructor(s)
  BY MismoGuardar, Zenon DEF Atomico!destructor, destructor
<1> QED BY <1>1, <1>2

\* With inodes of data blocks the metadata fit their block and every name its
\* entry: a save changes nothing but its own part of the disk.
LEMMA Metadatos ==
  ASSUME NEW s \in Discos, s.directorio \in [Slots -> INodos]
  PROVE  /\ guardarDirectorio(s) = [s EXCEPT !.dDirectorio = s.directorio]
         /\ guardarBitmap(s) = [s EXCEPT !.dBitmap = s.bitmap \cap (0 .. EntradasGuardadas - 1)]
<1>1. Solape(s.directorio) = {}
  BY SinSolape
<1>2. [i \in Slots |-> INodo(NombreGuardado(s.directorio[i].nombre), s.directorio[i].bloques)]
        = s.directorio
  <2>1. ASSUME NEW i \in Slots
        PROVE  INodo(NombreGuardado(s.directorio[i].nombre), s.directorio[i].bloques)
                 = s.directorio[i]
    <3>1. s.directorio[i] \in INodos
      OBVIOUS
    <3>2. NombreGuardado(s.directorio[i].nombre) = s.directorio[i].nombre
      BY <3>1, NombresValidos DEF INodos, NombreGuardado
    <3> QED BY <3>1, <3>2 DEF INodos, INodo
  <2> QED BY <2>1
<1>3. [b \in Bloques |-> IF b \in {} THEN <<ByteMeta>> ELSE s.datos[b]] = s.datos
  <2>1. s.datos \in [Bloques -> Trozos]
    BY DEF Discos
  <2> QED BY <2>1
<1>4. guardarDirectorio(s) = [s EXCEPT !.dDirectorio = s.directorio, !.datos = s.datos,
                                       !.legible = TRUE]
  BY <1>1, <1>2, <1>3 DEF guardarDirectorio
<1>5. guardarDirectorio(s) = [s EXCEPT !.dDirectorio = s.directorio]
  BY <1>4 DEF Discos
<1> QED BY <1>5 DEF guardarBitmap

\* Writing data blocks changes those blocks only, and leaves them with the
\* characters given when no block comes twice.
LEMMA BloquesGrabados ==
  ASSUME NEW s \in Discos, s.dDirectorio \in [Slots -> INodos],
         NEW bs \in Seq(DataBloques), NEW c, \A i \in DOMAIN bs : c[i] \in Trozos
  PROVE  LET u == escribirBloques(s, bs, c)
         IN /\ u \in Discos
            /\ u = [s EXCEPT !.datos = u.datos]
            /\ \A b \in Bloques : b \notin Range(bs) => u.datos[b] = s.datos[b]
            /\ (\A i, j \in DOMAIN bs : bs[i] = bs[j] => i = j)
               => \A i \in DOMAIN bs : u.datos[bs[i]] = c[i]
<1> DEFINE u == escribirBloques(s, bs, c)
           dd == [b \in Bloques |-> IF \E i \in DOMAIN bs : bs[i] = b
                                    THEN c[CHOOSE i \in DOMAIN bs : bs[i] = b]
                                    ELSE s.datos[b]]
<1>2. dd \in [Bloques -> Trozos]
  <2>1. s.datos \in [Bloques -> Trozos]
    BY DEF Discos
  <2> QED BY <2>1
<1>3. u = [s EXCEPT !.datos = dd]
  <2>1. Range(bs) \cap Solape(s.dDirectorio) = {}
    BY SinSolape
  <2>2. u = [s EXCEPT !.datos = dd, !.legible = s.legible /\ Range(bs) \cap Solape(s.dDirectorio) = {}]
    BY DEF escribirBloques
  <2>3. (s.legible /\ Range(bs) \cap Solape(s.dDirectorio) = {}) = TRUE
    BY <2>1 DEF Discos
  <2> HIDE DEF u, dd
  <2>4. u = [s EXCEPT !.datos = dd, !.legible = TRUE]
    BY <2>2, <2>3
  <2> QED BY <2>4 DEF Discos
<1>4. \A b \in Bloques : b \notin Range(bs) => dd[b] = s.datos[b]
  BY DEF Range
<1>5. ASSUME \A i, j \in DOMAIN bs : bs[i] = bs[j] => i = j, NEW i \in DOMAIN bs
      PROVE  dd[bs[i]] = c[i]
  <2>1. bs[i] \in Bloques
    <3>1. bs[i] \in DataBloques
      BY ElementOfSeq
    <3> QED BY <3>1, Constantes DEF DataBloques, Bloques
  <2>2. (CHOOSE j \in DOMAIN bs : bs[j] = bs[i]) = i
    BY <1>5
  <2> QED BY <2>1, <2>2
<1> HIDE DEF dd, u
<1>6. u \in Discos /\ u.datos = dd
  BY <1>2, <1>3 DEF Discos
<1> QED BY <1>3, <1>4, <1>5, <1>6 DEF u

\* With no write left the state is the one the call promised.
LEMMA Grabado ==
  ASSUME NEW s, NEW t, Base(t), Cerca(s, t, <<>>), s \in Discos
  PROVE  s = t
<1>1. s.datos = t.datos
  <2>1. s.datos \in [Bloques -> Trozos] /\ t.datos \in [Bloques -> Trozos]
    BY DEF Base, Arrancable, Discos
  <2>2. \A b \in Bloques : s.datos[b] = t.datos[b]
    BY DEF Cerca, FaltaBloque
  <2> QED BY <2>1, <2>2
<1>2. s.dBitmap = t.dBitmap /\ s.dDirectorio = t.dDirectorio
  BY DEF Cerca, Falta
<1>3. s.directorio = t.directorio /\ s.bitmap = t.bitmap /\ s.nFiles = t.nFiles
  BY DEF Cerca, Hacia
<1>4. t \in Discos
  BY DEF Base, Arrancable
<1>5. s.legible = t.legible
  BY <1>4 DEF Discos
<1> QED BY <1>1, <1>2, <1>3, <1>4, <1>5 DEF Discos

\* The writes that remain when the first one is made.
LEMMA SinLaPrimera ==
  ASSUME NEW P \in Seq(Escrituras), P # <<>>
  PROVE  /\ Head(P) = P[1] /\ 1 \in DOMAIN P /\ Tail(P) \in Seq(Escrituras)
         /\ \A i \in DOMAIN P : i # 1 => i - 1 \in DOMAIN Tail(P) /\ Tail(P)[i - 1] = P[i]
         /\ \A i \in DOMAIN Tail(P) : i + 1 \in DOMAIN P /\ Tail(P)[i] = P[i + 1]
         /\ \A q : Falta(P, q) => P[1].que = q \/ Falta(Tail(P), q)
         /\ \A b : FaltaBloque(P, b) => (P[1].que = "bloque" /\ P[1].bloque = b) \/ FaltaBloque(Tail(P), b)
<1>1. /\ Head(P) = P[1] /\ 1 \in DOMAIN P /\ Tail(P) \in Seq(Escrituras)
      /\ \A i \in DOMAIN P : i # 1 => i - 1 \in DOMAIN Tail(P) /\ Tail(P)[i - 1] = P[i]
      /\ \A i \in DOMAIN Tail(P) : i + 1 \in DOMAIN P /\ Tail(P)[i] = P[i + 1]
  OBVIOUS
<1>2. ASSUME NEW q, Falta(P, q) PROVE P[1].que = q \/ Falta(Tail(P), q)
  <2>1. PICK i \in DOMAIN P : P[i].que = q
    BY <1>2 DEF Falta
  <2>2. CASE i = 1
    BY <2>1, <2>2
  <2>3. CASE i # 1
    BY <1>1, <2>1, <2>3, Zenon DEF Falta
  <2> QED BY <2>2, <2>3
<1>3. ASSUME NEW b, FaltaBloque(P, b)
      PROVE  (P[1].que = "bloque" /\ P[1].bloque = b) \/ FaltaBloque(Tail(P), b)
  <2>1. PICK i \in DOMAIN P : P[i].que = "bloque" /\ P[i].bloque = b
    BY <1>3 DEF FaltaBloque
  <2>2. CASE i = 1
    BY <2>1, <2>2
  <2>3. CASE i # 1
    BY <1>1, <2>1, <2>3, Zenon DEF FaltaBloque
  <2> QED BY <2>2, <2>3
<1> QED BY <1>1, <1>2, <1>3, Zenon

\* The entries saved of the bitmap reach the reserved blocks.
LEMMA Reserva == firstDataBlock < EntradasGuardadas \/ CANTIDADBLOQUES <= EntradasGuardadas
<1>1. (TDIRECTORIO + 1) * MaxFile \in Nat
  BY Constantes
<1> QED BY <1>1, BitmapAlcanza, Constantes

\* A saved bitmap keeps the reserved blocks marked.
LEMMA ReservaGuardada ==
  ASSUME NEW B \in SUBSET Bloques, Reservados \subseteq B
  PROVE  Reservados \subseteq B \cap (0 .. EntradasGuardadas - 1)
BY Reserva, Constantes DEF Reservados, Bloques

\* New names over the lists of before.
LEMMA NombresGrabados ==
  ASSUME NEW s, Arrancable(s), s.directorio \in [Slots -> INodos], NEW u \in NombresSobreListas(s)
  PROVE  /\ Arrancable(u) /\ u = [s EXCEPT !.dDirectorio = u.dDirectorio]
<1> DEFINE listas == UNION {[1 .. k -> Bloques] : k \in 0 .. MaxBloques}
           nuevos == Ocupados(s.directorio)
           viejos == Ocupados(s.dDirectorio)
           De(i) == {j \in viejos : Orden(s.dDirectorio, j) = Orden(s.directorio, i)}
           dir(resto) ==
             [i \in Slots |->
                IF i \notin nuevos THEN INodoVacio
                ELSE INodo(NombreGuardado(s.directorio[i].nombre),
                           IF De(i) = {} THEN resto
                           ELSE s.dDirectorio[CHOOSE j \in De(i) : TRUE].bloques)]
<1>1. PICK resto \in IF \E i \in nuevos : De(i) = {} THEN listas ELSE {<<>>} :
        u = [s EXCEPT !.dDirectorio = dir(resto)]
  BY Zenon DEF NombresSobreListas
<1>2. resto \in Seq(Bloques)
  <2>1. ASSUME NEW k \in 0 .. MaxBloques, NEW l \in [1 .. k -> Bloques] PROVE l \in Seq(Bloques)
    <3>1. k \in Nat
      BY Constantes
    <3> QED BY <3>1
  <2>2. <<>> \in Seq(Bloques)
    OBVIOUS
  <2> QED BY <2>1, <2>2
<1>3. s \in Discos
  BY DEF Arrancable
<1>4. s.dDirectorio \in [Slots -> INodosLeidos]
  BY <1>3 DEF Discos
<1> DEFINE l(i) == IF De(i) = {} THEN resto ELSE s.dDirectorio[CHOOSE j \in De(i) : TRUE].bloques
<1>5. ASSUME NEW i \in Slots PROVE l(i) \in Seq(Bloques)
  <2>1. De(i) # {} => (CHOOSE j \in De(i) : TRUE) \in Slots
    BY DEF Ocupados
  <2>2. \A j \in Slots : s.dDirectorio[j].bloques \in Seq(Bloques)
    BY <1>4 DEF INodosLeidos
  <2> HIDE DEF De
  <2> QED BY <1>2, <2>1, <2>2
<1> HIDE DEF De
<1> DEFINE dd == dir(resto)
<1>6. ASSUME NEW i \in Slots
      PROVE  /\ dd[i] = IF s.directorio[i].nombre = Vacio THEN INodo(Vacio, <<>>)
                        ELSE INodo(s.directorio[i].nombre, l(i))
             /\ dd[i] \in INodosLeidos
  <2>1. s.directorio[i].nombre \in (Nombres \ NombresLargos) \cup {Vacio}
    BY DEF INodos
  <2>2. NombreGuardado(s.directorio[i].nombre) = s.directorio[i].nombre
    BY <2>1, NombresValidos DEF NombreGuardado
  <2>3. i \in nuevos <=> s.directorio[i].nombre # Vacio
    BY DEF Ocupados
  <2>4. dd[i] = IF s.directorio[i].nombre = Vacio THEN INodo(Vacio, <<>>)
                ELSE INodo(s.directorio[i].nombre, l(i))
    BY <2>2, <2>3 DEF INodoVacio
  <2>5. <<>> \in Seq(Bloques)
    OBVIOUS
  <2> HIDE DEF dd, l
  <2> QED BY <1>5, <2>1, <2>4, <2>5 DEF INodo, INodosLeidos
<1>7. dd \in [Slots -> INodosLeidos]
  BY <1>6
<1> HIDE DEF dd, l
<1>8. u = [s EXCEPT !.dDirectorio = dd]
  BY <1>1 DEF dd
<1>9. u \in Discos /\ u.dDirectorio = dd /\ u.directorio = s.directorio /\ u.nFiles = s.nFiles
      /\ u.bitmap = s.bitmap /\ u.dBitmap = s.dBitmap
  BY <1>3, <1>7, <1>8 DEF Discos
<1>10. Compactado(dd)
  <2> DEFINE k == s.nFiles
             r == [directorio |-> dd, nFiles |-> k]
  <2>1. k \in 0 .. TDIRECTORIO /\ Compacto(s)
    BY <1>3 DEF Arrancable, Discos
  <2>2. \A i \in Slots : dd[i].nombre = s.directorio[i].nombre
                        /\ (dd[i].nombre = Vacio => dd[i].bloques = <<>>)
    <3> TAKE i \in Slots
    <3>1. CASE s.directorio[i].nombre = Vacio
      <4>1. dd[i] = INodo(Vacio, <<>>)
        BY <1>6, <3>1
      <4> QED BY <3>1, <4>1 DEF INodo
    <3>2. CASE s.directorio[i].nombre # Vacio
      <4>1. dd[i] = INodo(s.directorio[i].nombre, l(i))
        BY <1>6, <3>2
      <4> QED BY <3>2, <4>1 DEF INodo
    <3> QED BY <3>1, <3>2
  <2>3. 0 .. k - 1 \subseteq Slots
    BY <2>1, Constantes DEF Slots
  <2>4. \A i \in Slots : i \in Int
    BY DEF Slots
  <2>5. Compacto(r)
    BY <2>1, <2>2, <2>3, <2>4 DEF Compacto
  <2> QED BY <2>1, <2>5 DEF Compactado
<1> QED BY <1>8, <1>9, <1>10 DEF Arrancable, Compacto

\* One write of Grabar leaves a disk that can be started from, one write
\* closer to what the call promised.
LEMMA PasoGrabado ==
  ASSUME NEW s, Arrancable(s), NEW t, Base(t), NEW P, P # <<>>, Cerca(s, t, P),
         NEW u \in Grabada(s, Head(P))
  PROVE  Arrancable(u) /\ Cerca(u, t, Tail(P))
<1> DEFINE e == Head(P)
<1>0. P \in Seq(Escrituras)
  BY DEF Cerca, Hacia
<1>1. /\ e = P[1] /\ 1 \in DOMAIN P /\ Tail(P) \in Seq(Escrituras) /\ e \in Escrituras
      /\ \A i \in DOMAIN Tail(P) : i + 1 \in DOMAIN P /\ Tail(P)[i] = P[i + 1]
  BY <1>0, SinLaPrimera
<1>2. /\ \A q : Falta(P, q) => e.que = q \/ Falta(Tail(P), q)
      /\ \A b : FaltaBloque(P, b) => (e.que = "bloque" /\ e.bloque = b) \/ FaltaBloque(Tail(P), b)
  BY <1>0, SinLaPrimera
<1>3. \A i \in DOMAIN Tail(P) :
        LET x == Tail(P)[i] IN
        /\ x.que = "bloque" => x.bloque \in DataBloques /\ x.texto = t.datos[x.bloque]
        /\ x.que = "nombres" => i + 1 \in DOMAIN Tail(P) /\ Tail(P)[i + 1].que = "listas"
        /\ x.que = "bitmap" => t.dBitmap = t.bitmap \cap (0 .. EntradasGuardadas - 1)
  <2> TAKE i \in DOMAIN Tail(P)
  <2>1. i + 1 \in DOMAIN P /\ Tail(P)[i] = P[i + 1] /\ i \in Nat \ {0}
    BY <1>0, <1>1
  <2>2. i + 1 + 1 \in DOMAIN P => i + 1 \in DOMAIN Tail(P) /\ Tail(P)[i + 1] = P[i + 1 + 1]
    <3>1. i + 1 + 1 # 1 /\ i + 1 + 1 - 1 = i + 1
      BY <2>1
    <3> QED BY <1>0, <3>1, SinLaPrimera
  <2> QED BY <2>1, <2>2 DEF Cerca, Hacia
<1>4. /\ s.directorio = t.directorio /\ s.bitmap = t.bitmap /\ s.nFiles = t.nFiles
      /\ s.directorio \in [Slots -> INodos] /\ s \in Discos
  BY DEF Cerca, Base, Arrancable
<1>5. e.que # "listas" => s.dDirectorio \in [Slots -> INodos]
  BY <1>1 DEF Cerca, Hacia
<1>6. /\ e.que = "bloque" => e.bloque \in DataBloques /\ e.texto = t.datos[e.bloque]
      /\ e.que = "nombres" => 1 \in DOMAIN Tail(P) /\ Tail(P)[1].que = "listas"
      /\ e.que = "bitmap" => t.dBitmap = t.bitmap \cap (0 .. EntradasGuardadas - 1)
  <2>1. e.que = "nombres" => 2 \in DOMAIN P /\ P[2].que = "listas"
    BY <1>1 DEF Cerca, Hacia
  <2>2. 2 \in DOMAIN P => 1 \in DOMAIN Tail(P) /\ Tail(P)[1] = P[2]
    BY <1>0
  <2> QED BY <1>1, <2>1, <2>2 DEF Cerca, Hacia
<1>7. /\ \A b \in Bloques : FaltaBloque(P, b) \/ s.datos[b] = t.datos[b]
      /\ Falta(P, "bitmap") \/ s.dBitmap = t.dBitmap
      /\ Falta(P, "listas") \/ s.dDirectorio = t.dDirectorio
  BY DEF Cerca, Hacia
<1>8. e.que \in {"bloque", "bitmap", "nombres", "listas"} /\ e.texto \in Trozos
  BY <1>1 DEF Escrituras
<1> HIDE DEF e
<1>9. CASE e.que = "bloque"
  <2>1. u = escribirBloques(s, <<e.bloque>>, <<e.texto>>)
    BY <1>9 DEF Grabada, e
  <2>2. e.bloque \in DataBloques /\ s.dDirectorio \in [Slots -> INodos]
    BY <1>5, <1>6, <1>9
  <2> DEFINE bs == <<e.bloque>>
             c == <<e.texto>>
  <2>3. /\ bs \in Seq(DataBloques) /\ DOMAIN bs = {1} /\ bs[1] = e.bloque
        /\ \A i \in DOMAIN bs : c[i] \in Trozos
        /\ \A i, j \in DOMAIN bs : bs[i] = bs[j] => i = j
        /\ c[1] = e.texto
    BY <1>8, <2>2
  <2> HIDE DEF bs, c
  <2>4. /\ u \in Discos
        /\ u = [s EXCEPT !.datos = u.datos]
        /\ \A b \in Bloques : b \notin Range(bs) => u.datos[b] = s.datos[b]
        /\ u.datos[bs[1]] = c[1]
    <3>1. u = escribirBloques(s, bs, c)
      BY <2>1 DEF bs, c
    <3>2. \A i, j \in DOMAIN bs : bs[i] = bs[j] => i = j
      BY <2>3
    <3>3. LET v == escribirBloques(s, bs, c)
          IN /\ v \in Discos
             /\ v = [s EXCEPT !.datos = v.datos]
             /\ \A b \in Bloques : b \notin Range(bs) => v.datos[b] = s.datos[b]
             /\ (\A i, j \in DOMAIN bs : bs[i] = bs[j] => i = j)
                => \A i \in DOMAIN bs : v.datos[bs[i]] = c[i]
      BY <1>4, <2>2, <2>3, BloquesGrabados
    <3>4. 1 \in DOMAIN bs
      BY <2>3
    <3> QED BY <3>1, <3>2, <3>3, <3>4
  <2>5. /\ u.directorio = s.directorio /\ u.bitmap = s.bitmap /\ u.nFiles = s.nFiles
        /\ u.dDirectorio = s.dDirectorio /\ u.dBitmap = s.dBitmap
    BY <1>4, <2>4 DEF Discos
  <2>6. \A b \in Bloques : FaltaBloque(Tail(P), b) \/ u.datos[b] = t.datos[b]
    <3>1. \A b \in Bloques : b # e.bloque => u.datos[b] = s.datos[b]
      BY <2>3, <2>4 DEF Range
    <3>2. u.datos[e.bloque] = t.datos[e.bloque]
      BY <1>6, <1>9, <2>3, <2>4
    <3> QED BY <1>2, <1>7, <3>1, <3>2
  <2>7. Arrancable(u)
    BY <2>4, <2>5 DEF Arrancable, Compacto
  <2>8. /\ Falta(Tail(P), "bitmap") \/ u.dBitmap = t.dBitmap
        /\ Falta(Tail(P), "listas") \/ u.dDirectorio = t.dDirectorio
    BY <1>2, <1>7, <1>9, <2>5
  <2> QED BY <1>1, <1>3, <1>4, <2>2, <2>5, <2>6, <2>7, <2>8 DEF Cerca, Hacia
<1>10. CASE e.que = "bitmap"
  <2> DEFINE g == s.bitmap \cap (0 .. EntradasGuardadas - 1)
  <2>1. u = [s EXCEPT !.dBitmap = g]
    BY <1>4, <1>10, Metadatos DEF Grabada, e
  <2>2. g = t.dBitmap /\ Reservados \subseteq g /\ g \in SUBSET Bloques
    <3>1. s.bitmap \in SUBSET Bloques /\ Reservados \subseteq s.bitmap
      BY <1>4 DEF Arrancable, Discos
    <3> QED BY <1>4, <1>6, <1>10, <3>1, ReservaGuardada
  <2> HIDE DEF g
  <2>3. /\ u.directorio = s.directorio /\ u.bitmap = s.bitmap /\ u.nFiles = s.nFiles
        /\ u.dDirectorio = s.dDirectorio /\ u.datos = s.datos /\ u.dBitmap = g /\ u \in Discos
    BY <1>4, <2>1, <2>2 DEF Discos
  <2>4. Arrancable(u)
    BY <2>2, <2>3 DEF Arrancable, Compacto
  <2>5. /\ \A b \in Bloques : FaltaBloque(Tail(P), b) \/ u.datos[b] = t.datos[b]
        /\ Falta(Tail(P), "listas") \/ u.dDirectorio = t.dDirectorio
    BY <1>2, <1>7, <1>10, <2>3
  <2> QED BY <1>1, <1>3, <1>4, <1>5, <1>10, <2>2, <2>3, <2>4, <2>5 DEF Cerca, Hacia
<1>11. CASE e.que = "nombres"
  <2>1. u \in NombresSobreListas(s)
    BY <1>11 DEF Grabada, e
  <2>2. Arrancable(u) /\ u = [s EXCEPT !.dDirectorio = u.dDirectorio]
    BY <1>4, <2>1, NombresGrabados
  <2>3. /\ u.directorio = s.directorio /\ u.bitmap = s.bitmap /\ u.nFiles = s.nFiles
        /\ u.datos = s.datos /\ u.dBitmap = s.dBitmap
    BY <1>4, <2>2 DEF Discos
  <2>4. Falta(Tail(P), "listas") /\ Tail(P) # <<>> /\ Tail(P)[1].que = "listas"
    <3>1. 1 \in DOMAIN Tail(P) /\ Tail(P)[1].que = "listas"
      BY <1>6, <1>11
    <3>2. Tail(P) # <<>>
      <4>1. DOMAIN <<>> = {}
        OBVIOUS
      <4> QED BY <3>1, <4>1
    <3> QED BY <3>1, <3>2 DEF Falta
  <2>5. /\ \A b \in Bloques : FaltaBloque(Tail(P), b) \/ u.datos[b] = t.datos[b]
        /\ Falta(Tail(P), "bitmap") \/ u.dBitmap = t.dBitmap
    BY <1>2, <1>7, <1>11, <2>3
  <2> QED BY <1>1, <1>3, <1>4, <2>2, <2>3, <2>4, <2>5 DEF Cerca, Hacia
<1>12. CASE e.que = "listas"
  <2>1. u = [s EXCEPT !.dDirectorio = s.directorio]
    BY <1>4, <1>12, Metadatos DEF Grabada, e
  <2>2. t.dDirectorio = s.directorio /\ t \in Discos /\ Compactado(s.directorio)
    BY <1>4 DEF Base, Arrancable
  <2>3. s.directorio \in [Slots -> INodosLeidos]
    BY <1>4 DEF Discos
  <2>4. /\ u.directorio = s.directorio /\ u.bitmap = s.bitmap /\ u.nFiles = s.nFiles
        /\ u.dDirectorio = t.dDirectorio /\ u.datos = s.datos /\ u.dBitmap = s.dBitmap /\ u \in Discos
    BY <1>4, <2>1, <2>2, <2>3 DEF Discos
  <2>5. Arrancable(u)
    BY <2>2, <2>4 DEF Arrancable, Compacto
  <2>6. /\ \A b \in Bloques : FaltaBloque(Tail(P), b) \/ u.datos[b] = t.datos[b]
        /\ Falta(Tail(P), "bitmap") \/ u.dBitmap = t.dBitmap
    BY <1>2, <1>7, <1>12, <2>4
  <2> QED BY <1>1, <1>3, <1>4, <2>2, <2>4, <2>5, <2>6 DEF Cerca, Hacia
<1> QED BY <1>8, <1>9, <1>10, <1>11, <1>12

\* The writes P and then Q.
LEMMA Juntas ==
  ASSUME NEW t, NEW P, Hacia(P, t), NEW Q, Hacia(Q, t)
  PROVE  /\ Hacia(P \o Q, t)
         /\ \A q : Falta(P \o Q, q) <=> Falta(P, q) \/ Falta(Q, q)
         /\ \A b : FaltaBloque(P \o Q, b) <=> FaltaBloque(P, b) \/ FaltaBloque(Q, b)
         /\ (P \o Q # <<>> /\ (P \o Q)[1].que = "listas") =>
              \/ P # <<>> /\ P[1].que = "listas"
              \/ Q # <<>> /\ Q[1].que = "listas"
<1> DEFINE R == P \o Q
<1>1. /\ R \in Seq(Escrituras) /\ P \in Seq(Escrituras) /\ Q \in Seq(Escrituras)
      /\ Len(R) = Len(P) + Len(Q) /\ Len(P) \in Nat /\ Len(Q) \in Nat
      /\ DOMAIN P = 1 .. Len(P) /\ DOMAIN Q = 1 .. Len(Q) /\ DOMAIN R = 1 .. Len(R)
      /\ \A i \in DOMAIN P : R[i] = P[i]
      /\ \A i \in DOMAIN Q : R[Len(P) + i] = Q[i]
  BY DEF Hacia
<1>2. P = <<>> => R = Q
  BY <1>1
<1> HIDE DEF R
<1>3. \A i \in DOMAIN R : i \in DOMAIN P \/ \E j \in DOMAIN Q : i = Len(P) + j
  <2> TAKE i \in DOMAIN R
  <2>1. CASE i <= Len(P)
    BY <1>1, <2>1
  <2>2. CASE i > Len(P)
    <3>1. i - Len(P) \in DOMAIN Q /\ i = Len(P) + (i - Len(P))
      BY <1>1, <2>2
    <3> QED BY <3>1
  <2> QED BY <1>1, <2>1, <2>2
<1>4. /\ \A i \in DOMAIN P : i \in DOMAIN R
      /\ \A i \in DOMAIN Q : Len(P) + i \in DOMAIN R
  BY <1>1
<1>5. Hacia(R, t)
  <2>1. ASSUME NEW i \in DOMAIN P
        PROVE  /\ R[i].que = "bloque" => R[i].bloque \in DataBloques /\ R[i].texto = t.datos[R[i].bloque]
               /\ R[i].que = "nombres" => i + 1 \in DOMAIN R /\ R[i + 1].que = "listas"
               /\ R[i].que = "bitmap" => t.dBitmap = t.bitmap \cap (0 .. EntradasGuardadas - 1)
    BY <1>1, <1>4 DEF Hacia
  <2>2. ASSUME NEW j \in DOMAIN Q, NEW i, i = Len(P) + j
        PROVE  /\ R[i].que = "bloque" => R[i].bloque \in DataBloques /\ R[i].texto = t.datos[R[i].bloque]
               /\ R[i].que = "nombres" => i + 1 \in DOMAIN R /\ R[i + 1].que = "listas"
               /\ R[i].que = "bitmap" => t.dBitmap = t.bitmap \cap (0 .. EntradasGuardadas - 1)
    <3>1. j \in Nat /\ i + 1 = Len(P) + (j + 1)
      BY <1>1, <2>2
    <3>2. R[i] = Q[j]
      BY <1>1, <2>2
    <3>3. Q[j].que = "nombres" => j + 1 \in DOMAIN Q /\ Q[j + 1].que = "listas"
      BY DEF Hacia
    <3>4. j + 1 \in DOMAIN Q => R[i + 1] = Q[j + 1] /\ i + 1 \in DOMAIN R
      BY <1>1, <1>4, <3>1
    <3> QED BY <3>2, <3>3, <3>4 DEF Hacia
  <2> QED BY <1>1, <1>3, <2>1, <2>2 DEF Hacia
<1>6. \A q : Falta(R, q) <=> Falta(P, q) \/ Falta(Q, q)
  BY <1>1, <1>3, <1>4 DEF Falta
<1>7. \A b : FaltaBloque(R, b) <=> FaltaBloque(P, b) \/ FaltaBloque(Q, b)
  BY <1>1, <1>3, <1>4 DEF FaltaBloque
<1>8. P # <<>> => R[1] = P[1]
  BY <1>1
<1> QED BY <1>2, <1>5, <1>6, <1>7, <1>8 DEF R

\* guardarDirectorio and guardarBitmap as writes.
LEMMA EscriturasDeMetadatos ==
  ASSUME NEW t
  PROVE  /\ Hacia(GrabarDirectorio, t) /\ Falta(GrabarDirectorio, "listas")
         /\ GrabarDirectorio[1].que # "listas"
         /\ t.dBitmap = t.bitmap \cap (0 .. EntradasGuardadas - 1)
            => /\ Hacia(GrabarBitmap, t) /\ Falta(GrabarBitmap, "bitmap")
               /\ GrabarBitmap[1].que # "listas"
<1>1. /\ Escritura("nombres") \in Escrituras /\ Escritura("listas") \in Escrituras
      /\ Escritura("bitmap") \in Escrituras
  <2>1. 0 \in Bloques /\ <<>> \in Trozos
    BY Constantes DEF Bloques, Trozos
  <2> QED BY <2>1 DEF Escritura, Escrituras
<1> DEFINE a == Escritura("nombres")
           b == Escritura("listas")
           c == Escritura("bitmap")
<1>2. a.que = "nombres" /\ b.que = "listas" /\ c.que = "bitmap"
  BY DEF Escritura
<1> HIDE DEF a, b, c
<1> DEFINE D == <<a, b>>
           B == <<c>>
<1>3. /\ D \in Seq(Escrituras) /\ DOMAIN D = 1 .. 2 /\ D[1] = a /\ D[2] = b
      /\ B \in Seq(Escrituras) /\ DOMAIN B = {1} /\ B[1] = c
  BY <1>1 DEF a, b, c
<1>4. GrabarDirectorio = D /\ GrabarBitmap = B
  BY DEF GrabarDirectorio, GrabarBitmap, a, b, c
<1> HIDE DEF D, B
<1>5. Hacia(D, t)
  <2>1. \A i \in 1 .. 2 : i = 1 \/ i = 2
    OBVIOUS
  <2>2. 1 + 1 \in 1 .. 2 /\ 1 + 1 = 2
    OBVIOUS
  <2> QED BY <1>2, <1>3, <2>1, <2>2 DEF Hacia
<1>6. t.dBitmap = t.bitmap \cap (0 .. EntradasGuardadas - 1) => Hacia(B, t)
  BY <1>2, <1>3 DEF Hacia
<1>7. Falta(D, "listas") /\ Falta(B, "bitmap")
  <2>1. 2 \in 1 .. 2
    OBVIOUS
  <2> QED BY <1>2, <1>3, <2>1 DEF Falta
<1> QED BY <1>2, <1>3, <1>4, <1>5, <1>6, <1>7

\* The blocks of a file as writes.
LEMMA EscriturasDeBloques ==
  ASSUME NEW t, t \in Discos, NEW bs \in Seq(DataBloques), NEW c,
         \A i \in DOMAIN bs : c[i] = t.datos[bs[i]],
         NEW P, P = [i \in DOMAIN bs |-> EscribirBloque(bs[i], c[i])]
  PROVE  /\ Hacia(P, t) /\ \A b : FaltaBloque(P, b) <=> b \in Range(bs)
         /\ P # <<>> => P[1].que # "listas"
<1>1. \A i \in DOMAIN bs : bs[i] \in DataBloques /\ bs[i] \in Bloques
  BY Constantes DEF DataBloques, Bloques
<1>2. \A i \in DOMAIN bs : t.datos[bs[i]] \in Trozos
  BY <1>1 DEF Discos
<1>3. \A i \in DOMAIN bs :
        /\ P[i] \in Escrituras /\ P[i].que = "bloque" /\ P[i].bloque = bs[i]
        /\ P[i].texto = t.datos[bs[i]]
  BY <1>1, <1>2 DEF EscribirBloque, Escrituras
<1>4. DOMAIN P = DOMAIN bs /\ P \in Seq(Escrituras)
  <2>1. DOMAIN P = 1 .. Len(bs) /\ Len(bs) \in Nat
    OBVIOUS
  <2>2. P = [i \in 1 .. Len(bs) |-> P[i]]
    OBVIOUS
  <2> QED BY <1>3, <2>1, <2>2
<1>5. Hacia(P, t)
  BY <1>1, <1>3, <1>4 DEF Hacia
<1>6. \A b : FaltaBloque(P, b) <=> b \in Range(bs)
  BY <1>3, <1>4 DEF FaltaBloque, Range
<1>7. P # <<>> => 1 \in DOMAIN P
  BY <1>4
<1> QED BY <1>3, <1>4, <1>5, <1>6, <1>7

\* A state between calls has nothing left to write.
LEMMA Quieto ==
  ASSUME NEW s, Base(s)
  PROVE  Cerca(s, s, <<>>)
<1>1. <<>> \in Seq(Escrituras) /\ DOMAIN <<>> = {}
  OBVIOUS
<1> QED BY <1>1 DEF Cerca, Hacia, Base

\* A call changes the memory first: with the memory of t over the disk of s,
\* writes that make up for what differs lead to t.
LEMMA Empezado ==
  ASSUME NEW s, Base(s), NEW t, Base(t)
  PROVE  LET e == EnMemoria(s, t)
         IN /\ Arrancable(e)
            /\ \A P : /\ Hacia(P, t) /\ (P # <<>> => P[1].que # "listas")
                      /\ \A b \in Bloques : FaltaBloque(P, b) \/ s.datos[b] = t.datos[b]
                      /\ Falta(P, "bitmap") \/ s.dBitmap = t.dBitmap
                      /\ Falta(P, "listas") \/ s.dDirectorio = t.dDirectorio
                      => Cerca(e, t, P)
<1> DEFINE e == EnMemoria(s, t)
<1>1. s \in Discos /\ t \in Discos
  BY DEF Base, Arrancable
<1>2. /\ e \in Discos /\ e.directorio = t.directorio /\ e.bitmap = t.bitmap /\ e.nFiles = t.nFiles
      /\ e.dDirectorio = s.dDirectorio /\ e.dBitmap = s.dBitmap /\ e.datos = s.datos
  BY <1>1 DEF EnMemoria, Discos
<1>3. s.dDirectorio \in [Slots -> INodos]
  BY DEF Base
<1> HIDE DEF e
<1>4. Arrancable(e)
  BY <1>2 DEF Base, Arrancable, Compacto
<1> QED BY <1>2, <1>3, <1>4 DEF Cerca, e

\* Saving the bitmap and the directory, in either order, of a compact memory
\* ends in a state between calls.
LEMMA Guardada ==
  ASSUME NEW x \in Discos, x.directorio \in [Slots -> INodos], Reservados \subseteq x.bitmap,
         Compacto(x), NEW t,
         t = guardarBitmap(guardarDirectorio(x)) \/ t = guardarDirectorio(guardarBitmap(x))
  PROVE  /\ Base(t) /\ t.directorio = x.directorio /\ t.bitmap = x.bitmap /\ t.nFiles = x.nFiles
         /\ t.datos = x.datos /\ t.dBitmap = t.bitmap \cap (0 .. EntradasGuardadas - 1)
<1> DEFINE g == x.bitmap \cap (0 .. EntradasGuardadas - 1)
           y == [x EXCEPT !.dDirectorio = x.directorio]
           z == [x EXCEPT !.dBitmap = g]
<1>1. guardarDirectorio(x) = y /\ guardarBitmap(x) = z
  BY Metadatos
<1>2. g \in SUBSET Bloques /\ Reservados \subseteq g
  <2>1. x.bitmap \in SUBSET Bloques
    BY DEF Discos
  <2> QED BY <2>1, ReservaGuardada
<1> HIDE DEF g
<1>3. y \in Discos /\ z \in Discos /\ y.directorio = x.directorio /\ z.directorio = x.directorio
      /\ y.bitmap = x.bitmap
  BY <1>2 DEF Discos
<1> HIDE DEF y, z
<1>4. /\ guardarBitmap(y) = [y EXCEPT !.dBitmap = g]
      /\ guardarDirectorio(z) = [z EXCEPT !.dDirectorio = x.directorio]
  BY <1>3, Metadatos DEF g
<1>5. /\ t \in Discos /\ t.directorio = x.directorio /\ t.bitmap = x.bitmap /\ t.nFiles = x.nFiles
      /\ t.datos = x.datos /\ t.dBitmap = g /\ t.dDirectorio = x.directorio
  <2>1. CASE t = guardarBitmap(guardarDirectorio(x))
    <3>1. t = [y EXCEPT !.dBitmap = g]
      BY <1>1, <1>4, <2>1
    <3> QED BY <1>2, <1>3, <3>1 DEF Discos, y
  <2>2. CASE t = guardarDirectorio(guardarBitmap(x))
    <3>1. t = [z EXCEPT !.dDirectorio = x.directorio]
      BY <1>1, <1>4, <2>2
    <3> QED BY <1>2, <1>3, <3>1 DEF Discos, z
  <2> QED BY <2>1, <2>2
<1>6. Compactado(x.directorio)
  <2>1. x.nFiles \in 0 .. TDIRECTORIO
    BY DEF Discos
  <2>2. Compacto([directorio |-> x.directorio, nFiles |-> x.nFiles])
    BY DEF Compacto
  <2> QED BY <2>1, <2>2 DEF Compactado
<1> QED BY <1>2, <1>5, <1>6 DEF Base, Arrancable, Compacto, g

\* The files are the slots below nFiles, so the first free slot is nFiles.
LEMMA Ocupacion ==
  ASSUME NEW s, Base(s)
  PROVE  /\ s.nFiles \in Nat /\ s.nFiles <= TDIRECTORIO
         /\ Existe(s, Vacio) => s.nFiles \in Slots /\ buscarArchivoPorNombre(s, Vacio) = s.nFiles
         /\ \A n \in Nombres : Existe(s, n) =>
              LET p == buscarArchivoPorNombre(s, n)
              IN p \in Slots /\ p < s.nFiles /\ s.directorio[p].nombre = n
<1>1. s.nFiles \in 0 .. TDIRECTORIO /\ TDIRECTORIO \in Nat
  BY Constantes DEF Base, Arrancable, Discos
<1>2. Compacto(s)
  BY DEF Base, Arrancable
<1>3. ASSUME Existe(s, Vacio)
      PROVE  s.nFiles \in Slots /\ buscarArchivoPorNombre(s, Vacio) = s.nFiles
  <2> DEFINE p == buscarArchivoPorNombre(s, Vacio)
  <2>1. /\ p \in Slots /\ s.directorio[p].nombre = Vacio
        /\ \A j \in 0 .. p - 1 : s.directorio[j].nombre # Vacio
    BY <1>3, Buscar
  <2> HIDE DEF p
  <2>2. p >= s.nFiles
    BY <1>1, <1>2, <2>1 DEF Compacto, Slots
  <2>3. s.nFiles \in Slots
    BY <1>1, <2>1, <2>2 DEF Slots
  <2>4. s.directorio[s.nFiles].nombre = Vacio
    BY <1>1, <1>2, <2>3 DEF Compacto
  <2>5. ~(s.nFiles < p)
    BY <1>1, <2>1, <2>4 DEF Slots
  <2> QED BY <1>1, <2>1, <2>2, <2>3, <2>5 DEF p, Slots
<1>4. ASSUME NEW n \in Nombres, Existe(s, n)
      PROVE  LET p == buscarArchivoPorNombre(s, n)
             IN p \in Slots /\ p < s.nFiles /\ s.directorio[p].nombre = n
  BY <1>2, <1>4, Buscar, NombresValidos DEF Compacto
<1> QED BY <1>1, <1>3, <1>4

\* Two directories with the same names find a name in the same slot.
LEMMA MismosNombres ==
  ASSUME NEW s, NEW t, \A i \in Slots : t.directorio[i].nombre = s.directorio[i].nombre, NEW n
  PROVE  /\ Existe(t, n) <=> Existe(s, n)
         /\ Existe(s, n) => buscarArchivoPorNombre(t, n) = buscarArchivoPorNombre(s, n)
<1>1. Existe(t, n) <=> Existe(s, n)
  BY DEF Existe
<1>2. ASSUME Existe(s, n) PROVE buscarArchivoPorNombre(t, n) = buscarArchivoPorNombre(s, n)
  <2> DEFINE p == buscarArchivoPorNombre(s, n)
             q == buscarArchivoPorNombre(t, n)
  <2>1. /\ p \in Slots /\ s.directorio[p].nombre = n
        /\ \A j \in 0 .. p - 1 : s.directorio[j].nombre # n
    BY <1>2, Buscar
  <2>2. /\ q \in Slots /\ t.directorio[q].nombre = n
        /\ \A j \in 0 .. q - 1 : t.directorio[j].nombre # n
    BY <1>1, <1>2, Buscar
  <2> HIDE DEF p, q
  <2>3. ~(p < q) /\ ~(q < p)
    BY <2>1, <2>2 DEF Slots
  <2> QED BY <2>1, <2>2, <2>3 DEF Slots, p, q
<1> QED BY <1>1, <1>2

\* From s to t no inode but that of slot p changes.
CambiaSolo(s, t, p) == \A i \in Slots : i # p => t.directorio[i] = s.directorio[i]

\* crearInodo ends in a state between calls, with the new name in it.
LEMMA BaseDeCrear ==
  ASSUME NEW s, Base(s), NEW n \in Nombres,
         n \notin NombresLargos, ~Existe(s, n), Existe(s, Vacio), NEW t, t = crearInodo(s, n)
  PROVE  /\ Base(t) /\ t.bitmap = s.bitmap /\ t.datos = s.datos /\ Existe(t, n)
         /\ t.dBitmap = t.bitmap \cap (0 .. EntradasGuardadas - 1)
         /\ CambiaSolo(s, t, s.nFiles) /\ t.directorio[s.nFiles].bloques = <<>>
<1> DEFINE p == s.nFiles
           x == [s EXCEPT !.directorio[p] = INodo(n, <<>>), !.nFiles = @ + 1]
           nd == [s.directorio EXCEPT ![p] = INodo(n, <<>>)]
<1>1. p \in Slots /\ p \in Nat /\ p + 1 \in 0 .. TDIRECTORIO /\ p = buscarArchivoPorNombre(s, Vacio)
  BY Ocupacion, Constantes DEF Slots
<1>2. t = guardarBitmap(guardarDirectorio(x))
  BY <1>1 DEF crearInodo
<1>3. s \in Discos /\ s.directorio \in [Slots -> INodos] /\ Compacto(s) /\ Reservados \subseteq s.bitmap
  BY DEF Base, Arrancable
<1>4. INodo(n, <<>>) \in INodos /\ INodo(n, <<>>) \in INodosLeidos
  BY Constantes DEF INodo, INodos, INodosLeidos
<1>5. nd \in [Slots -> INodos] /\ nd \in [Slots -> INodosLeidos]
  <2>1. s.directorio \in [Slots -> INodosLeidos]
    BY <1>3 DEF Discos
  <2> QED BY <1>1, <1>3, <1>4, <2>1
<1>6. \A i \in Slots : nd[i] = IF i = p THEN INodo(n, <<>>) ELSE s.directorio[i]
  BY <1>1, <1>3
<1> HIDE DEF nd
<1>7. /\ x \in Discos /\ x.directorio = nd /\ x.nFiles = p + 1 /\ x.bitmap = s.bitmap
      /\ x.datos = s.datos
  BY <1>1, <1>3, <1>5 DEF Discos, nd
<1> HIDE DEF x
<1>8. INodo(n, <<>>).nombre = n /\ INodo(n, <<>>).bloques = <<>> /\ n # Vacio
  BY NombresValidos DEF INodo
<1>9. Compacto(x)
  <2>1. \A i \in Slots : i \in Nat
    BY DEF Slots
  <2>2. \A i \in Slots : nd[i].nombre # Vacio <=> i < p + 1
    BY <1>1, <1>3, <1>6, <1>8, <2>1 DEF Compacto
  <2>3. \A i \in Slots : i >= p + 1 => nd[i].bloques = <<>>
    BY <1>1, <1>3, <1>6, <1>8, <2>1 DEF Compacto
  <2>4. ASSUME NEW i \in 0 .. p, NEW j \in 0 .. p, nd[i].nombre = nd[j].nombre PROVE i = j
    <3>1. i \in Slots /\ j \in Slots
      BY <1>1, Constantes DEF Slots
    <3>2. s.directorio[i].nombre # n /\ s.directorio[j].nombre # n
      BY <3>1 DEF Existe
    <3>3. i # p => i \in 0 .. p - 1
      BY <1>1
    <3>4. j # p => j \in 0 .. p - 1
      BY <1>1
    <3> QED BY <1>3, <1>6, <1>8, <2>4, <3>1, <3>2, <3>3, <3>4 DEF Compacto
  <2>5. x.nFiles - 1 = p /\ x.nFiles = p + 1 /\ x.directorio = nd
    BY <1>1, <1>7
  <2>6. \A i, j \in 0 .. x.nFiles - 1 : x.directorio[i].nombre = x.directorio[j].nombre => i = j
    BY <2>4, <2>5
  <2>7. /\ \A i \in Slots : x.directorio[i].nombre # Vacio <=> i < x.nFiles
        /\ \A i \in Slots : i >= x.nFiles => x.directorio[i].bloques = <<>>
    BY <2>2, <2>3, <2>5
  <2> QED BY <2>6, <2>7 DEF Compacto
<1>10. Base(t) /\ t.directorio = nd /\ t.bitmap = s.bitmap /\ t.datos = s.datos
       /\ t.dBitmap = t.bitmap \cap (0 .. EntradasGuardadas - 1)
  BY <1>2, <1>3, <1>5, <1>7, <1>9, Guardada
<1>11. Existe(t, n)
  BY <1>1, <1>6, <1>8, <1>10 DEF Existe
<1>12. CambiaSolo(s, t, p) /\ t.directorio[p].bloques = <<>>
  BY <1>1, <1>6, <1>8, <1>10 DEF CambiaSolo
<1> QED BY <1>10, <1>11, <1>12

\* renombrar ends in a state between calls, no block changed.
LEMMA BaseDeRenombrar ==
  ASSUME NEW s, Base(s), NEW n \in Nombres, Existe(s, n),
         NEW m \in Nombres \ NombresLargos, ~Existe(s, m), NEW t, t = renombrar(s, n, m)
  PROVE  /\ Base(t) /\ t.bitmap = s.bitmap /\ t.datos = s.datos /\ t.dBitmap = s.dBitmap
         /\ CambiaSolo(s, t, buscarArchivoPorNombre(s, n))
<1> DEFINE p == buscarArchivoPorNombre(s, n)
           w == INodo(m, s.directorio[p].bloques)
           nd == [s.directorio EXCEPT ![p] = w]
           x == [s EXCEPT !.directorio = nd]
<1>1. p \in Slots /\ p < s.nFiles /\ s.directorio[p].nombre = n /\ s.nFiles \in Nat
  BY Ocupacion
<1>2. s \in Discos /\ s.directorio \in [Slots -> INodos] /\ Compacto(s) /\ Reservados \subseteq s.bitmap
      /\ Reservados \subseteq s.dBitmap
  BY DEF Base, Arrancable
<1> HIDE DEF p
<1>3. t = guardarDirectorio(x)
  <2>1. s.directorio[p] \in INodos
    BY <1>1, <1>2
  <2>2. [s.directorio[p] EXCEPT !.nombre = m] = w
    BY <2>1 DEF INodos, INodo
  <2>3. [s EXCEPT !.directorio[p].nombre = m]
          = [s EXCEPT !.directorio = [s.directorio EXCEPT ![p] = [s.directorio[p] EXCEPT !.nombre = m]]]
    BY <1>1, <1>2 DEF Discos
  <2> QED BY <2>2, <2>3 DEF renombrar, p
<1>4. w \in INodos /\ w \in INodosLeidos /\ w.nombre = m /\ w.bloques = s.directorio[p].bloques
  <2>1. s.directorio[p] \in INodos /\ s.directorio[p] \in INodosLeidos
    BY <1>1, <1>2 DEF Discos
  <2> QED BY <2>1 DEF INodos, INodo, INodosLeidos
<1> HIDE DEF w
<1>5. nd \in [Slots -> INodos] /\ nd \in [Slots -> INodosLeidos]
  <2>1. s.directorio \in [Slots -> INodosLeidos]
    BY <1>2 DEF Discos
  <2> QED BY <1>1, <1>2, <1>4, <2>1
<1>6. \A i \in Slots : nd[i] = IF i = p THEN w ELSE s.directorio[i]
  BY <1>1, <1>2
<1> HIDE DEF nd
<1>7. /\ x \in Discos /\ x.directorio = nd /\ x.nFiles = s.nFiles /\ x.bitmap = s.bitmap
      /\ x.datos = s.datos /\ x.dBitmap = s.dBitmap
  BY <1>2, <1>5 DEF Discos
<1> HIDE DEF x
<1>8. m # Vacio /\ n # Vacio
  BY NombresValidos
<1>9. Compacto(x)
  <2>1. \A i \in Slots : i \in Nat
    BY DEF Slots
  <2>2. \A i \in Slots : nd[i].nombre # Vacio <=> i < s.nFiles
    BY <1>1, <1>2, <1>4, <1>6, <1>8 DEF Compacto
  <2>3. \A i \in Slots : i >= s.nFiles => nd[i].bloques = <<>>
    BY <1>1, <1>2, <1>4, <1>6, <2>1 DEF Compacto
  <2>4. ASSUME NEW i \in 0 .. s.nFiles - 1, NEW j \in 0 .. s.nFiles - 1, nd[i].nombre = nd[j].nombre PROVE i = j
    <3>1. i \in Slots /\ j \in Slots
      BY <1>1, Ocupacion, Constantes DEF Slots
    <3>2. s.directorio[i].nombre # m /\ s.directorio[j].nombre # m
      BY <3>1 DEF Existe
    <3> QED BY <1>2, <1>4, <1>6, <2>4, <3>1, <3>2 DEF Compacto
  <2> QED BY <1>7, <2>2, <2>3, <2>4 DEF Compacto
<1>10. t = [x EXCEPT !.dDirectorio = nd]
  BY <1>3, <1>5, <1>7, Metadatos
<1>11. /\ t \in Discos /\ t.directorio = nd /\ t.dDirectorio = nd /\ t.bitmap = s.bitmap
       /\ t.datos = s.datos /\ t.dBitmap = s.dBitmap /\ t.nFiles = s.nFiles
  BY <1>5, <1>7, <1>10 DEF Discos
<1>12. Compactado(nd) /\ Compacto(t)
  <2>1. s.nFiles \in 0 .. TDIRECTORIO
    BY <1>2 DEF Discos
  <2>2. Compacto([directorio |-> nd, nFiles |-> s.nFiles])
    BY <1>7, <1>9 DEF Compacto
  <2> QED BY <1>7, <1>9, <1>11, <2>1, <2>2 DEF Compactado, Compacto
<1>13. CambiaSolo(s, t, p)
  BY <1>6, <1>11 DEF CambiaSolo
<1> QED BY <1>2, <1>5, <1>11, <1>12, <1>13 DEF Base, Arrancable, p

\* The blocks handed out are different data blocks, as many as asked for.
LEMMA Asignados ==
  ASSUME NEW s, Base(s), NEW k \in Nat, NEW a \in Asignaciones(s, k)
  PROVE  /\ a \in Seq(DataBloques) /\ Len(a) = k /\ DOMAIN a = 1 .. k
         /\ \A i, j \in DOMAIN a : a[i] = a[j] => i = j
         /\ \A i \in DOMAIN a : a[i] \notin s.bitmap
<1>1. a \in [1 .. k -> Libres(s)] /\ \A i, j \in 1 .. k : i < j => a[i] < a[j]
  BY DEF Asignaciones
<1>2. Libres(s) \subseteq DataBloques /\ Libres(s) \subseteq Nat
  BY Constantes DEF Libres, DataBloques, Base, Arrancable, Reservados
<1>3. a \in [1 .. k -> DataBloques]
  BY <1>1, <1>2
<1>4. a \in Seq(DataBloques) /\ Len(a) = k /\ DOMAIN a = 1 .. k
  BY <1>3
<1>5. \A i, j \in 1 .. k : a[i] = a[j] => i = j
  BY <1>1, <1>2
<1>6. \A i \in 1 .. k : a[i] \notin s.bitmap
  BY <1>1 DEF Libres
<1> QED BY <1>4, <1>5, <1>6

\* escribir ends in a state between calls, with the new text in the blocks of
\* the file and the other blocks as they were.
LEMMA BaseDeEscribir ==
  ASSUME NEW s, Base(s), NEW n \in Nombres, Existe(s, n), NEW d \in Textos,
         NEW t \in escribir(s, n, d), t # s
  PROVE  LET bs == BloquesDe(t, n)
         IN /\ Base(t) /\ t.dBitmap = t.bitmap \cap (0 .. EntradasGuardadas - 1)
            /\ bs \in Seq(DataBloques)
            /\ \A i \in DOMAIN bs : Trozo(d, i) = t.datos[bs[i]]
            /\ \A b \in Bloques : b \notin Range(bs) => t.datos[b] = s.datos[b]
            /\ \A i \in DOMAIN bs : bs[i] \notin s.bitmap
            /\ CambiaSolo(s, t, buscarArchivoPorNombre(s, n))
            /\ Existe(t, n) /\ buscarArchivoPorNombre(t, n) = buscarArchivoPorNombre(s, n)
<1> DEFINE p == buscarArchivoPorNombre(s, n)
           k == BloquesPara(d)
           A == Asignaciones(s, k)
<1>1. p \in Slots /\ p < s.nFiles /\ s.directorio[p].nombre = n
  BY Ocupacion
<1>2. k \in 0 .. MaxFile
  BY MaxFileValido
<1>3. PICK a \in A : t = escribirEn(s, p, n, d, a)
  <2> HIDE DEF A, p
  <2>1. escribir(s, n, d) = IF A = {} THEN {s} ELSE {escribirEn(s, p, n, d, a) : a \in A}
    BY DEF escribir, A, p
  <2> QED BY <2>1
<1>4. k \in Nat /\ k <= MaxBloques
  BY <1>2, Constantes
<1> HIDE DEF k
<1>5. /\ a \in Seq(DataBloques) /\ Len(a) = k /\ DOMAIN a = 1 .. k
      /\ \A i, j \in DOMAIN a : a[i] = a[j] => i = j
      /\ \A i \in DOMAIN a : a[i] \notin s.bitmap
  BY <1>3, <1>4, Asignados
<1> HIDE DEF p
<1> DEFINE viejos == IF s.directorio[p].nombre = Vacio THEN {}
                     ELSE Range(s.directorio[p].bloques)
           c == [i \in DOMAIN a |-> Trozo(d, i)]
           w == INodo(n, a)
           nd == [s.directorio EXCEPT ![p] = w]
           nb == (s.bitmap \cup Range(a)) \ viejos
           m == [s EXCEPT !.bitmap = nb, !.directorio = nd]
           x == escribirBloques(m, a, c)
<1>6. t = guardarDirectorio(guardarBitmap(x))
  <2>1. SubSeq(a, 1, IF Len(a) <= MaxBloques THEN Len(a) ELSE MaxBloques) = a
    BY <1>4, <1>5
  <2>2. escribirEn(s, p, n, d, a)
          = guardarDirectorio(guardarBitmap(escribirBloques(
              [s EXCEPT !.bitmap = (@ \cup Range(a)) \ viejos, !.directorio[p] = INodo(n, a)], a, c)))
    BY <1>4, <1>5, <2>1 DEF escribirEn
  <2> QED BY <1>3, <2>2
<1>7. /\ s \in Discos /\ s.directorio \in [Slots -> INodos] /\ Compacto(s)
      /\ Reservados \subseteq s.bitmap /\ s.dDirectorio = s.directorio
      /\ s.directorio \in [Slots -> INodosLeidos] /\ s.bitmap \in SUBSET Bloques
  BY DEF Base, Arrancable, Discos
<1>8. Range(a) \subseteq Bloques
  <2>1. DataBloques \subseteq Bloques
    BY Constantes DEF DataBloques, Bloques
  <2> QED BY <1>5, <2>1, ElementOfSeq DEF Range
<1>9. viejos \cap Reservados = {}
  <2>1. s.directorio[p].bloques \in Seq(DataBloques)
    BY <1>1, <1>7 DEF INodos
  <2>2. DataBloques \cap Reservados = {}
    BY Constantes DEF DataBloques, Reservados
  <2> QED BY <2>1, <2>2, ElementOfSeq DEF Range
<1> HIDE DEF viejos
<1>10. nb \in SUBSET Bloques /\ Reservados \subseteq nb
  BY <1>7, <1>8, <1>9
<1>11. n \notin NombresLargos /\ n # Vacio
  <2>1. s.directorio[p] \in INodos
    BY <1>1, <1>7
  <2> QED BY <1>1, <2>1, NombresValidos DEF INodos
<1>12. w \in INodos /\ w \in INodosLeidos /\ w.nombre = n /\ w.bloques = a
  <2>1. DataBloques \subseteq Bloques
    BY Constantes DEF DataBloques, Bloques
  <2>2. a \in Seq(Bloques)
    BY <1>5, <2>1, ElementOfSeq
  <2>3. Len(a) <= MaxFile
    BY <1>2, <1>5 DEF k
  <2> HIDE DEF nb
  <2> QED BY <1>5, <1>11, <2>2, <2>3 DEF INodo, INodos, INodosLeidos
<1> HIDE DEF nb, w
<1>13. /\ nd \in [Slots -> INodos] /\ nd \in [Slots -> INodosLeidos]
       /\ \A i \in Slots : nd[i] = IF i = p THEN w ELSE s.directorio[i]
  BY <1>1, <1>7, <1>12
<1> HIDE DEF nd
<1>14. /\ m \in Discos /\ m.directorio = nd /\ m.bitmap = nb /\ m.nFiles = s.nFiles
       /\ m.datos = s.datos /\ m.dDirectorio \in [Slots -> INodos]
  BY <1>7, <1>10, <1>13 DEF Discos
<1> HIDE DEF m
<1>15. \A i \in DOMAIN a : c[i] \in Trozos /\ c[i] = Trozo(d, i)
  BY <1>5, TrozoCabe
<1> HIDE DEF c
<1>16. /\ x \in Discos
       /\ x = [m EXCEPT !.datos = x.datos]
       /\ \A b \in Bloques : b \notin Range(a) => x.datos[b] = m.datos[b]
       /\ \A i \in DOMAIN a : x.datos[a[i]] = c[i]
  <2>1. \A i \in DOMAIN a : c[i] \in Trozos
    BY <1>15
  <2>2. LET v == escribirBloques(m, a, c)
        IN /\ v \in Discos
           /\ v = [m EXCEPT !.datos = v.datos]
           /\ \A b \in Bloques : b \notin Range(a) => v.datos[b] = m.datos[b]
           /\ (\A i, j \in DOMAIN a : a[i] = a[j] => i = j)
              => \A i \in DOMAIN a : v.datos[a[i]] = c[i]
    <3>1. m \in Discos /\ m.dDirectorio \in [Slots -> INodos] /\ a \in Seq(DataBloques)
      BY <1>5, <1>14
    <3> QED BY ONLY <2>1, <3>1, BloquesGrabados
  <2> QED BY <1>5, <2>2
<1> HIDE DEF x
<1>17. x.directorio = nd /\ x.bitmap = nb /\ x.nFiles = s.nFiles
  BY <1>14, <1>16 DEF Discos
<1>18. \A i \in Slots : nd[i].nombre = s.directorio[i].nombre
  BY <1>1, <1>12, <1>13
<1>19. Compacto(x)
  <2>1. \A i \in 0 .. s.nFiles - 1 : i \in Slots
    BY <1>7, Constantes DEF Slots, Discos
  <2>3. \A i \in Slots : i >= s.nFiles => nd[i].bloques = <<>>
    <3>1. \A i \in Slots : i >= s.nFiles => i # p
      BY <1>1, <1>7 DEF Slots, Discos
    <3> QED BY <1>7, <1>13, <3>1 DEF Compacto
  <2> QED BY <1>7, <1>17, <1>18, <2>1, <2>3 DEF Compacto
<1>20. /\ Base(t) /\ t.directorio = nd /\ t.bitmap = nb /\ t.nFiles = s.nFiles
       /\ t.datos = x.datos /\ t.dBitmap = t.bitmap \cap (0 .. EntradasGuardadas - 1)
  BY <1>6, <1>10, <1>13, <1>16, <1>17, <1>19, Guardada
<1>21. BloquesDe(t, n) = a
  <2>1. buscarArchivoPorNombre(t, n) = p
    BY <1>18, <1>20, MismosNombres DEF p
  <2> QED BY <1>1, <1>12, <1>13, <1>20, <2>1 DEF BloquesDe
<1>22. \A i \in DOMAIN a : Trozo(d, i) = t.datos[a[i]]
  BY <1>15, <1>16, <1>20
<1>23. \A b \in Bloques : b \notin Range(a) => t.datos[b] = s.datos[b]
  BY <1>14, <1>16, <1>20
<1>24. CambiaSolo(s, t, buscarArchivoPorNombre(s, n))
  BY <1>13, <1>20 DEF CambiaSolo, p
<1>25. Existe(t, n) /\ buscarArchivoPorNombre(t, n) = buscarArchivoPorNombre(s, n)
  BY <1>18, <1>20, MismosNombres
<1> QED BY <1>5, <1>20, <1>21, <1>22, <1>23, <1>24, <1>25

\* eliminar ends in a state between calls, with the blocks of the file empty
\* and the last file moved to its slot.
LEMMA BaseDeEliminar ==
  ASSUME NEW s, Base(s), NEW n \in Nombres, Existe(s, n), NEW t, t = eliminar(s, n)
  PROVE  LET bs == BloquesDe(s, n)
         IN /\ Base(t) /\ t.dBitmap = t.bitmap \cap (0 .. EntradasGuardadas - 1)
            /\ bs \in Seq(DataBloques)
            /\ \A i \in DOMAIN bs : <<>> = t.datos[bs[i]]
            /\ \A b \in Bloques : b \notin Range(bs) => t.datos[b] = s.datos[b]
            /\ t.bitmap = s.bitmap \ Range(bs)
            /\ \A i \in Slots :
                 t.directorio[i] = IF i = s.nFiles - 1 THEN INodoVacio
                                   ELSE IF i = buscarArchivoPorNombre(s, n)
                                   THEN s.directorio[s.nFiles - 1] ELSE s.directorio[i]
<1> USE Constantes
<1> DEFINE p == buscarArchivoPorNombre(s, n)
           l == s.directorio[p].bloques
           bs == Range(l)
           fin == s.nFiles - 1
           dir == IF p < fin THEN [s.directorio EXCEPT ![p] = s.directorio[fin]]
                  ELSE s.directorio
           nd == [dir EXCEPT ![fin] = INodoVacio]
           nb == s.bitmap \ bs
           dat == [b \in Bloques |-> IF b \in bs THEN <<>> ELSE s.datos[b]]
           x == [s EXCEPT !.bitmap = nb, !.datos = dat, !.directorio = nd, !.nFiles = fin]
<1>1. p \in Slots /\ p < s.nFiles /\ s.directorio[p].nombre = n /\ n # Vacio
  BY Ocupacion, NombresValidos
<1>2. /\ s \in Discos /\ s.directorio \in [Slots -> INodos] /\ Compacto(s)
      /\ Reservados \subseteq s.bitmap /\ s.nFiles \in 0 .. TDIRECTORIO
      /\ s.directorio \in [Slots -> INodosLeidos] /\ s.bitmap \in SUBSET Bloques
      /\ s.datos \in [Bloques -> Trozos]
  BY DEF Base, Arrancable, Discos
<1>3. t = guardarDirectorio(guardarBitmap(x))
  BY DEF eliminar
<1>5. fin \in Slots /\ p <= fin
  BY <1>1, <1>2 DEF Slots
<1>6. INodoVacio \in INodos /\ INodoVacio \in INodosLeidos /\ <<>> \in Trozos
      /\ INodoVacio.nombre = Vacio /\ INodoVacio.bloques = <<>>
  BY DEF INodoVacio, INodo, INodos, INodosLeidos, Trozos
<1>7. l = BloquesDe(s, n) /\ l \in Seq(DataBloques)
  BY <1>1, <1>2 DEF BloquesDe, INodos
<1> HIDE DEF p, fin, l
<1>8. /\ nd \in [Slots -> INodos] /\ nd \in [Slots -> INodosLeidos]
      /\ \A i \in Slots : nd[i] = IF i = fin THEN INodoVacio
                                  ELSE IF i = p THEN s.directorio[fin] ELSE s.directorio[i]
  <2> HIDE DEF INodoVacio
  <2>1. /\ dir \in [Slots -> INodos] /\ dir \in [Slots -> INodosLeidos]
        /\ \A i \in Slots : i # fin => dir[i] = IF i = p THEN s.directorio[fin] ELSE s.directorio[i]
    <3>1. CASE p < fin
      BY <1>1, <1>2, <1>5, <3>1
    <3>2. CASE ~(p < fin)
      <4>1. p = fin
        BY <1>1, <1>5, <3>2 DEF Slots
      <4> QED BY <1>2, <3>2, <4>1
    <3> QED BY <3>1, <3>2
  <2> HIDE DEF dir
  <2> QED BY <1>5, <1>6, <2>1
<1>9. \A i \in DOMAIN l : l[i] \in DataBloques /\ l[i] \in Bloques
  <2>1. DataBloques \subseteq Bloques
    BY DEF DataBloques, Bloques
  <2> QED BY <1>7, <2>1, ElementOfSeq
<1>10. bs \cap Reservados = {}
  <2>1. DataBloques \cap Reservados = {}
    BY DEF DataBloques, Reservados
  <2> QED BY <1>9, <2>1 DEF Range
<1>11. \A i \in DOMAIN l : l[i] \in bs
  BY DEF Range
<1> HIDE DEF bs
<1>12. dat \in [Bloques -> Trozos] /\ nb \in SUBSET Bloques /\ Reservados \subseteq nb
  BY <1>2, <1>6, <1>10
<1>13. /\ \A i \in DOMAIN l : <<>> = dat[l[i]]
       /\ \A b \in Bloques : b \notin bs => dat[b] = s.datos[b]
  BY <1>9, <1>11
<1> HIDE DEF nd, dat, nb
<1>14. x \in Discos /\ x.directorio = nd /\ x.bitmap = nb /\ x.nFiles = fin /\ x.datos = dat
  <2>1. fin \in 0 .. TDIRECTORIO
    BY <1>5 DEF Slots
  <2> QED BY <1>2, <1>8, <1>12, <2>1 DEF Discos
<1> HIDE DEF x
<1> DEFINE de(i) == IF i = p THEN fin ELSE i
<1>15. /\ \A i \in Slots : i # fin => nd[i] = s.directorio[de(i)] /\ de(i) \in Slots /\ de(i) # p
       /\ \A i, j \in Slots : i # fin /\ j # fin /\ de(i) = de(j) => i = j
  BY <1>5, <1>8
<1>16. Compacto(x)
  <2>1. \A i \in Slots : nd[i].nombre # Vacio <=> i < fin
    <3>1. \A i \in Slots : i < fin => i < s.nFiles /\ i # fin
      BY <1>2 DEF fin, Slots
    <3>2. fin < s.nFiles
      BY <1>2 DEF fin
    <3>3. \A i \in Slots : i # fin /\ i < s.nFiles => i < fin
      BY <1>2 DEF fin, Slots
    <3>4. p = fin \/ p < fin
      BY <1>1, <1>5 DEF Slots
    <3>5. \A i \in Slots : s.directorio[i].nombre # Vacio <=> i < s.nFiles
      BY <1>2 DEF Compacto
    <3> QED BY <1>1, <1>5, <1>6, <1>8, <3>1, <3>2, <3>3, <3>4, <3>5
  <2>2. \A i, j \in 0 .. fin - 1 : nd[i].nombre = nd[j].nombre => i = j
    <3> SUFFICES ASSUME NEW i \in 0 .. fin - 1, NEW j \in 0 .. fin - 1,
                        nd[i].nombre = nd[j].nombre
                 PROVE  i = j
      OBVIOUS
    <3>1. i \in Slots /\ j \in Slots /\ i # fin /\ j # fin
      BY <1>5 DEF Slots
    <3>2. de(i) \in 0 .. s.nFiles - 1 /\ de(j) \in 0 .. s.nFiles - 1
      BY <1>2, <1>5 DEF fin, Slots
    <3>3. de(i) = de(j)
      BY <1>2, <1>15, <3>1, <3>2 DEF Compacto
    <3> QED BY <1>15, <3>1, <3>3
  <2>3. \A i \in Slots : i >= fin => nd[i].bloques = <<>>
    <3> SUFFICES ASSUME NEW i \in Slots, i >= fin PROVE nd[i].bloques = <<>>
      OBVIOUS
    <3>1. CASE i = fin
      BY <3>1, <1>6, <1>8
    <3>2. CASE i # fin
      <4>1. i >= s.nFiles /\ i # p
        BY <3>2, <1>1, <1>2 DEF fin, Slots
      <4> QED BY <4>1, <3>2, <1>2, <1>8 DEF Compacto
    <3> QED BY <3>1, <3>2
  <2> QED BY <1>14, <2>1, <2>2, <2>3 DEF Compacto
<1>17. /\ Base(t) /\ t.datos = dat /\ t.dBitmap = t.bitmap \cap (0 .. EntradasGuardadas - 1)
       /\ t.bitmap = nb /\ t.directorio = nd
  BY <1>3, <1>8, <1>12, <1>14, <1>16, Guardada
<1>18. /\ t.bitmap = s.bitmap \ Range(BloquesDe(s, n))
       /\ \A i \in Slots :
            t.directorio[i] = IF i = s.nFiles - 1 THEN INodoVacio
                              ELSE IF i = buscarArchivoPorNombre(s, n)
                              THEN s.directorio[s.nFiles - 1] ELSE s.directorio[i]
  BY <1>7, <1>8, <1>17, Zenon DEF nb, bs, fin, p
<1> QED BY <1>7, <1>13, <1>17, <1>18 DEF bs

\* A byte in the last block.
LEMMA BaseDeUnByte ==
  ASSUME NEW s, Base(s), NEW b \in DataBloques, NEW w \in Trozos,
         NEW t, t = escribirBloques(s, <<b>>, <<w>>)
  PROVE  /\ Base(t) /\ t.datos[b] = w
         /\ t.directorio = s.directorio /\ t.bitmap = s.bitmap /\ t.nFiles = s.nFiles
         /\ t.dDirectorio = s.dDirectorio /\ t.dBitmap = s.dBitmap
         /\ \A e \in Bloques : e # b => t.datos[e] = s.datos[e]
<1> DEFINE bs == <<b>>
           c == <<w>>
<1>1. /\ bs \in Seq(DataBloques) /\ DOMAIN bs = {1} /\ bs[1] = b /\ 1 \in DOMAIN bs
      /\ \A i \in DOMAIN bs : c[i] \in Trozos
      /\ \A i, j \in DOMAIN bs : bs[i] = bs[j] => i = j
      /\ c[1] = w /\ Range(bs) = {b}
  <2>1. bs \in Seq(DataBloques) /\ DOMAIN bs = {1} /\ bs[1] = b /\ c[1] = w
    OBVIOUS
  <2> HIDE DEF bs, c
  <2> QED BY <2>1 DEF Range
<1>2. s \in Discos /\ s.dDirectorio \in [Slots -> INodos]
  BY DEF Base, Arrancable
<1>3. t = escribirBloques(s, bs, c)
  OBVIOUS
<1> HIDE DEF bs, c
<1>4. LET v == escribirBloques(s, bs, c)
      IN /\ v \in Discos
         /\ v = [s EXCEPT !.datos = v.datos]
         /\ \A e \in Bloques : e \notin Range(bs) => v.datos[e] = s.datos[e]
         /\ (\A i, j \in DOMAIN bs : bs[i] = bs[j] => i = j)
            => \A i \in DOMAIN bs : v.datos[bs[i]] = c[i]
  <2>1. bs \in Seq(DataBloques) /\ \A i \in DOMAIN bs : c[i] \in Trozos
    BY <1>1
  <2> QED BY ONLY <1>2, <2>1, BloquesGrabados
<1>5. /\ t \in Discos /\ t = [s EXCEPT !.datos = t.datos] /\ t.datos[b] = w
      /\ \A e \in Bloques : e # b => t.datos[e] = s.datos[e]
  <2>1. t.datos[bs[1]] = c[1]
    BY <1>1, <1>3, <1>4
  <2> QED BY <1>1, <1>3, <1>4, <2>1
<1>6. /\ t.directorio = s.directorio /\ t.bitmap = s.bitmap /\ t.nFiles = s.nFiles
      /\ t.dDirectorio = s.dDirectorio /\ t.dBitmap = s.dBitmap
  <2>1. PICK dd : t = [s EXCEPT !.datos = dd]
    BY <1>5
  <2> QED BY ONLY <1>2, <2>1 DEF Discos
<1>7. Base(t)
  <2>1. /\ Compacto(s) /\ Reservados \subseteq s.bitmap /\ Reservados \subseteq s.dBitmap
        /\ Compactado(s.dDirectorio) /\ s.directorio \in [Slots -> INodos]
        /\ s.dDirectorio = s.directorio
    BY DEF Base, Arrancable
  <2>2. Compacto(t)
    BY ONLY <1>6, <2>1 DEF Compacto
  <2>3. t \in Discos
    BY <1>5
  <2> QED BY ONLY <1>6, <2>1, <2>2, <2>3 DEF Base, Arrancable
<1> QED BY <1>5, <1>6, <1>7

\* The memory once agregar gave the file one block more.
ConUnBloque(s, n, b) ==
  [s EXCEPT !.directorio[buscarArchivoPorNombre(s, n)].bloques = Append(BloquesDe(s, n), b),
            !.bitmap = @ \cup {b}]

\* A file takes one more block, before anything is written.
LEMMA UnBloqueMas ==
  ASSUME NEW s, Base(s), NEW n \in Nombres, Existe(s, n), NEW b \in DataBloques,
         Len(BloquesDe(s, n)) < MaxFile, NEW x,
         x = ConUnBloque(s, n, b)
  PROVE  /\ x \in Discos /\ x.directorio \in [Slots -> INodos] /\ Reservados \subseteq x.bitmap
         /\ Compacto(x) /\ x.dDirectorio = s.dDirectorio /\ x.datos = s.datos
         /\ BloquesDe(s, n) \in Seq(DataBloques)
         /\ \A t : t.directorio = x.directorio
                  => /\ BloquesDe(t, n) = Append(BloquesDe(s, n), b)
                     /\ Existe(t, n) /\ buscarArchivoPorNombre(t, n) = buscarArchivoPorNombre(s, n)
         /\ CambiaSolo(s, x, buscarArchivoPorNombre(s, n))
<1> USE Constantes
<1> DEFINE p == buscarArchivoPorNombre(s, n)
           bs == BloquesDe(s, n)
           l == Append(bs, b)
           w == INodo(n, l)
           nd == [s.directorio EXCEPT ![p] = w]
           nb == s.bitmap \cup {b}
<1>1. p \in Slots /\ p < s.nFiles /\ s.directorio[p].nombre = n /\ n # Vacio
  BY Ocupacion, NombresValidos
<1>2. /\ s \in Discos /\ s.directorio \in [Slots -> INodos] /\ Compacto(s)
      /\ Reservados \subseteq s.bitmap /\ s.nFiles \in 0 .. TDIRECTORIO
      /\ s.directorio \in [Slots -> INodosLeidos] /\ s.bitmap \in SUBSET Bloques
  BY DEF Base, Arrancable, Discos
<1>3. DataBloques \subseteq Bloques
  BY DEF DataBloques, Bloques
<1>4. /\ bs = s.directorio[p].bloques /\ bs \in Seq(DataBloques) /\ n \notin NombresLargos
      /\ s.directorio[p] \in INodos
  <2>1. bs = s.directorio[p].bloques
    BY DEF BloquesDe
  <2>2. s.directorio[p] \in INodos
    BY <1>1, <1>2
  <2> HIDE DEF bs, p
  <2> QED BY <1>1, <2>1, <2>2 DEF INodos
<1> HIDE DEF p, bs
<1>5. l \in Seq(DataBloques) /\ Len(l) <= MaxFile /\ l \in Seq(Bloques)
  <2>1. l \in Seq(DataBloques) /\ Len(l) = Len(bs) + 1 /\ Len(bs) \in Nat
    BY <1>4
  <2>2. Len(bs) < MaxFile
    BY DEF bs
  <2> HIDE DEF l
  <2>3. l \in Seq(Bloques)
    BY <1>3, <2>1, ElementOfSeq
  <2> QED BY <2>1, <2>2, <2>3
<1>6. x = [s EXCEPT !.directorio = nd, !.bitmap = nb]
  <2> HIDE DEF l
  <2>1. [s.directorio[p] EXCEPT !.bloques = l] = w
    BY <1>1, <1>4 DEF INodos, INodo
  <2>2. x = [s EXCEPT !.directorio = [s.directorio EXCEPT ![p] = [s.directorio[p] EXCEPT !.bloques = l]],
                      !.bitmap = nb]
    BY <1>1, <1>2 DEF Discos, p, bs, l, ConUnBloque
  <2> QED BY <2>1, <2>2
<1> HIDE DEF l
<1>7. w \in INodos /\ w \in INodosLeidos /\ w.nombre = n /\ w.bloques = l
  BY <1>4, <1>5 DEF INodo, INodos, INodosLeidos
<1> HIDE DEF w
<1>8. /\ nd \in [Slots -> INodos] /\ nd \in [Slots -> INodosLeidos]
      /\ \A i \in Slots : nd[i] = IF i = p THEN w ELSE s.directorio[i]
  BY <1>1, <1>2, <1>7
<1>9. nb \in SUBSET Bloques /\ Reservados \subseteq nb
  BY <1>2, <1>3
<1> HIDE DEF nd, nb
<1>10. /\ x \in Discos /\ x.directorio = nd /\ x.bitmap = nb /\ x.nFiles = s.nFiles
       /\ x.datos = s.datos /\ x.dDirectorio = s.dDirectorio
  BY ONLY <1>2, <1>6, <1>8, <1>9 DEF Discos
<1>11. \A i \in Slots : nd[i].nombre = s.directorio[i].nombre
  BY <1>1, <1>7, <1>8
<1>12. Compacto(x)
  <2>1. \A i \in 0 .. s.nFiles - 1 : i \in Slots
    BY <1>2 DEF Slots
  <2>2. \A i \in Slots : i >= s.nFiles => nd[i].bloques = <<>>
    <3>1. \A i \in Slots : i >= s.nFiles => i # p
      BY <1>1, <1>2 DEF Slots
    <3> QED BY <1>2, <1>8, <3>1 DEF Compacto
  <2> QED BY ONLY <1>2, <1>10, <1>11, <2>1, <2>2 DEF Compacto
<1>13. ASSUME NEW t, t.directorio = x.directorio
       PROVE  BloquesDe(t, n) = l /\ Existe(t, n) /\ buscarArchivoPorNombre(t, n) = p
  <2>1. \A i \in Slots : t.directorio[i].nombre = s.directorio[i].nombre
    BY <1>10, <1>11, <1>13
  <2>2. Existe(t, n) /\ buscarArchivoPorNombre(t, n) = p
    BY <2>1, MismosNombres DEF p
  <2> QED BY <1>1, <1>7, <1>8, <1>10, <1>13, <2>2 DEF BloquesDe
<1>14. \A t : t.directorio = x.directorio
          => /\ BloquesDe(t, n) = Append(BloquesDe(s, n), b)
             /\ Existe(t, n) /\ buscarArchivoPorNombre(t, n) = buscarArchivoPorNombre(s, n)
  BY <1>13 DEF l, bs, p
<1>15. BloquesDe(s, n) \in Seq(DataBloques)
  BY <1>4 DEF bs
<1>16. CambiaSolo(s, x, buscarArchivoPorNombre(s, n))
  BY <1>8, <1>10 DEF CambiaSolo, p
<1> QED BY <1>8, <1>9, <1>10, <1>12, <1>14, <1>15, <1>16

\* agregar ends in a state between calls, whichever of its branches it takes:
\* the byte in the last block, in a first one or in one more.
LEMMA BaseDeAgregar ==
  ASSUME NEW s, Base(s), NEW n \in Nombres, Existe(s, n), NEW c \in Bytes,
         \/ Len(BloquesDe(s, n)) < MaxFile
         \/ /\ BloquesDe(s, n) # <<>>
            /\ Len(s.datos[BloquesDe(s, n)[Len(BloquesDe(s, n))]]) < TBLOQUE,
         NEW t, t = agregar(s, n, c), t # s
  PROVE  LET bs == BloquesDe(t, n)
         IN /\ Base(t) /\ bs \in Seq(DataBloques) /\ bs # <<>>
            /\ \A e \in Bloques : e # bs[Len(bs)] => t.datos[e] = s.datos[e]
            /\ bs = BloquesDe(s, n) => /\ t.dBitmap = s.dBitmap /\ t.dDirectorio = s.dDirectorio
                                       /\ t.datos[bs[Len(bs)]] = Append(s.datos[bs[Len(bs)]], c)
            /\ bs # BloquesDe(s, n) => /\ t.dBitmap = t.bitmap \cap (0 .. EntradasGuardadas - 1)
                                       /\ bs[Len(bs)] \notin s.bitmap
                                       /\ bs = Append(BloquesDe(s, n), bs[Len(bs)])
            /\ CambiaSolo(s, t, buscarArchivoPorNombre(s, n))
            /\ Existe(t, n) /\ buscarArchivoPorNombre(t, n) = buscarArchivoPorNombre(s, n)
<1> DEFINE p == buscarArchivoPorNombre(s, n)
           bs == BloquesDe(s, n)
           ultimo == bs[Len(bs)]
           b == buscarBloqueLibre(s)
           cabe == bs # <<>> /\ Len(s.datos[ultimo]) < TBLOQUE
           x == [s EXCEPT !.directorio[p].bloques = Append(bs, b),
                          !.bitmap = @ \cup {b}]
           w == Append(s.datos[ultimo], c)
<1>0. /\ cabe => bs # <<>>
      /\ Base(s) /\ n \in Nombres /\ Existe(s, n) /\ c \in Bytes /\ t # s
      /\ ~cabe => Len(bs) < MaxFile
  OBVIOUS
<1>1. t = IF cabe
          THEN escribirBloques(s, <<ultimo>>, <<w>>)
          ELSE IF Libres(s) = {} \/ Len(bs) = MaxBloques THEN s
          ELSE IF bs = <<>>
          THEN guardarDirectorio(guardarBitmap(escribirBloques(x, <<b>>, << <<c>> >>)))
          ELSE escribirBloques(guardarDirectorio(guardarBitmap(x)), <<b>>, << <<c>> >>)
  BY Zenon DEF agregar, BloquesDe, obtenerUltimoBloque
<1>2. bs \in Seq(DataBloques)
  <2>1. p \in Slots
    BY Ocupacion
  <2>2. s.directorio[p] \in INodos
    BY <2>1 DEF Base
  <2> QED BY <2>2 DEF INodos, BloquesDe
<1>3. s.datos \in [Bloques -> Trozos] /\ DataBloques \subseteq Bloques
  BY Constantes DEF Base, Arrancable, Discos, DataBloques, Bloques
<1> HIDE DEF bs, ultimo, b, x, w, p, cabe
<1>4. ASSUME cabe
      PROVE  /\ Base(t) /\ BloquesDe(t, n) = bs
             /\ \A e \in Bloques : e # ultimo => t.datos[e] = s.datos[e]
             /\ t.dBitmap = s.dBitmap /\ t.dDirectorio = s.dDirectorio /\ t.datos[ultimo] = w
             /\ CambiaSolo(s, t, p) /\ Existe(t, n) /\ buscarArchivoPorNombre(t, n) = p
  <2>1. ultimo \in DataBloques
    BY <1>0, <1>2, <1>4 DEF ultimo
  <2>2. w \in Trozos
    <3>1. s.datos[ultimo] \in Trozos /\ Len(s.datos[ultimo]) < TBLOQUE
      BY <1>3, <1>4, <2>1 DEF cabe
    <3> QED BY <3>1, TrozoMasLargo DEF w
  <2>3. t = escribirBloques(s, <<ultimo>>, <<w>>)
    BY <1>1, <1>4
  <2>4. /\ Base(t)
        /\ t.directorio = s.directorio /\ t.dBitmap = s.dBitmap /\ t.dDirectorio = s.dDirectorio
        /\ \A e \in Bloques : e # ultimo => t.datos[e] = s.datos[e]
        /\ t.datos[ultimo] = w
    BY ONLY <1>0, <2>1, <2>2, <2>3, BaseDeUnByte
  <2>7. BloquesDe(t, n) = bs /\ Existe(t, n) /\ buscarArchivoPorNombre(t, n) = p
    <3>1. Existe(t, n) /\ buscarArchivoPorNombre(t, n) = p
      BY <1>0, <2>4, MismosNombres DEF p
    <3> QED BY <2>4, <3>1 DEF BloquesDe, bs, p
  <2> QED BY <2>4, <2>7 DEF CambiaSolo
<1>5. ASSUME ~cabe
      PROVE  /\ Base(t) /\ BloquesDe(t, n) = Append(bs, b) /\ b \in DataBloques
             /\ \A e \in Bloques : e # b => t.datos[e] = s.datos[e]
             /\ t.dBitmap = t.bitmap \cap (0 .. EntradasGuardadas - 1)
             /\ b \notin s.bitmap /\ CambiaSolo(s, t, p)
             /\ Existe(t, n) /\ buscarArchivoPorNombre(t, n) = p
  <2>1. ~(Libres(s) = {} \/ Len(bs) = MaxBloques)
    BY <1>1, <1>5
  <2>2. b \in DataBloques /\ b \notin s.bitmap
    <3>1. b \in Libres(s)
      BY <2>1, BloqueLibre DEF b
    <3> QED BY <3>1, Constantes DEF Libres, DataBloques, Base, Arrancable, Reservados
  <2>3. Len(BloquesDe(s, n)) < MaxFile
    BY ONLY <1>0, <1>5 DEF bs
  <2>4. x = ConUnBloque(s, n, b)
    BY DEF x, p, bs, ConUnBloque
  <2>5. /\ x \in Discos /\ x.directorio \in [Slots -> INodos] /\ Reservados \subseteq x.bitmap
        /\ Compacto(x) /\ x.dDirectorio = s.dDirectorio /\ x.datos = s.datos
        /\ \A u : u.directorio = x.directorio => BloquesDe(u, n) = Append(bs, b)
        /\ \A u : u.directorio = x.directorio
                 => CambiaSolo(s, u, p) /\ Existe(u, n) /\ buscarArchivoPorNombre(u, n) = p
    <3>1. \A u : u.directorio = x.directorio
                 => /\ BloquesDe(u, n) = Append(BloquesDe(s, n), b)
                    /\ Existe(u, n) /\ buscarArchivoPorNombre(u, n) = buscarArchivoPorNombre(s, n)
      BY ONLY <1>0, <2>2, <2>3, <2>4, UnBloqueMas
    <3>2. /\ x \in Discos /\ x.directorio \in [Slots -> INodos] /\ Reservados \subseteq x.bitmap
          /\ Compacto(x) /\ x.dDirectorio = s.dDirectorio /\ x.datos = s.datos
      BY ONLY <1>0, <2>2, <2>3, <2>4, UnBloqueMas
    <3>3. CambiaSolo(s, x, p)
      BY ONLY <1>0, <2>2, <2>3, <2>4, UnBloqueMas DEF p
    <3>4. \A u : u.directorio = x.directorio => CambiaSolo(s, u, p)
      BY ONLY <3>3 DEF CambiaSolo
    <3> QED BY ONLY <3>1, <3>2, <3>4 DEF bs, p
  <2>6. <<c>> \in Trozos
    <3>1. <<c>> \in Seq(Bytes \cup {ByteMeta}) /\ Len(<<c>>) = 1
      OBVIOUS
    <3> QED BY <3>1, Constantes DEF Trozos
  <2>7. CASE bs = <<>>
    <3> DEFINE l == <<b>>
               d == << <<c>> >>
               y == escribirBloques(x, l, d)
    <3>1. t = guardarDirectorio(guardarBitmap(y))
      BY <1>1, <1>5, <2>1, <2>7
    <3>2. l \in Seq(DataBloques) /\ Range(l) = {b} /\ \A i \in DOMAIN l : d[i] \in Trozos
      <4>1. l \in Seq(DataBloques) /\ DOMAIN l = {1} /\ l[1] = b /\ d[1] = <<c>>
        BY <2>2
      <4> HIDE DEF l, d
      <4> QED BY <2>6, <4>1 DEF Range
    <3> HIDE DEF l, d
    <3>3. x.dDirectorio \in [Slots -> INodos]
      BY <2>5 DEF Base
    <3>4. /\ y \in Discos /\ y = [x EXCEPT !.datos = y.datos]
          /\ \A e \in Bloques : e \notin Range(l) => y.datos[e] = x.datos[e]
      <4>1. x \in Discos /\ l \in Seq(DataBloques) /\ \A i \in DOMAIN l : d[i] \in Trozos
        BY <2>5, <3>2
      <4> QED BY ONLY <3>3, <4>1, BloquesGrabados
    <3> HIDE DEF y
    <3>5. y.directorio = x.directorio /\ y.bitmap = x.bitmap /\ y.nFiles = x.nFiles
      <4>1. PICK dd : y = [x EXCEPT !.datos = dd]
        BY <3>4
      <4> QED BY ONLY <2>5, <4>1 DEF Discos
    <3>6. Compacto(y)
      BY ONLY <2>5, <3>5 DEF Compacto
    <3>7. /\ Base(t) /\ t.directorio = y.directorio
          /\ t.datos = y.datos /\ t.dBitmap = t.bitmap \cap (0 .. EntradasGuardadas - 1)
      BY <2>5, <3>1, <3>4, <3>5, <3>6, Guardada
    <3> QED BY <2>2, <2>5, <3>2, <3>4, <3>5, <3>7
  <2>8. CASE bs # <<>>
    <3> DEFINE g == guardarDirectorio(guardarBitmap(x))
    <3> DEFINE v == <<c>>
    <3>1. t = escribirBloques(g, <<b>>, <<v>>)
      BY <1>1, <1>5, <2>1, <2>8
    <3>0. v \in Trozos
      BY <2>6
    <3> HIDE DEF g, v
    <3>2. /\ Base(g) /\ g.directorio = x.directorio /\ g.datos = x.datos
          /\ g.dBitmap = g.bitmap \cap (0 .. EntradasGuardadas - 1)
      BY <2>5, Guardada DEF g
    <3>3. /\ Base(t) /\ t.directorio = g.directorio /\ t.bitmap = g.bitmap /\ t.dBitmap = g.dBitmap
          /\ \A e \in Bloques : e # b => t.datos[e] = g.datos[e]
      <4>1. Base(g)
        BY <3>2
      <4> QED BY ONLY <2>2, <3>0, <3>1, <4>1, BaseDeUnByte
    <3> QED BY <2>2, <2>5, <3>2, <3>3
  <2> QED BY <2>7, <2>8
<1>6. Append(bs, b) # bs /\ (b \in DataBloques => Append(bs, b) \in Seq(DataBloques))
      /\ Append(bs, b) # <<>> /\ Append(bs, b)[Len(Append(bs, b))] = b
  <2>1. Len(Append(bs, b)) = Len(bs) + 1 /\ Len(bs) \in Nat /\ Append(bs, b)[Len(bs) + 1] = b
    BY <1>2
  <2>2. Append(bs, b) # bs /\ Append(bs, b) # <<>>
    BY <2>1
  <2> QED BY <1>2, <2>1, <2>2
<1>7. CASE cabe
  <2> DEFINE l == BloquesDe(t, n)
  <2>1. /\ Base(t) /\ l = bs
        /\ \A e \in Bloques : e # ultimo => t.datos[e] = s.datos[e]
        /\ t.dBitmap = s.dBitmap /\ t.dDirectorio = s.dDirectorio /\ t.datos[ultimo] = w
        /\ CambiaSolo(s, t, p) /\ Existe(t, n) /\ buscarArchivoPorNombre(t, n) = p
    BY <1>4, <1>7
  <2> HIDE DEF l
  <2>2. l \in Seq(DataBloques) /\ l # <<>> /\ ultimo = l[Len(l)]
    BY <1>0, <1>2, <1>7, <2>1 DEF ultimo
  <2> QED BY <2>1, <2>2 DEF l, bs, p, w
<1>8. CASE ~cabe
  <2> DEFINE l == BloquesDe(t, n)
  <2>1. /\ Base(t) /\ l = Append(bs, b) /\ b \in DataBloques
        /\ \A e \in Bloques : e # b => t.datos[e] = s.datos[e]
        /\ t.dBitmap = t.bitmap \cap (0 .. EntradasGuardadas - 1)
        /\ b \notin s.bitmap /\ CambiaSolo(s, t, p)
        /\ Existe(t, n) /\ buscarArchivoPorNombre(t, n) = p
    BY <1>5, <1>8
  <2> HIDE DEF l
  <2>2. l # bs /\ l \in Seq(DataBloques) /\ l # <<>> /\ l[Len(l)] = b
    BY ONLY <1>6, <2>1
  <2> QED BY <2>1, <2>2 DEF l, bs, p
<1> QED BY <1>7, <1>8

\* A call that starts with state and writes r leads to a state of T.
Bien(r, T) == \E t \in T : Base(t) /\ Arrancable(r.estado) /\ Cerca(r.estado, t, r.escrituras)

\* A call without effect.
LEMMA NadaQueHacer ==
  ASSUME NEW s, Base(s), NEW r \in SinEfecto(s), NEW T, s \in T
  PROVE  Bien(r, T)
<1>1. r.estado = s /\ r.escrituras = <<>>
  BY DEF SinEfecto
<1>2. Cerca(s, s, <<>>) /\ Arrancable(s)
  BY Quieto DEF Base
<1> QED BY <1>1, <1>2 DEF Bien

\* A call whose writes P make up for what t differs from s in.
LEMMA Iniciado ==
  ASSUME NEW s, Base(s), NEW t, Base(t), NEW P, Hacia(P, t), P # <<>> => P[1].que # "listas",
         \A b \in Bloques : FaltaBloque(P, b) \/ s.datos[b] = t.datos[b],
         Falta(P, "bitmap") \/ s.dBitmap = t.dBitmap,
         Falta(P, "listas") \/ s.dDirectorio = t.dDirectorio,
         NEW r, r = Inicio(s, t, P), NEW T, t \in T
  PROVE  Bien(r, T)
<1> DEFINE e == EnMemoria(s, t)
<1>1. Arrancable(e)
  BY Empezado
<1>2. /\ Hacia(P, t) /\ (P # <<>> => P[1].que # "listas")
      /\ \A b \in Bloques : FaltaBloque(P, b) \/ s.datos[b] = t.datos[b]
      /\ Falta(P, "bitmap") \/ s.dBitmap = t.dBitmap
      /\ Falta(P, "listas") \/ s.dDirectorio = t.dDirectorio
  OBVIOUS
<1>3. Cerca(e, t, P)
  BY <1>2, Empezado
<1>4. r.estado = e /\ r.escrituras = P
  BY DEF Inicio
<1> QED BY <1>1, <1>3, <1>4 DEF Bien

\* crearInodo, with its two saves, leads to what the atomic one returns.
LEMMA IniciadoCrear ==
  ASSUME NEW s, Base(s), NEW n \in Nombres, NEW r \in IniciarCrear(s, n)
  PROVE  Bien(r, {crearInodo(s, n)})
<1> DEFINE t == crearInodo(s, n)
           P == GrabarDirectorio \o GrabarBitmap
<1>1. CASE t = s
  <2>1. r \in SinEfecto(s) /\ s \in {t}
    BY <1>1 DEF IniciarCrear
  <2> QED BY <2>1, NadaQueHacer
<1>2. CASE t # s
  <2>1. r = Inicio(s, t, P)
    BY <1>2 DEF IniciarCrear
  <2>2. n \notin NombresLargos /\ ~Existe(s, n) /\ Existe(s, Vacio)
    BY <1>2 DEF crearInodo
  <2>3. Base(t) /\ t.datos = s.datos /\ t.dBitmap = t.bitmap \cap (0 .. EntradasGuardadas - 1)
    BY <2>2, BaseDeCrear
  <2>4. /\ Hacia(GrabarDirectorio, t) /\ Falta(GrabarDirectorio, "listas")
        /\ GrabarDirectorio[1].que # "listas"
        /\ Hacia(GrabarBitmap, t) /\ Falta(GrabarBitmap, "bitmap") /\ GrabarBitmap[1].que # "listas"
    BY <2>3, EscriturasDeMetadatos
  <2> HIDE DEF t
  <2>5. /\ Hacia(P, t) /\ Falta(P, "listas") /\ Falta(P, "bitmap")
        /\ P # <<>> => P[1].que # "listas"
    BY <2>4, Juntas
  <2> HIDE DEF P
  <2>6. \A b \in Bloques : FaltaBloque(P, b) \/ s.datos[b] = t.datos[b]
    BY <2>3
  <2>7. t \in {t}
    OBVIOUS
  <2>8. Bien(r, {t})
    BY <2>1, <2>3, <2>5, <2>6, <2>7, Iniciado
  <2> QED BY <2>8 DEF t
<1> QED BY <1>1, <1>2

\* The bitmap and the directory, in this order.
LEMMA MetadatosAlFinal ==
  ASSUME NEW t, t.dBitmap = t.bitmap \cap (0 .. EntradasGuardadas - 1),
         NEW P, P = GrabarBitmap \o GrabarDirectorio
  PROVE  /\ Hacia(P, t) /\ Falta(P, "listas") /\ Falta(P, "bitmap")
         /\ P # <<>> => P[1].que # "listas"
<1>1. /\ Hacia(GrabarDirectorio, t) /\ Falta(GrabarDirectorio, "listas")
      /\ GrabarDirectorio[1].que # "listas"
      /\ Hacia(GrabarBitmap, t) /\ Falta(GrabarBitmap, "bitmap") /\ GrabarBitmap[1].que # "listas"
  BY EscriturasDeMetadatos
<1> QED BY <1>1, Juntas

\* The blocks of bs and, then, the bitmap and the directory.
LEMMA IniciadoConBloques ==
  ASSUME NEW s, Base(s), NEW t, Base(t), t.dBitmap = t.bitmap \cap (0 .. EntradasGuardadas - 1),
         NEW bs \in Seq(DataBloques), NEW c, \A i \in DOMAIN bs : c[i] = t.datos[bs[i]],
         \A b \in Bloques : b \notin Range(bs) => t.datos[b] = s.datos[b],
         NEW P, P = [i \in DOMAIN bs |-> EscribirBloque(bs[i], c[i])],
         NEW r, r = Inicio(s, t, P \o (GrabarBitmap \o GrabarDirectorio)), NEW T, t \in T
  PROVE  Bien(r, T)
<1> DEFINE Q == GrabarBitmap \o GrabarDirectorio
           R == P \o Q
<1>1. /\ Hacia(P, t) /\ \A b : FaltaBloque(P, b) <=> b \in Range(bs)
      /\ P # <<>> => P[1].que # "listas"
  <2>1. t \in Discos
    BY DEF Base, Arrancable
  <2> QED BY <2>1, EscriturasDeBloques
<1>2. /\ Hacia(Q, t) /\ Falta(Q, "listas") /\ Falta(Q, "bitmap")
      /\ Q # <<>> => Q[1].que # "listas"
  BY MetadatosAlFinal
<1> HIDE DEF Q
<1>3. /\ Hacia(R, t) /\ Falta(R, "listas") /\ Falta(R, "bitmap")
      /\ \A b : FaltaBloque(R, b) <=> FaltaBloque(P, b) \/ FaltaBloque(Q, b)
      /\ R # <<>> => R[1].que # "listas"
  <2>1. Hacia(P, t) /\ Hacia(Q, t)
    BY <1>1, <1>2
  <2>2. /\ Hacia(R, t)
        /\ \A q : Falta(R, q) <=> Falta(P, q) \/ Falta(Q, q)
        /\ \A b : FaltaBloque(R, b) <=> FaltaBloque(P, b) \/ FaltaBloque(Q, b)
        /\ (R # <<>> /\ R[1].que = "listas") =>
             \/ P # <<>> /\ P[1].que = "listas"
             \/ Q # <<>> /\ Q[1].que = "listas"
    BY ONLY <2>1, Juntas
  <2> HIDE DEF R
  <2>3. Falta(R, "listas") /\ Falta(R, "bitmap")
    BY <1>2, <2>2
  <2>4. R # <<>> => R[1].que # "listas"
    BY <1>1, <1>2, <2>2
  <2> QED BY <2>2, <2>3, <2>4
<1>4. r = Inicio(s, t, R)
  BY DEF Q
<1> HIDE DEF R
<1>5. \A b \in Bloques : FaltaBloque(R, b) \/ s.datos[b] = t.datos[b]
  BY <1>1, <1>3
<1> QED BY <1>3, <1>4, <1>5, Iniciado

\* The writes of agregar and eliminar are three parts, grouped either way.
LEMMA Asociadas ==
  ASSUME NEW t, NEW P, Hacia(P, t)
  PROVE  (P \o GrabarBitmap) \o GrabarDirectorio = P \o (GrabarBitmap \o GrabarDirectorio)
<1>1. P \in Seq(Escrituras)
  BY DEF Hacia
<1>2. /\ GrabarBitmap \in Seq(Escrituras) /\ GrabarDirectorio \in Seq(Escrituras)
  <2>1. /\ Escritura("nombres") \in Escrituras /\ Escritura("listas") \in Escrituras
        /\ Escritura("bitmap") \in Escrituras
    <3>1. 0 \in Bloques /\ <<>> \in Trozos
      BY Constantes DEF Bloques, Trozos
    <3> QED BY <3>1 DEF Escritura, Escrituras
  <2> HIDE DEF Escritura
  <2> QED BY <2>1 DEF GrabarBitmap, GrabarDirectorio
<1> HIDE DEF GrabarBitmap, GrabarDirectorio
<1> QED BY <1>1, <1>2, ConcatAssociative

\* escribir, its blocks first and then its saves, leads to what the atomic one
\* returns.
LEMMA IniciadoEscribir ==
  ASSUME NEW s, Base(s), NEW n \in Nombres, Existe(s, n) \/ ~Existe(s, Vacio), NEW d \in Textos,
         NEW r \in IniciarEscribir(s, n, d)
  PROVE  Bien(r, escribir(s, n, d))
<1> DEFINE bl(t) == BloquesDe(t, n)
           P(t) == [i \in DOMAIN bl(t) |-> EscribirBloque(bl(t)[i], Trozo(d, i))]
<1>1. \/ s \in escribir(s, n, d) /\ r \in SinEfecto(s)
      \/ \E t \in escribir(s, n, d) \ {s} :
           r = Inicio(s, t, (P(t) \o GrabarBitmap) \o GrabarDirectorio)
  BY Zenon DEF IniciarEscribir
<1>2. ASSUME s \in escribir(s, n, d), r \in SinEfecto(s) PROVE Bien(r, escribir(s, n, d))
  BY <1>2, NadaQueHacer
<1>3. ASSUME NEW t \in escribir(s, n, d), t # s,
             r = Inicio(s, t, (P(t) \o GrabarBitmap) \o GrabarDirectorio)
      PROVE  Bien(r, escribir(s, n, d))
  <2> DEFINE bs == BloquesDe(t, n)
             c == [i \in DOMAIN bs |-> Trozo(d, i)]
             Q == [i \in DOMAIN bs |-> EscribirBloque(bs[i], c[i])]
  <2>1. Existe(s, n)
    <3>1. ASSUME ~Existe(s, n) PROVE escribir(s, n, d) = {s}
      BY <3>1 DEF escribir
    <3> QED BY <1>3, <3>1
  <2>2. /\ Base(t) /\ t.dBitmap = t.bitmap \cap (0 .. EntradasGuardadas - 1)
        /\ bs \in Seq(DataBloques)
        /\ \A i \in DOMAIN bs : Trozo(d, i) = t.datos[bs[i]]
        /\ \A b \in Bloques : b \notin Range(bs) => t.datos[b] = s.datos[b]
    BY <1>3, <2>1, BaseDeEscribir
  <2>3. P(t) = Q
    OBVIOUS
  <2> HIDE DEF P, bs
  <2>4. \A i \in DOMAIN bs : c[i] = t.datos[bs[i]]
    BY <2>2
  <2> HIDE DEF c
  <2>5. Hacia(Q, t)
    <3>1. t \in Discos
      BY <2>2 DEF Base, Arrancable
    <3> QED BY <2>2, <2>4, <3>1, EscriturasDeBloques
  <2> DEFINE R == Q
  <2>6. R = [i \in DOMAIN bs |-> EscribirBloque(bs[i], c[i])]
    OBVIOUS
  <2>7. R = P(t) /\ Hacia(R, t)
    BY <2>3, <2>5
  <2> HIDE DEF R, Q
  <2>8. r = Inicio(s, t, R \o (GrabarBitmap \o GrabarDirectorio))
    BY <1>3, <2>7, Asociadas
  <2> QED BY <1>3, <2>2, <2>4, <2>6, <2>8, IniciadoConBloques
<1> QED BY <1>1, <1>2, <1>3

\* eliminar, its empty blocks first and then its saves, leads to what the
\* atomic one returns.
LEMMA IniciadoEliminar ==
  ASSUME NEW s, Base(s), NEW n \in Nombres, NEW r \in IniciarEliminar(s, n)
  PROVE  Bien(r, {eliminar(s, n)})
<1> DEFINE t == eliminar(s, n)
           bs == BloquesDe(s, n)
           c == [i \in DOMAIN bs |-> <<>>]
           Q == [i \in DOMAIN bs |-> EscribirBloque(bs[i], c[i])]
           P == [i \in DOMAIN bs |-> EscribirBloque(bs[i], <<>>)]
<1>1. CASE ~Existe(s, n)
  <2>1. r \in SinEfecto(s) /\ s \in {t}
    BY <1>1 DEF IniciarEliminar, eliminar
  <2> QED BY <2>1, NadaQueHacer
<1>2. CASE Existe(s, n)
  <2>1. r = Inicio(s, t, (P \o GrabarBitmap) \o GrabarDirectorio)
    BY <1>2, Zenon DEF IniciarEliminar, ZonaBorrada
  <2>2. /\ Base(t) /\ t.dBitmap = t.bitmap \cap (0 .. EntradasGuardadas - 1)
        /\ bs \in Seq(DataBloques)
        /\ \A i \in DOMAIN bs : <<>> = t.datos[bs[i]]
        /\ \A b \in Bloques : b \notin Range(bs) => t.datos[b] = s.datos[b]
    BY <1>2, BaseDeEliminar
  <2>3. P = Q
    OBVIOUS
  <2> HIDE DEF P, bs, t
  <2>4. \A i \in DOMAIN bs : c[i] = t.datos[bs[i]]
    BY <2>2
  <2> HIDE DEF c
  <2>5. Hacia(Q, t)
    <3>1. t \in Discos
      BY <2>2 DEF Base, Arrancable
    <3> QED BY <2>2, <2>4, <3>1, EscriturasDeBloques
  <2> DEFINE R == Q
  <2>6. R = [i \in DOMAIN bs |-> EscribirBloque(bs[i], c[i])]
    OBVIOUS
  <2>7. R = P /\ Hacia(R, t)
    BY <2>3, <2>5
  <2> HIDE DEF R, Q
  <2>8. r = Inicio(s, t, R \o (GrabarBitmap \o GrabarDirectorio))
    BY <2>1, <2>7, Asociadas
  <2>9. t \in {t}
    OBVIOUS
  <2>10. Bien(r, {t})
    BY <2>2, <2>4, <2>6, <2>8, <2>9, IniciadoConBloques
  <2> QED BY <2>10 DEF t
<1> QED BY <1>1, <1>2

\* renombrar, with its one save, leads to what the atomic one returns.
LEMMA IniciadoRenombrar ==
  ASSUME NEW s, Base(s), NEW n \in Nombres, NEW m \in Nombres \ NombresLargos, ~Existe(s, m),
         NEW r \in IniciarRenombrar(s, n, m)
  PROVE  Bien(r, {renombrar(s, n, m)})
<1> DEFINE t == renombrar(s, n, m)
           P == GrabarDirectorio
<1>1. CASE ~Existe(s, n)
  <2>1. r \in SinEfecto(s) /\ s \in {t}
    BY <1>1 DEF IniciarRenombrar, renombrar
  <2> QED BY <2>1, NadaQueHacer
<1>2. CASE Existe(s, n)
  <2>1. r = Inicio(s, t, P)
    BY <1>2 DEF IniciarRenombrar
  <2>2. Base(t) /\ t.datos = s.datos /\ t.dBitmap = s.dBitmap
    BY <1>2, BaseDeRenombrar
  <2>3. Hacia(P, t) /\ Falta(P, "listas") /\ P[1].que # "listas"
    BY EscriturasDeMetadatos
  <2> HIDE DEF t, P
  <2>4. t \in {t}
    OBVIOUS
  <2>5. Bien(r, {t})
    BY <2>1, <2>2, <2>3, <2>4, Iniciado
  <2> QED BY <2>5 DEF t
<1> QED BY <1>1, <1>2

\* agregar, with the writes of each of its branches in their order, leads to
\* what the atomic one returns.
LEMMA IniciadoAgregar ==
  ASSUME NEW s, Base(s), NEW n \in Nombres, Existe(s, n), NEW c \in Bytes,
         \/ Len(BloquesDe(s, n)) < MaxFile
         \/ /\ BloquesDe(s, n) # <<>>
            /\ Len(s.datos[BloquesDe(s, n)[Len(BloquesDe(s, n))]]) < TBLOQUE,
         NEW r \in IniciarAgregar(s, n, c)
  PROVE  Bien(r, {agregar(s, n, c)})
<1> DEFINE t == agregar(s, n, c)
           l == BloquesDe(t, n)
           viejos == BloquesDe(s, n)
           ultimo == Last(l)
           byte == <<EscribirBloque(ultimo, t.datos[ultimo])>>
           M == GrabarBitmap \o GrabarDirectorio
<1>1. CASE t = s
  <2>1. r \in SinEfecto(s) /\ s \in {t}
    BY <1>1 DEF IniciarAgregar
  <2> QED BY <2>1, NadaQueHacer
<1>2. CASE t # s
  <2>1. r = Inicio(s, t, IF l = viejos THEN byte
                         ELSE IF viejos = <<>> THEN byte \o M ELSE M \o byte)
    BY <1>2, Zenon DEF IniciarAgregar, MetadatosDeAgregar
  <2>2. /\ Base(t) /\ l \in Seq(DataBloques) /\ l # <<>>
        /\ \A e \in Bloques : e # l[Len(l)] => t.datos[e] = s.datos[e]
        /\ l = viejos => t.dBitmap = s.dBitmap /\ t.dDirectorio = s.dDirectorio
        /\ l # viejos => t.dBitmap = t.bitmap \cap (0 .. EntradasGuardadas - 1)
    BY <1>2, BaseDeAgregar
  <2> HIDE DEF t, l, viejos
  <2>3. ultimo = l[Len(l)]
    BY DEF Last
  <2>4. ultimo \in DataBloques
    BY <2>2, <2>3
  <2> HIDE DEF ultimo
  <2> DEFINE bs == <<ultimo>>
             d == <<t.datos[ultimo]>>
             P == [i \in DOMAIN bs |-> EscribirBloque(bs[i], d[i])]
  <2>5. /\ bs \in Seq(DataBloques) /\ DOMAIN bs = {1} /\ bs[1] = ultimo /\ d[1] = t.datos[ultimo]
    BY <2>4
  <2>6. P = byte
    OBVIOUS
  <2> HIDE DEF bs, d, byte
  <2>7. /\ \A i \in DOMAIN bs : d[i] = t.datos[bs[i]]
        /\ Range(bs) = {ultimo}
    BY <2>5 DEF Range
  <2>8. P = [i \in DOMAIN bs |-> EscribirBloque(bs[i], d[i])]
    OBVIOUS
  <2> HIDE DEF P
  <2>9. /\ Hacia(P, t) /\ \A b : FaltaBloque(P, b) <=> b \in Range(bs)
        /\ P # <<>> => P[1].que # "listas"
    <3>1. t \in Discos
      BY <2>2 DEF Base, Arrancable
    <3> QED BY <2>5, <2>7, <2>8, <3>1, EscriturasDeBloques
  <2>10. \A b \in Bloques : b \notin Range(bs) => t.datos[b] = s.datos[b]
    BY <2>2, <2>3, <2>7
  <2>11. t \in {t}
    OBVIOUS
  <2>12. ASSUME l = viejos PROVE Bien(r, {t})
    <3>1. r = Inicio(s, t, P)
      BY <2>1, <2>6, <2>12
    <3>2. t.dBitmap = s.dBitmap /\ t.dDirectorio = s.dDirectorio
      BY <2>2, <2>12
    <3>3. \A b \in Bloques : FaltaBloque(P, b) \/ s.datos[b] = t.datos[b]
      BY <2>9, <2>10
    <3>4. Base(t)
      BY <2>2
    <3> QED BY <2>9, <2>11, <3>1, <3>2, <3>3, <3>4, Iniciado
  <2>13. ASSUME l # viejos PROVE Base(t) /\ t.dBitmap = t.bitmap \cap (0 .. EntradasGuardadas - 1)
    BY <2>2, <2>13
  <2>14. ASSUME l # viejos, viejos = <<>> PROVE Bien(r, {t})
    <3>1. r = Inicio(s, t, P \o (GrabarBitmap \o GrabarDirectorio))
      BY <2>1, <2>6, <2>14
    <3> QED BY <2>5, <2>7, <2>8, <2>10, <2>11, <2>13, <2>14, <3>1, IniciadoConBloques
  <2>15. ASSUME l # viejos, viejos # <<>> PROVE Bien(r, {t})
    <3> DEFINE R == M \o P
    <3>1. r = Inicio(s, t, R)
      BY <2>1, <2>6, <2>15
    <3>2. Base(t) /\ t.dBitmap = t.bitmap \cap (0 .. EntradasGuardadas - 1)
      BY <2>13, <2>15
    <3>3. /\ Hacia(M, t) /\ Falta(M, "listas") /\ Falta(M, "bitmap")
          /\ M # <<>> => M[1].que # "listas"
      BY <3>2, MetadatosAlFinal
    <3> HIDE DEF M
    <3>4. /\ Hacia(R, t)
          /\ \A q : Falta(R, q) <=> Falta(M, q) \/ Falta(P, q)
          /\ \A b : FaltaBloque(R, b) <=> FaltaBloque(M, b) \/ FaltaBloque(P, b)
          /\ (R # <<>> /\ R[1].que = "listas") =>
               \/ M # <<>> /\ M[1].que = "listas"
               \/ P # <<>> /\ P[1].que = "listas"
      BY <2>9, <3>3, Juntas
    <3> HIDE DEF R
    <3>5. Falta(R, "listas") /\ Falta(R, "bitmap") /\ (R # <<>> => R[1].que # "listas")
      BY <2>9, <3>3, <3>4
    <3>6. \A b \in Bloques : FaltaBloque(R, b) \/ s.datos[b] = t.datos[b]
      BY <2>9, <2>10, <3>4
    <3> QED BY <2>11, <3>1, <3>2, <3>4, <3>5, <3>6, Iniciado
  <2>16. Bien(r, {t})
    BY <2>12, <2>14, <2>15
  <2> QED BY <2>16 DEF t
<1> QED BY <1>1, <1>2

\* The destructor saves the bitmap and the directory.
LEMMA IniciadoDestructor ==
  ASSUME NEW s, Base(s), NEW r, r = Inicio(s, s, GrabarBitmap \o GrabarDirectorio)
  PROVE  Bien(r, {destructor(s)})
<1> DEFINE t == destructor(s)
           P == GrabarBitmap \o GrabarDirectorio
<1>1. /\ Base(t) /\ t.directorio = s.directorio /\ t.bitmap = s.bitmap /\ t.nFiles = s.nFiles
      /\ t.datos = s.datos /\ t.dBitmap = t.bitmap \cap (0 .. EntradasGuardadas - 1)
  BY Guardada DEF destructor, Base, Arrancable
<1> HIDE DEF t
<1>2. /\ Hacia(P, t) /\ Falta(P, "listas") /\ Falta(P, "bitmap")
      /\ P # <<>> => P[1].que # "listas"
  BY <1>1, MetadatosAlFinal
<1>3. r = Inicio(s, t, P)
  BY <1>1 DEF Inicio, EnMemoria
<1>4. t \in {t}
  OBVIOUS
<1> HIDE DEF P
<1>5. Bien(r, {t})
  BY <1>1, <1>2, <1>3, <1>4, Iniciado
<1> QED BY <1>5 DEF t

\* The constructor finds on the disk of a crash a directory it can start from.
LEMMA Cargado ==
  ASSUME NEW s, Arrancable(s), NEW u \in cargar(s)
  PROVE  /\ Arrancable(u) /\ u.dDirectorio = u.directorio /\ u.directorio = s.dDirectorio
         /\ u.datos = s.datos
<1> DEFINE D == {i \in Slots : s.dDirectorio[i].nombre # Vacio}
           k == Cardinality(D)
<1>1. /\ s \in Discos /\ Reservados \subseteq s.dBitmap /\ Compactado(s.dDirectorio)
      /\ s.dDirectorio \in [Slots -> INodosLeidos] /\ s.dBitmap \in SUBSET Bloques
      /\ s.legible
  BY DEF Arrancable, Discos
<1>2. u = [s EXCEPT !.directorio = s.dDirectorio, !.bitmap = s.dBitmap, !.nFiles = k]
  <2>1. cargar(s) =
        {[s EXCEPT !.directorio = dir, !.bitmap = s.dBitmap,
                   !.nFiles = Cardinality({i \in Slots : dir[i].nombre # Vacio})] :
           dir \in {s.dDirectorio}}
    BY <1>1, Zenon DEF cargar, cargarBitmap
  <2> QED BY <2>1
<1>3. PICK j \in 0 .. TDIRECTORIO : Compacto([directorio |-> s.dDirectorio, nFiles |-> j])
  BY <1>1 DEF Compactado
<1>4. k = j
  <2>1. D = 0 .. j - 1
    BY <1>3, Constantes DEF Compacto, Slots
  <2>2. j \in Nat
    BY <1>3, Constantes
  <2>3. Cardinality(0 .. j - 1) = j
    BY <2>2, FS_Interval
  <2> QED BY <2>1, <2>3
<1> HIDE DEF k
<1>5. /\ u \in Discos /\ u.directorio = s.dDirectorio /\ u.bitmap = s.dBitmap /\ u.nFiles = j
      /\ u.dDirectorio = s.dDirectorio /\ u.dBitmap = s.dBitmap /\ u.datos = s.datos
  BY <1>1, <1>2, <1>3, <1>4 DEF Discos
<1>6. Compacto(u)
  BY <1>3, <1>5 DEF Compacto
<1> QED BY <1>1, <1>5, <1>6 DEF Arrancable

\* The states the atomic call l may return.
Hecho(s, l) ==
  CASE l.op = "crearInodo" -> {crearInodo(s, l.nombre)}
    [] l.op = "escribir" -> escribir(s, l.nombre, l.dato)
    [] l.op = "agregar" -> {agregar(s, l.nombre, l.dato)}
    [] l.op = "eliminar" -> {eliminar(s, l.nombre)}
    [] l.op = "renombrar" -> {renombrar(s, l.nombre, l.dato)}
    [] l.op = "destructor" -> {destructor(s)}
    [] l.op = "constructor" -> cargar(s)

\* One character more leaves the file within MaxFile blocks.
Cabe(s, n) ==
  \/ Len(BloquesDe(s, n)) < MaxFile
  \/ /\ BloquesDe(s, n) # <<>>
     /\ Len(s.datos[BloquesDe(s, n)[Len(BloquesDe(s, n))]]) < TBLOQUE

\* The calls a request may make in s.
Admitida(s, l) ==
  \/ \E n \in Nombres :
       \/ l = Llamada("crearInodo", n, <<>>)
       \/ l = Llamada("eliminar", n, <<>>)
       \/ \E d \in Textos : (Existe(s, n) \/ ~Existe(s, Vacio)) /\ l = Llamada("escribir", n, d)
       \/ \E c \in Bytes : Existe(s, n) /\ Cabe(s, n) /\ l = Llamada("agregar", n, c)
       \/ \E m \in Nombres \ NombresLargos : ~Existe(s, m) /\ l = Llamada("renombrar", n, m)
  \/ l = Llamada("destructor", Vacio, <<>>)
  \/ l = Llamada("constructor", Vacio, <<>>)

\* Every call, with its writes one by one, leads to what the atomic one
\* returns.
LEMMA Iniciada ==
  ASSUME NEW s, Base(s), NEW l, Admitida(s, l), NEW r \in Inicios(s, l)
  PROVE  Bien(r, Hecho(s, l))
<1>1. ASSUME NEW n \in Nombres, l = Llamada("crearInodo", n, <<>>) PROVE Bien(r, Hecho(s, l))
  <2>1. l.op = "crearInodo" /\ l.nombre = n
    BY <1>1 DEF Llamada
  <2>2. r \in IniciarCrear(s, n) /\ Hecho(s, l) = {crearInodo(s, n)}
    BY <2>1 DEF Inicios, Hecho
  <2> QED BY <2>2, IniciadoCrear
<1>2. ASSUME NEW n \in Nombres, l = Llamada("eliminar", n, <<>>) PROVE Bien(r, Hecho(s, l))
  <2>1. l.op = "eliminar" /\ l.nombre = n
    BY <1>2 DEF Llamada
  <2>2. r \in IniciarEliminar(s, n) /\ Hecho(s, l) = {eliminar(s, n)}
    BY <2>1 DEF Inicios, Hecho
  <2> QED BY <2>2, IniciadoEliminar
<1>3. ASSUME NEW n \in Nombres, NEW d \in Textos, Existe(s, n) \/ ~Existe(s, Vacio),
             l = Llamada("escribir", n, d)
      PROVE  Bien(r, Hecho(s, l))
  <2>1. l.op = "escribir" /\ l.nombre = n /\ l.dato = d
    BY <1>3 DEF Llamada
  <2>2. r \in IniciarEscribir(s, n, d) /\ Hecho(s, l) = escribir(s, n, d)
    BY <2>1 DEF Inicios, Hecho
  <2> QED BY <1>3, <2>2, IniciadoEscribir
<1>4. ASSUME NEW n \in Nombres, NEW c \in Bytes, Existe(s, n), Cabe(s, n),
             l = Llamada("agregar", n, c)
      PROVE  Bien(r, Hecho(s, l))
  <2>1. l.op = "agregar" /\ l.nombre = n /\ l.dato = c
    BY <1>4 DEF Llamada
  <2>2. r \in IniciarAgregar(s, n, c) /\ Hecho(s, l) = {agregar(s, n, c)}
    BY <2>1 DEF Inicios, Hecho
  <2>3. Bien(r, {agregar(s, n, c)})
    BY <1>4, <2>2, IniciadoAgregar DEF Cabe
  <2> QED BY <2>2, <2>3
<1>5. ASSUME NEW n \in Nombres, NEW m \in Nombres \ NombresLargos, ~Existe(s, m),
             l = Llamada("renombrar", n, m)
      PROVE  Bien(r, Hecho(s, l))
  <2>1. l.op = "renombrar" /\ l.nombre = n /\ l.dato = m
    BY <1>5 DEF Llamada
  <2>2. r \in IniciarRenombrar(s, n, m) /\ Hecho(s, l) = {renombrar(s, n, m)}
    BY <2>1 DEF Inicios, Hecho
  <2> QED BY <1>5, <2>2, IniciadoRenombrar
<1>6. ASSUME l = Llamada("destructor", Vacio, <<>>) PROVE Bien(r, Hecho(s, l))
  <2>1. l.op = "destructor"
    BY <1>6 DEF Llamada
  <2>2. r = Inicio(s, s, GrabarBitmap \o GrabarDirectorio) /\ Hecho(s, l) = {destructor(s)}
    BY <2>1 DEF Inicios, Hecho
  <2> QED BY <2>2, IniciadoDestructor
<1>7. ASSUME l = Llamada("constructor", Vacio, <<>>) PROVE Bien(r, Hecho(s, l))
  <2>1. l.op = "constructor"
    BY <1>7 DEF Llamada
  <2>2. r \in {[estado |-> t, escrituras |-> <<>>] : t \in cargar(s)} /\ Hecho(s, l) = cargar(s)
    BY <2>1 DEF Inicios, Hecho
  <2>3. PICK t \in cargar(s) : r = [estado |-> t, escrituras |-> <<>>]
    BY <2>2
  <2>4. Arrancable(t) /\ t.dDirectorio = t.directorio /\ t.directorio = s.dDirectorio
    BY Cargado DEF Base
  <2>5. Base(t)
    BY <2>4 DEF Base
  <2>6. Cerca(t, t, <<>>)
    BY <2>5, Quieto
  <2> QED BY <2>2, <2>3, <2>4, <2>5, <2>6 DEF Bien
<1> QED BY <1>1, <1>2, <1>3, <1>4, <1>5, <1>6, <1>7 DEF Admitida

\* After crearInodo the file exists, or there is no slot for it.
LEMMA CrearDeja ==
  ASSUME NEW s, Base(s), NEW n \in Nombres \ NombresLargos
  PROVE  Existe(crearInodo(s, n), n) \/ ~Existe(crearInodo(s, n), Vacio)
<1>1. CASE ~Existe(s, n) /\ Existe(s, Vacio)
  BY <1>1, BaseDeCrear
<1>2. CASE Existe(s, n) \/ ~Existe(s, Vacio)
  BY <1>2 DEF crearInodo
<1> QED BY <1>1, <1>2

\* The call l made in one of the states S.
Tras(S, l) == UNION {Hecho(t, l) : t \in S}

\* What the first k calls of a request leave, each atomic.
Alcanza(s, ls, k) ==
  CASE k = 1 -> Hecho(s, ls[1])
    [] k = 2 -> Tras(Hecho(s, ls[1]), ls[2])
    [] k = 3 -> Tras(Tras(Hecho(s, ls[1]), ls[2]), ls[3])

\* The requests CrashNext lets start in s.
Pedida(s, ls) ==
  \/ \E n \in Nombres :
       \/ ls = <<Llamada("crearInodo", n, <<>>)>>
       \/ ls = <<Llamada("eliminar", n, <<>>)>>
       \/ \E d \in Textos :
            \/ Existe(s, n) /\ ls = <<Llamada("escribir", n, d)>>
            \/ Existe(s, n) /\ ls = reemplazarEnPasos(n, d)
            \/ n \notin NombresLargos /\ ls = SubmitEnPasos(n, d)
       \/ \E c \in Bytes : Existe(s, n) /\ Cabe(s, n) /\ ls = <<Llamada("agregar", n, c)>>
       \/ \E m \in Nombres \ NombresLargos : ~Existe(s, m) /\ ls = <<Llamada("renombrar", n, m)>>
  \/ ls = Reinicio

\* The state call k of a request starts from.
Situada(s, ls, k, u) == IF k = 1 THEN u = s ELSE u \in Alcanza(s, ls, k - 1)

\* What each call returns when it is atomic.
LEMMA Hechos ==
  ASSUME NEW s, NEW n, NEW d
  PROVE  /\ Hecho(s, Llamada("crearInodo", n, d)) = {crearInodo(s, n)}
         /\ Hecho(s, Llamada("escribir", n, d)) = escribir(s, n, d)
         /\ Hecho(s, Llamada("agregar", n, d)) = {agregar(s, n, d)}
         /\ Hecho(s, Llamada("eliminar", n, d)) = {eliminar(s, n)}
         /\ Hecho(s, Llamada("renombrar", n, d)) = {renombrar(s, n, d)}
         /\ Hecho(s, Llamada("destructor", n, d)) = {destructor(s)}
         /\ Hecho(s, Llamada("constructor", n, d)) = cargar(s)
<1>1. \A o : LET l == Llamada(o, n, d) IN l.op = o /\ l.nombre = n /\ l.dato = d
  BY DEF Llamada
<1>2. Hecho(s, Llamada("crearInodo", n, d)) = {crearInodo(s, n)}
  BY <1>1 DEF Hecho
<1>3. Hecho(s, Llamada("escribir", n, d)) = escribir(s, n, d)
  BY <1>1 DEF Hecho
<1>4. Hecho(s, Llamada("agregar", n, d)) = {agregar(s, n, d)}
  BY <1>1 DEF Hecho
<1>5. Hecho(s, Llamada("eliminar", n, d)) = {eliminar(s, n)}
  BY <1>1 DEF Hecho
<1>6. Hecho(s, Llamada("renombrar", n, d)) = {renombrar(s, n, d)}
  BY <1>1 DEF Hecho
<1>7. Hecho(s, Llamada("destructor", n, d)) = {destructor(s)}
  BY <1>1 DEF Hecho
<1>8. Hecho(s, Llamada("constructor", n, d)) = cargar(s)
  BY <1>1 DEF Hecho
<1> QED BY <1>2, <1>3, <1>4, <1>5, <1>6, <1>7, <1>8

\* A request of one call.
LEMMA UnaLlamada ==
  ASSUME NEW ls, NEW l, ls = <<l>>
  PROVE  /\ Len(ls) = 1 /\ ls # <<>> /\ ls[1] = l
         /\ \A s : Alcanza(s, ls, 1) = Hecho(s, l)
BY DEF Alcanza

\* A request of two calls.
LEMMA DosLlamadas ==
  ASSUME NEW ls, NEW l, NEW m, ls = <<l, m>>
  PROVE  /\ Len(ls) = 2 /\ ls # <<>> /\ ls[1] = l /\ ls[2] = m
         /\ \A s : Alcanza(s, ls, 1) = Hecho(s, l)
         /\ \A s : Alcanza(s, ls, 2) = Tras(Hecho(s, l), m)
BY DEF Alcanza

\* A request of three calls.
LEMMA TresLlamadas ==
  ASSUME NEW ls, NEW l, NEW m, NEW o, ls = <<l, m, o>>
  PROVE  /\ Len(ls) = 3 /\ ls # <<>> /\ ls[1] = l /\ ls[2] = m /\ ls[3] = o
         /\ \A s : Alcanza(s, ls, 1) = Hecho(s, l)
         /\ \A s : Alcanza(s, ls, 2) = Tras(Hecho(s, l), m)
         /\ \A s : Alcanza(s, ls, 3) = Tras(Tras(Hecho(s, l), m), o)
BY DEF Alcanza

\* The files a call does not name.
Ajenos(l) == Nombres \ (IF l.op = "renombrar" THEN {l.nombre, l.dato} ELSE {l.nombre})

\* The parts of a call.
LEMMA PartesDeLlamada ==
  \A o, n, d : LET l == Llamada(o, n, d) IN l.op = o /\ l.nombre = n /\ l.dato = d
BY DEF Llamada

\* Call k of the request ls, made after those before it: it is one the callers
\* may make, and if it is not the last one it goes on with the same file.
EnTurno(s, ls, k, u) ==
  /\ Admitida(u, ls[k]) /\ Hecho(u, ls[k]) \subseteq Alcanza(s, ls, k)
  /\ ls[k].op = "eliminar" => k = 1
  /\ ls[k].op = "constructor" => k = Len(ls)
  /\ k < Len(ls) => /\ ls[k].op \in {"crearInodo", "eliminar", "destructor"}
                    /\ Ajenos(ls[k + 1]) \subseteq Ajenos(ls[k])

\* Two calls of a request on one file.
LEMMA MismosAjenos ==
  ASSUME NEW o, NEW p, o # "renombrar", p # "renombrar", NEW n, NEW c, NEW d
  PROVE  Ajenos(Llamada(o, n, c)) = Ajenos(Llamada(p, n, d))
BY PartesDeLlamada DEF Ajenos

\* The calls of a request, one after another.
LEMMA PorTurnos ==
  ASSUME NEW s, Base(s), NEW ls, Pedida(s, ls), NEW k \in 1 .. Len(ls),
         NEW u, Base(u), Situada(s, ls, k, u)
  PROVE  EnTurno(s, ls, k, u)
<1>0. \A n, d, c : LET a == Llamada("eliminar", n, <<>>)
                      b == Llamada("crearInodo", n, <<>>)
                      e == Llamada("escribir", n, d)
                      x == Llamada("destructor", n, <<>>)
                      y == Llamada("constructor", n, <<>>)
                  IN /\ a.op = "eliminar" /\ b.op = "crearInodo" /\ e.op = "escribir"
                     /\ x.op = "destructor" /\ y.op = "constructor"
                     /\ Ajenos(a) = Ajenos(b) /\ Ajenos(e) = Ajenos(b) /\ Ajenos(x) = Ajenos(y)
  BY PartesDeLlamada, MismosAjenos
<1>1. ASSUME NEW l, ls = <<l>>, Admitida(s, l) PROVE EnTurno(s, ls, k, u)
  <2>1. k = 1 /\ Len(ls) = 1 /\ ls[1] = l /\ Alcanza(s, ls, 1) = Hecho(s, l)
    BY <1>1, UnaLlamada
  <2> QED BY <1>1, <2>1 DEF Situada, EnTurno
<1>2. ASSUME NEW l, NEW m, ls = <<l, m>>, Admitida(s, l), \A t \in Hecho(s, l) : Base(t) => Admitida(t, m),
             l.op \in {"crearInodo", "destructor"}, m.op # "eliminar", Ajenos(m) = Ajenos(l)
      PROVE  EnTurno(s, ls, k, u)
  <2>1. /\ k = 1 \/ k = 2
        /\ Len(ls) = 2
        /\ ls[1] = l /\ ls[2] = m /\ Alcanza(s, ls, 1) = Hecho(s, l)
        /\ Alcanza(s, ls, 2) = Tras(Hecho(s, l), m)
    BY <1>2, DosLlamadas
  <2>2. CASE k = 1
    BY <1>2, <2>1, <2>2 DEF Situada, EnTurno
  <2>3. CASE k = 2
    <3>1. u \in Hecho(s, l)
      BY <2>1, <2>3 DEF Situada
    <3>2. Hecho(u, m) \subseteq Tras(Hecho(s, l), m)
      BY <3>1 DEF Tras
    <3> QED BY <1>2, <2>1, <2>3, <3>1, <3>2 DEF EnTurno
  <2> QED BY <2>1, <2>2, <2>3
<1>3. ASSUME NEW n \in Nombres, NEW d \in Textos, n \notin NombresLargos, NEW t, Base(t),
             NEW u0, u0 = crearInodo(t, n)
      PROVE  Admitida(u0, Llamada("escribir", n, d))
  BY <1>3, CrearDeja DEF Admitida
<1>4. ASSUME NEW n \in Nombres, NEW d \in Textos, Existe(s, n), ls = reemplazarEnPasos(n, d)
      PROVE  EnTurno(s, ls, k, u)
  <2> DEFINE l == Llamada("eliminar", n, <<>>)
             m == Llamada("crearInodo", n, <<>>)
             o == Llamada("escribir", n, d)
  <2>1. /\ k = 1 \/ k = 2 \/ k = 3
        /\ Len(ls) = 3
        /\ ls[1] = l /\ ls[2] = m /\ ls[3] = o /\ Alcanza(s, ls, 1) = Hecho(s, l)
        /\ Alcanza(s, ls, 2) = Tras(Hecho(s, l), m)
        /\ Alcanza(s, ls, 3) = Tras(Tras(Hecho(s, l), m), o)
    <3>1. ls = <<l, m, o>>
      BY <1>4 DEF reemplazarEnPasos
    <3> HIDE DEF l, m, o
    <3> QED BY <3>1, TresLlamadas
  <2>2. n \notin NombresLargos
    <3> DEFINE p == buscarArchivoPorNombre(s, n)
    <3>1. p \in Slots /\ s.directorio[p].nombre = n
      BY <1>4, Ocupacion
    <3>2. s.directorio[p] \in INodos
      BY <3>1 DEF Base
    <3> QED BY <3>1, <3>2, NombresValidos DEF INodos
  <2>3. Admitida(s, l) /\ \A t : Admitida(t, m)
    BY DEF Admitida
  <2>4. Hecho(s, l) = {eliminar(s, n)} /\ \A t : Hecho(t, m) = {crearInodo(t, n)}
    BY Hechos
  <2>5. /\ l.op = "eliminar" /\ m.op = "crearInodo" /\ o.op = "escribir"
        /\ Ajenos(l) = Ajenos(m) /\ Ajenos(o) = Ajenos(m)
    BY <1>0
  <2> HIDE DEF l, m, o
  <2>6. CASE k = 1
    BY <2>1, <2>3, <2>5, <2>6 DEF Situada, EnTurno
  <2>7. CASE k = 2
    <3>1. u \in Hecho(s, l)
      BY <2>1, <2>7 DEF Situada
    <3>2. Hecho(u, m) \subseteq Tras(Hecho(s, l), m)
      BY <3>1 DEF Tras
    <3> QED BY <2>1, <2>3, <2>5, <2>7, <3>2 DEF EnTurno
  <2>8. CASE k = 3
    <3>1. u \in Tras(Hecho(s, l), m)
      BY <2>1, <2>8 DEF Situada
    <3>2. u = crearInodo(eliminar(s, n), n)
      BY <2>4, <3>1 DEF Tras
    <3>3. Base(eliminar(s, n))
      BY <1>4, BaseDeEliminar
    <3>4. Admitida(u, o)
      BY <1>3, <2>2, <3>2, <3>3 DEF o
    <3>5. Hecho(u, o) \subseteq Tras(Tras(Hecho(s, l), m), o)
      BY <3>1 DEF Tras
    <3> QED BY <2>1, <2>5, <2>8, <3>4, <3>5 DEF EnTurno
  <2> QED BY <2>1, <2>6, <2>7, <2>8
<1>5. ASSUME NEW n \in Nombres, NEW d \in Textos, n \notin NombresLargos, ls = SubmitEnPasos(n, d)
      PROVE  EnTurno(s, ls, k, u)
  <2> DEFINE l == Llamada("crearInodo", n, <<>>)
             m == Llamada("escribir", n, d)
  <2>1. ls = <<l, m>>
    BY <1>5 DEF SubmitEnPasos
  <2>2. Admitida(s, l)
    BY DEF Admitida
  <2>3. \A t \in Hecho(s, l) : Admitida(t, m)
    BY <1>3, <1>5, Hechos
  <2>4. l.op = "crearInodo" /\ m.op = "escribir" /\ Ajenos(m) = Ajenos(l)
    BY <1>0
  <2> HIDE DEF l, m
  <2> QED BY <1>2, <2>1, <2>2, <2>3, <2>4
<1>6. ASSUME ls = Reinicio PROVE EnTurno(s, ls, k, u)
  <2> DEFINE l == Llamada("destructor", Vacio, <<>>)
             m == Llamada("constructor", Vacio, <<>>)
  <2>1. ls = <<l, m>>
    BY <1>6 DEF Reinicio
  <2>2. Admitida(s, l) /\ \A t : Admitida(t, m)
    BY DEF Admitida
  <2>3. l.op = "destructor" /\ m.op = "constructor" /\ Ajenos(m) = Ajenos(l)
    BY <1>0
  <2> HIDE DEF l, m
  <2> QED BY <1>2, <2>1, <2>2, <2>3
<1>7. \/ \E l : ls = <<l>> /\ Admitida(s, l)
      \/ \E n \in Nombres, d \in Textos : Existe(s, n) /\ ls = reemplazarEnPasos(n, d)
      \/ \E n \in Nombres, d \in Textos : n \notin NombresLargos /\ ls = SubmitEnPasos(n, d)
      \/ ls = Reinicio
  <2> HIDE DEF Llamada, reemplazarEnPasos, SubmitEnPasos, Reinicio
  <2> QED BY DEF Pedida, Admitida
<1> QED BY <1>1, <1>4, <1>5, <1>6, <1>7

\* Call k of a request starts where the calls before it ended.
LEMMA Corrida ==
  ASSUME NEW s, Base(s), NEW ls, Pedida(s, ls), NEW k \in 1 .. Len(ls),
         NEW u, Base(u), Situada(s, ls, k, u), NEW r \in Inicios(u, ls[k])
  PROVE  Bien(r, Alcanza(s, ls, k))
<1>1. Admitida(u, ls[k]) /\ Hecho(u, ls[k]) \subseteq Alcanza(s, ls, k)
  BY PorTurnos DEF EnTurno
<1>2. Bien(r, Hecho(u, ls[k]))
  BY <1>1, Iniciada
<1> QED BY <1>1, <1>2 DEF Bien

\* The inductive invariant of the calls with their writes one by one.
InvCorte ==
  /\ Arrancable(fs)
  /\ Libre => pendientes = <<>> /\ antes = fs /\ fs.dDirectorio = fs.directorio
  /\ ~Libre =>
       /\ Pedida(antes, llamadas) /\ turno \in 1 .. Len(llamadas)
       /\ pendientes = <<>> => turno < Len(llamadas)
       /\ Base(antes)
       /\ \E t \in Alcanza(antes, llamadas, turno) : Base(t) /\ Cerca(fs, t, pendientes)

\* A step that ends the request s, ls or leaves it in its call k.
Avanza(s, ls, k) ==
  \/ /\ llamadas' = <<>> /\ antes' = fs' /\ pendientes' = <<>>
     /\ Base(fs') /\ fs' \in Alcanza(s, ls, Len(ls))
  \/ /\ llamadas' = ls /\ turno' = k /\ antes' = s
     /\ pendientes' = <<>> => k < Len(ls)
     /\ \E t \in Alcanza(s, ls, k) : Base(t) /\ Cerca(fs', t, pendientes')

\* A request has one to three calls.
LEMMA PedidaLarga ==
  ASSUME NEW s, NEW ls, Pedida(s, ls)
  PROVE  ls # <<>> /\ Len(ls) \in 1 .. 3
<1>1. \/ \E l : ls = <<l>>
      \/ \E l, m : ls = <<l, m>>
      \/ \E l, m, o : ls = <<l, m, o>>
  BY DEF Pedida, reemplazarEnPasos, SubmitEnPasos, Reinicio
<1> QED BY <1>1

\* Between requests, metadata the server may go on from are those of a state
\* between calls.
LEMMA PedidaSana == ASSUME Libre, Sano(fs), InvCorte PROVE Base(fs) /\ antes = fs
<1>1. fs.directorio \in [Slots -> INodosLeidos] /\ \A i \in Slots : fs.directorio[i] \in INodos
  BY DEF Sano, InvCorte, Arrancable, Discos
<1>2. fs.directorio \in [Slots -> INodos]
  BY <1>1
<1> QED BY <1>2 DEF InvCorte, Base

\* A call that starts where the calls before it ended advances the request.
LEMMA TrasCorrer ==
  ASSUME NEW s, Base(s), NEW ls, Pedida(s, ls), NEW k \in 1 .. Len(ls),
         Base(fs), Situada(s, ls, k, fs), Correr(ls, k, s)
  PROVE  Arrancable(fs') /\ Avanza(s, ls, k)
<1>1. PICK r \in Inicios(fs, ls[k]) :
        /\ fs' = r.estado
        /\ pendientes' = r.escrituras
        /\ IF r.escrituras = <<>> /\ k = Len(ls)
           THEN llamadas' = <<>> /\ turno' = 0 /\ antes' = fs'
           ELSE llamadas' = ls /\ turno' = k /\ antes' = s
  BY DEF Correr
<1>2. Bien(r, Alcanza(s, ls, k))
  BY Corrida
<1>3. PICK t \in Alcanza(s, ls, k) : Base(t) /\ Arrancable(fs') /\ Cerca(fs', t, pendientes')
  BY <1>1, <1>2 DEF Bien
<1>4. CASE pendientes' = <<>> /\ k = Len(ls)
  <2>1. fs' = t
    BY <1>3, <1>4, Grabado DEF Arrancable
  <2> QED BY <1>1, <1>3, <1>4, <2>1 DEF Avanza
<1>5. CASE ~(pendientes' = <<>> /\ k = Len(ls))
  <2>1. pendientes' = <<>> => k < Len(ls)
    BY <1>5, PedidaLarga
  <2> QED BY <1>1, <1>3, <1>5, <2>1 DEF Avanza
<1> QED BY <1>3, <1>4, <1>5

\* A step that advances a request keeps the invariant.
LEMMA Avanzado ==
  ASSUME NEW s, Base(s), NEW ls, Pedida(s, ls), NEW k \in 1 .. Len(ls), Arrancable(fs'), Avanza(s, ls, k)
  PROVE  InvCorte'
<1>1. ls # <<>>
  BY PedidaLarga
<1>2. CASE llamadas' = <<>>
  BY <1>1, <1>2 DEF Avanza, InvCorte, Libre, Base
<1>3. CASE llamadas' # <<>>
  BY <1>1, <1>3 DEF Avanza, InvCorte, Libre
<1> QED BY <1>2, <1>3

\* Whether the request CrashNext starts or goes on with, call k of it starts
\* where the calls before it ended.
LEMMA Admision ==
  ASSUME InvCorte, NEW ls, Llamar(ls),
         Base(fs) => Pedida(fs, ls)
  PROVE  /\ Base(fs) /\ antes = fs /\ Libre /\ Pedida(fs, ls) /\ 1 \in 1 .. Len(ls)
         /\ Arrancable(fs') /\ Avanza(fs, ls, 1)
<1>1. Libre /\ Sano(fs) /\ Correr(ls, 1, fs)
  BY DEF Llamar
<1>2. Base(fs) /\ antes = fs
  BY <1>1, PedidaSana
<1>3. Pedida(fs, ls) /\ 1 \in 1 .. Len(ls)
  BY <1>2, PedidaLarga
<1>4. Situada(fs, ls, 1, fs)
  BY DEF Situada
<1> QED BY <1>1, <1>2, <1>3, <1>4, TrasCorrer

\* Seguir advances the request: the call before it is complete on the disk.
LEMMA Siguiente ==
  ASSUME InvCorte, Seguir
  PROVE  /\ Base(antes) /\ ~Libre /\ Pedida(antes, llamadas) /\ turno + 1 \in 1 .. Len(llamadas)
         /\ Arrancable(fs') /\ Avanza(antes, llamadas, turno + 1)
<1>1. ~Libre /\ pendientes = <<>> /\ Correr(llamadas, turno + 1, antes)
  BY DEF Seguir
<1>2. /\ Pedida(antes, llamadas) /\ turno \in 1 .. Len(llamadas) /\ turno < Len(llamadas)
      /\ Base(antes) /\ Arrancable(fs)
      /\ \E t \in Alcanza(antes, llamadas, turno) : Base(t) /\ Cerca(fs, t, <<>>)
  BY <1>1 DEF InvCorte
<1>3. PICK t \in Alcanza(antes, llamadas, turno) : Base(t) /\ Cerca(fs, t, <<>>)
  BY <1>2
<1>4. fs = t
  BY <1>2, <1>3, Grabado DEF Arrancable
<1>5. Len(llamadas) \in Nat /\ turno + 1 \in 1 .. Len(llamadas)
  BY <1>2, PedidaLarga
<1>6. Situada(antes, llamadas, turno + 1, fs)
  BY <1>2, <1>3, <1>4, <1>5 DEF Situada
<1> QED BY <1>1, <1>2, <1>3, <1>4, <1>5, <1>6, TrasCorrer

\* Taking the head off a queue empties it exactly when it held one write.
LEMMA ColaDeUno ==
  ASSUME NEW T, NEW q \in Seq(T), q # <<>>
  PROVE  Tail(q) = <<>> <=> Len(q) = 1
<1>1. Len(q) \in Nat /\ Len(q) # 0
  OBVIOUS
<1>2. Tail(q) \in Seq(T) /\ Len(Tail(q)) = Len(q) - 1
  BY <1>1
<1> QED BY <1>1, <1>2

\* Grabar advances the request: with the last write of the last call, memory
\* and disk are what the whole request returns.
LEMMA Grabando ==
  ASSUME InvCorte, Grabar
  PROVE  /\ Base(antes) /\ ~Libre /\ Pedida(antes, llamadas) /\ turno \in 1 .. Len(llamadas)
         /\ Arrancable(fs') /\ Avanza(antes, llamadas, turno)
<1>1. /\ pendientes # <<>> /\ fs' \in Grabada(fs, Head(pendientes))
      /\ pendientes' = Tail(pendientes)
      /\ IF Len(pendientes) = 1 /\ turno = Len(llamadas)
         THEN llamadas' = <<>> /\ turno' = 0 /\ antes' = fs'
         ELSE UNCHANGED <<llamadas, turno, antes>>
  BY DEF Grabar
<1>2. /\ ~Libre /\ Pedida(antes, llamadas) /\ turno \in 1 .. Len(llamadas)
      /\ Base(antes) /\ Arrancable(fs)
      /\ \E t \in Alcanza(antes, llamadas, turno) : Base(t) /\ Cerca(fs, t, pendientes)
  BY <1>1 DEF InvCorte
<1>3. PICK t \in Alcanza(antes, llamadas, turno) : Base(t) /\ Cerca(fs, t, pendientes)
  BY <1>2
<1>4. Arrancable(fs') /\ Cerca(fs', t, pendientes')
  BY <1>1, <1>2, <1>3, PasoGrabado
<1>5. pendientes \in Seq(Escrituras)
  BY <1>3 DEF Cerca, Hacia
<1>6. pendientes' = <<>> <=> Len(pendientes) = 1
  BY <1>1, <1>5, ColaDeUno
<1>7. CASE Len(pendientes) = 1 /\ turno = Len(llamadas)
  <2>1. fs' = t
    BY <1>3, <1>4, <1>6, <1>7, Grabado DEF Arrancable
  <2> QED BY <1>1, <1>2, <1>3, <1>4, <1>6, <1>7, <2>1 DEF Avanza
<1>8. CASE ~(Len(pendientes) = 1 /\ turno = Len(llamadas))
  <2>1. pendientes' = <<>> => turno < Len(llamadas)
    BY <1>2, <1>6, <1>8, PedidaLarga
  <2> QED BY <1>1, <1>2, <1>3, <1>4, <1>8, <2>1 DEF Avanza
<1> QED BY <1>2, <1>4, <1>7, <1>8

\* A crash keeps the invariant.
LEMMA Cortado ==
  ASSUME InvCorte, Corte
  PROVE  InvCorte'
<1>1. fs' \in cargar(fs) /\ antes' = fs' /\ llamadas' = <<>> /\ pendientes' = <<>>
  BY DEF Corte
<1>2. Arrancable(fs') /\ fs'.dDirectorio = fs'.directorio
  BY <1>1, Cargado DEF InvCorte
<1> QED BY <1>1, <1>2 DEF InvCorte, Libre

\* The copy of DiscoNuevo, the disk the constructor formats.
LEMMA MismoDiscoNuevo == Atomico!DiscoNuevo = DiscoNuevo
BY Zenon DEF Atomico!DiscoNuevo, DiscoNuevo, Atomico!Slots, Slots, Atomico!INodoVacio, INodoVacio,
   Atomico!INodo, INodo, Atomico!Reservados, Reservados, Atomico!Bloques, Bloques

\* The copy of reemplazar.
LEMMA MismoReemplazar == \A s, n, d : Atomico!reemplazar(s, n, d) = reemplazar(s, n, d)
BY MismoBuscar, MismoEliminar, MismoCrear, MismoEscribir, Zenon DEF Atomico!reemplazar, reemplazar

\* A whole request is a step of the file system or a Submit of the server.
LEMMA PasoAtomico ==
  ASSUME NEW s, NEW ls, Pedida(s, ls), Atomico!vars = s, NEW t, Atomico!vars' = t,
         t \in Alcanza(s, ls, Len(ls))
  PROVE  Atomico!UsoNext \/ \E n \in Nombres, d \in Textos : Atomico!Submit(n, d)
<1> DEFINE a == IF Libre THEN fs ELSE antes
<1>0. a = s /\ a' = t
  BY DEF Atomico!vars
<1>1. ASSUME NEW n \in Nombres, ls = <<Llamada("crearInodo", n, <<>>)>>
      PROVE  Atomico!UsoCrear(n)
  <2>1. t = crearInodo(s, n)
    BY <1>1, UnaLlamada, Hechos
  <2> QED BY <1>0, <2>1, MismoCrear DEF Atomico!UsoCrear, Atomico!CrearInodo
<1>2. ASSUME NEW n \in Nombres, ls = <<Llamada("eliminar", n, <<>>)>>
      PROVE  Atomico!UsoEliminar(n)
  <2>1. t = eliminar(s, n)
    BY <1>2, UnaLlamada, Hechos
  <2> QED BY <1>0, <2>1, MismoEliminar DEF Atomico!UsoEliminar, Atomico!Eliminar
<1>3. ASSUME NEW n \in Nombres, NEW d \in Textos, Existe(s, n), ls = <<Llamada("escribir", n, d)>>
      PROVE  Atomico!UsoEscribir(n, d)
  <2>1. t \in escribir(s, n, d)
    BY <1>3, UnaLlamada, Hechos
  <2> QED BY <1>0, <1>3, <2>1, MismoEscribir, MismoBuscar DEF Atomico!UsoEscribir, Atomico!Escribir
<1>4. ASSUME NEW n \in Nombres, NEW d \in Textos, Existe(s, n), ls = reemplazarEnPasos(n, d)
      PROVE  Atomico!UsoReemplazar(n, d)
  <2>1. t \in Tras(Tras(Hecho(s, Llamada("eliminar", n, <<>>)), Llamada("crearInodo", n, <<>>)),
                   Llamada("escribir", n, d))
    BY <1>4, TresLlamadas DEF reemplazarEnPasos
  <2>2. t \in escribir(crearInodo(eliminar(s, n), n), n, d)
    BY <2>1, Hechos DEF Tras
  <2>3. t \in reemplazar(s, n, d)
    BY <1>4, <2>2 DEF reemplazar
  <2> QED BY <1>0, <2>3, MismoReemplazar DEF Atomico!UsoReemplazar, Atomico!Reemplazar
<1>5. ASSUME NEW n \in Nombres, NEW d \in Textos, ls = SubmitEnPasos(n, d)
      PROVE  Atomico!Submit(n, d)
  <2>1. t \in Tras(Hecho(s, Llamada("crearInodo", n, <<>>)), Llamada("escribir", n, d))
    BY <1>5, DosLlamadas DEF SubmitEnPasos
  <2>2. t \in escribir(crearInodo(s, n), n, d)
    BY <2>1, Hechos DEF Tras
  <2> QED BY <1>0, <2>2, MismoEscribir, MismoCrear DEF Atomico!Submit
<1>6. ASSUME NEW n \in Nombres, NEW c \in Bytes, Existe(s, n), Cabe(s, n),
             ls = <<Llamada("agregar", n, c)>>
      PROVE  Atomico!UsoAgregar(n, c)
  <2>1. t = agregar(s, n, c)
    BY <1>6, UnaLlamada, Hechos
  <2>2. Atomico!BloquesDe(a, n) = BloquesDe(s, n)
    BY <1>0, MismoBuscar DEF Atomico!BloquesDe, BloquesDe
  <2>3. Atomico!Agregar(n, c) /\ Atomico!Existe(a, n)
    BY <1>0, <1>6, <2>1, MismoAgregar, MismoBuscar DEF Atomico!Agregar
  <2> QED BY <1>0, <1>6, <2>2, <2>3 DEF Atomico!UsoAgregar, Cabe
<1>7. ASSUME NEW n \in Nombres, NEW m \in Nombres \ NombresLargos, ~Existe(s, m),
             ls = <<Llamada("renombrar", n, m)>>
      PROVE  Atomico!UsoRenombrar(n, m)
  <2>1. t = renombrar(s, n, m)
    BY <1>7, UnaLlamada, Hechos
  <2> QED BY <1>0, <1>7, <2>1, MismoRenombrar, MismoBuscar DEF Atomico!UsoRenombrar, Atomico!Renombrar
<1>8. ASSUME ls = Reinicio
      PROVE  Atomico!ReinicioOrdenado
  <2>1. t \in Tras(Hecho(s, Llamada("destructor", Vacio, <<>>)), Llamada("constructor", Vacio, <<>>))
    BY <1>8, DosLlamadas DEF Reinicio
  <2>2. t \in cargar(destructor(s))
    BY <2>1, Hechos DEF Tras
  <2> QED BY <1>0, <2>2, MismoCargar DEF Atomico!ReinicioOrdenado
<1> HIDE DEF a
<1> QED BY <1>1, <1>2, <1>3, <1>4, <1>5, <1>6, <1>7, <1>8 DEF Pedida, Atomico!UsoNext

\* The step of the abstract file system behind a step that advances a request.
LEMMA AvanceAtomico ==
  ASSUME NEW s, NEW ls, Pedida(s, ls), (IF Libre THEN fs ELSE antes) = s,
         NEW k, Avanza(s, ls, k)
  PROVE  \/ Atomico!UsoNext
         \/ \E n \in Nombres, d \in Textos : Atomico!Submit(n, d)
         \/ UNCHANGED Atomico!vars
<1>1. ls # <<>> /\ Atomico!vars = s
  BY PedidaLarga DEF Atomico!vars
<1>2. CASE /\ llamadas' = <<>> /\ fs' \in Alcanza(s, ls, Len(ls))
  <2>1. Atomico!vars' = fs'
    BY <1>2 DEF Atomico!vars, Libre
  <2> QED BY <1>1, <1>2, <2>1, PasoAtomico
<1>3. CASE llamadas' = ls /\ antes' = s
  BY <1>1, <1>3 DEF Atomico!vars, Libre
<1> QED BY <1>2, <1>3 DEF Avanza

\* A request CrashNext starts is one the callers may make.
LEMMA Peticiones ==
  ASSUME CrashNext
  PROVE  \/ \E ls : Llamar(ls) /\ Pedida(fs, ls)
         \/ Seguir \/ Grabar \/ Corte
<1>1. ASSUME NEW n \in Nombres, NEW c \in Bytes, CabeOtro(n)
      PROVE  Existe(fs, n) /\ Cabe(fs, n)
  BY <1>1 DEF CabeOtro, Cabe, Last
<1>2. ASSUME NEW n \in Nombres
      PROVE  /\ Pedida(fs, <<Llamada("crearInodo", n, <<>>)>>)
             /\ Pedida(fs, <<Llamada("eliminar", n, <<>>)>>)
             /\ \A d \in Textos :
                  /\ Existe(fs, n) => Pedida(fs, <<Llamada("escribir", n, d)>>)
                  /\ Existe(fs, n) => Pedida(fs, reemplazarEnPasos(n, d))
                  /\ n \notin NombresLargos => Pedida(fs, SubmitEnPasos(n, d))
             /\ \A c \in Bytes : Existe(fs, n) /\ Cabe(fs, n) => Pedida(fs, <<Llamada("agregar", n, c)>>)
             /\ \A m \in Nombres \ NombresLargos :
                  ~Existe(fs, m) => Pedida(fs, <<Llamada("renombrar", n, m)>>)
  <2>1. Pedida(fs, <<Llamada("crearInodo", n, <<>>)>>) /\ Pedida(fs, <<Llamada("eliminar", n, <<>>)>>)
    BY DEF Pedida
  <2>2. ASSUME NEW d \in Textos
        PROVE  /\ Existe(fs, n) => Pedida(fs, <<Llamada("escribir", n, d)>>)
               /\ Existe(fs, n) => Pedida(fs, reemplazarEnPasos(n, d))
               /\ n \notin NombresLargos => Pedida(fs, SubmitEnPasos(n, d))
    BY DEF Pedida
  <2>3. ASSUME NEW c \in Bytes, Existe(fs, n), Cabe(fs, n)
        PROVE  Pedida(fs, <<Llamada("agregar", n, c)>>)
    BY <2>3 DEF Pedida
  <2>4. ASSUME NEW m \in Nombres \ NombresLargos, ~Existe(fs, m)
        PROVE  Pedida(fs, <<Llamada("renombrar", n, m)>>)
    BY <2>4 DEF Pedida
  <2> QED BY <2>1, <2>2, <2>3, <2>4
<1>3. Pedida(fs, Reinicio)
  BY DEF Pedida
<1> QED BY <1>1, <1>2, <1>3 DEF CrashNext

\* Every step keeps the invariant.
LEMMA PasoCorte ==
  ASSUME InvCorte, [CrashNext]_crashVars
  PROVE  InvCorte'
<1>1. ASSUME NEW ls, Llamar(ls), Pedida(fs, ls) PROVE InvCorte'
  <2>1. /\ Base(fs) /\ 1 \in 1 .. Len(ls) /\ Arrancable(fs') /\ Avanza(fs, ls, 1)
    BY <1>1, Admision
  <2> QED BY <1>1, <2>1, Avanzado
<1>2. ASSUME Seguir PROVE InvCorte'
  BY <1>2, Siguiente, Avanzado
<1>3. ASSUME Grabar PROVE InvCorte'
  BY <1>3, Grabando, Avanzado
<1>4. ASSUME Corte PROVE InvCorte'
  BY <1>4, Cortado
<1>5. ASSUME UNCHANGED crashVars PROVE InvCorte'
  BY <1>5 DEF crashVars, InvCorte, Libre
<1> QED BY <1>1, <1>2, <1>3, <1>4, <1>5, Peticiones

\* The new disk satisfies the invariant and starts the atomic file system.
LEMMA InicioCorte == ASSUME CrashInit PROVE InvCorte /\ Atomico!Init
<1>1. fs = DiscoNuevo /\ antes = DiscoNuevo /\ llamadas = <<>> /\ pendientes = <<>>
  BY DEF CrashInit, Init
<1>2. Bueno(DiscoNuevo)
  BY DiscoNuevoBueno
<1>3. Atomico!Init
  BY <1>1, MismoDiscoNuevo DEF Atomico!Init
<1>4. /\ DiscoNuevo \in Estados /\ Compacto(DiscoNuevo) /\ MarcadosJustos(DiscoNuevo)
      /\ DiscoNuevo.dDirectorio = DiscoNuevo.directorio /\ DiscoNuevo.dBitmap = DiscoNuevo.bitmap
      /\ DiscoNuevo.legible = TRUE
  BY <1>2 DEF Bueno, MemoriaBuena, EnDisco
<1> DEFINE s == DiscoNuevo
<1> HIDE DEF s
<1>5. s \in Discos
  <2>1. INodos \subseteq INodosLeidos
    <3>1. DataBloques \subseteq Bloques
      BY Constantes DEF DataBloques, Bloques
    <3>2. Seq(DataBloques) \subseteq Seq(Bloques)
      BY <3>1
    <3> QED BY <3>2 DEF INodos, INodosLeidos
  <2>2. [Slots -> INodos] \subseteq [Slots -> INodosLeidos]
    BY <2>1
  <2> QED BY <1>4, <2>2 DEF Estados, Discos, s
<1>6. Compactado(s.dDirectorio)
  <2>1. s.nFiles \in 0 .. TDIRECTORIO
    BY <1>5 DEF Discos
  <2>2. Compacto([directorio |-> s.dDirectorio, nFiles |-> s.nFiles])
    BY <1>4 DEF Compacto, s
  <2> QED BY <2>1, <2>2 DEF Compactado
<1>7. Arrancable(s)
  BY <1>4, <1>5, <1>6 DEF Arrancable, MarcadosJustos, s
<1> QED BY <1>1, <1>3, <1>4, <1>7 DEF InvCorte, Libre, s

\* At every instant the disk can be started from, and during a request memory
\* and disk are on their way to a state its calls, each atomic, may return.
THEOREM InvarianteCorte == CrashSpec => []InvCorte
<1>1. CrashInit => InvCorte
  BY InicioCorte
<1>2. InvCorte /\ [CrashNext]_crashVars => InvCorte'
  BY PasoCorte
<1> QED BY <1>1, <1>2, PTL DEF CrashSpec

\* Wherever the process dies, between any two writes of any call, the restart
\* finds the names in the first slots, each once, as eliminar needs.
THEOREM TrasCorteCompacto == CrashSpec => []DirectorioTrasCorte
<1>1. InvCorte => DirectorioTrasCorte
  BY DEF InvCorte, Arrancable, DirectorioTrasCorte
<1> QED BY <1>1, InvarianteCorte, PTL

\* Every step but a crash is, for who looks between requests, a call of the
\* atomic file system, a Submit of the server or no step.
LEMMA PasoImplementado ==
  ASSUME InvCorte, [CrashNext]_crashVars
  PROVE  [\/ Corte \/ Atomico!UsoNext
          \/ \E n \in Nombres, d \in Textos : Atomico!Submit(n, d)]_(Atomico!vars)
<1>1. ASSUME NEW ls, Llamar(ls), Pedida(fs, ls)
      PROVE  \/ Atomico!UsoNext
             \/ \E n \in Nombres, d \in Textos : Atomico!Submit(n, d)
             \/ UNCHANGED Atomico!vars
  <2>1. Libre /\ Avanza(fs, ls, 1)
    BY <1>1, Admision
  <2>2. (IF Libre THEN fs ELSE antes) = fs
    BY <2>1
  <2> QED BY <1>1, <2>1, <2>2, AvanceAtomico
<1>2. ASSUME Seguir \/ Grabar
      PROVE  \/ Atomico!UsoNext
             \/ \E n \in Nombres, d \in Textos : Atomico!Submit(n, d)
             \/ UNCHANGED Atomico!vars
  <2>1. ~Libre /\ Pedida(antes, llamadas) /\ \E k : Avanza(antes, llamadas, k)
    BY <1>2, Siguiente, Grabando
  <2>2. (IF Libre THEN fs ELSE antes) = antes
    BY <2>1
  <2> QED BY <2>1, <2>2, AvanceAtomico
<1>3. ASSUME UNCHANGED crashVars PROVE UNCHANGED Atomico!vars
  BY <1>3 DEF crashVars, Atomico!vars, Libre
<1> QED BY <1>1, <1>2, <1>3, Peticiones

\* Until a crash, the requests with their writes one by one are the calls of
\* FileSystemUso: that the blocks, the bitmap and the directory are written
\* separately, in a different order in each call, cannot be told from outside.
THEOREM LlamadasImplementadas == CrashSpec => ImplementaLlamadas
<1>1. CrashInit => Atomico!Init
  BY InicioCorte
<1>2. InvCorte /\ [CrashNext]_crashVars
        => [\/ Corte \/ Atomico!UsoNext
            \/ \E n \in Nombres, d \in Textos : Atomico!Submit(n, d)]_(Atomico!vars)
  BY PasoImplementado
<1> QED BY <1>1, <1>2, InvarianteCorte, PTL DEF CrashSpec, ImplementaLlamadas
-----------------------------------------------------------------------------
\* Every block in use is of one file only, and marked.
Firme(s) == SinCruces(s) /\ Usados(s) \subseteq s.bitmap

\* File n has in t the blocks and the contents it has in s.
Intacto(s, t, n) ==
  /\ Existe(t, n) /\ BloquesDe(t, n) = BloquesDe(s, n)
  /\ \A b \in Range(BloquesDe(s, n)) : t.datos[b] = s.datos[b]

\* The eliminar that moves the last file to another slot.
Mueve(s, l) == l.op = "eliminar" /\ buscarArchivoPorNombre(s, l.nombre) < s.nFiles - 1

\* Call l takes s to t without touching the files it does not name.
Respeta(s, t, l) ==
  \A n \in Ajenos(l) :
    Existe(s, n) => /\ Intacto(s, t, n)
                    /\ ~Mueve(s, l) => buscarArchivoPorNombre(t, n) = buscarArchivoPorNombre(s, n)

\* A name is in one slot only, the one buscarArchivoPorNombre finds.
LEMMA EnSuSitio ==
  ASSUME NEW t, Base(t), NEW i \in Slots, NEW n \in Nombres, t.directorio[i].nombre = n
  PROVE  Existe(t, n) /\ buscarArchivoPorNombre(t, n) = i
<1> DEFINE q == buscarArchivoPorNombre(t, n)
<1>1. Existe(t, n)
  BY DEF Existe
<1>2. q \in Slots /\ q < t.nFiles /\ t.directorio[q].nombre = n /\ t.nFiles \in Nat
  BY <1>1, Ocupacion
<1>3. Compacto(t) /\ n # Vacio
  BY NombresValidos DEF Base, Arrancable
<1> HIDE DEF q
<1>4. i < t.nFiles
  BY <1>3 DEF Compacto
<1>5. i \in 0 .. t.nFiles - 1 /\ q \in 0 .. t.nFiles - 1
  BY <1>2, <1>4 DEF Slots
<1>6. i = q
  BY <1>2, <1>3, <1>5 DEF Compacto
<1> QED BY <1>1, <1>6 DEF q

\* The file of a slot that does not change stays where it is.
LEMMA OtroQueda ==
  ASSUME NEW s, Base(s), NEW t, Base(t), NEW p, CambiaSolo(s, t, p),
         NEW n \in Nombres, Existe(s, n), buscarArchivoPorNombre(s, n) # p
  PROVE  /\ Existe(t, n) /\ buscarArchivoPorNombre(t, n) = buscarArchivoPorNombre(s, n)
         /\ BloquesDe(t, n) = BloquesDe(s, n)
<1> DEFINE q == buscarArchivoPorNombre(s, n)
<1>1. q \in Slots /\ s.directorio[q].nombre = n
  BY Buscar
<1>2. t.directorio[q] = s.directorio[q]
  BY <1>1 DEF CambiaSolo
<1> HIDE DEF q
<1>3. Existe(t, n) /\ buscarArchivoPorNombre(t, n) = q
  BY <1>1, <1>2, EnSuSitio
<1> QED BY <1>2, <1>3 DEF BloquesDe, q

\* The blocks of a file are marked, and of no other file.
LEMMA BloquesSuyos ==
  ASSUME NEW s, Base(s), Firme(s), NEW n \in Nombres, Existe(s, n),
         NEW b, b \in Range(BloquesDe(s, n))
  PROVE  /\ b \in Bloques /\ b \in s.bitmap /\ b \in Usados(s)
         /\ \A m \in Nombres : Existe(s, m) /\ m # n => b \notin Range(BloquesDe(s, m))
         /\ \A i \in Slots : \A k \in DOMAIN s.directorio[i].bloques :
              s.directorio[i].bloques[k] = b => i = buscarArchivoPorNombre(s, n)
<1> DEFINE q == buscarArchivoPorNombre(s, n)
<1>1. q \in Slots /\ s.directorio[q].nombre = n
  BY Buscar
<1>2. PICK r \in DOMAIN s.directorio[q].bloques : s.directorio[q].bloques[r] = b
  BY DEF Range, BloquesDe
<1>3. s.directorio[q].bloques \in Seq(DataBloques)
  BY <1>1 DEF Base, INodos
<1>4. b \in Bloques
  <2>1. b \in DataBloques
    BY <1>2, <1>3, ElementOfSeq
  <2> QED BY <2>1, Constantes DEF DataBloques, Bloques
<1>5. b \in Usados(s)
  BY <1>1, <1>2, <1>4 DEF Usados
<1>6. \A i \in Slots : \A j \in DOMAIN s.directorio[i].bloques : s.directorio[i].bloques[j] = b => i = q
  BY <1>1, <1>2 DEF Firme, SinCruces
<1>7. ASSUME NEW m \in Nombres, Existe(s, m), m # n, b \in Range(BloquesDe(s, m)) PROVE FALSE
  <2> DEFINE u == buscarArchivoPorNombre(s, m)
  <2>1. u \in Slots /\ s.directorio[u].nombre = m
    BY <1>7, Buscar
  <2>2. \E j \in DOMAIN s.directorio[u].bloques : s.directorio[u].bloques[j] = b
    BY <1>7 DEF Range, BloquesDe
  <2> HIDE DEF u, q
  <2> QED BY <1>1, <1>6, <1>7, <2>1, <2>2
<1>8. b \in s.bitmap
  BY <1>5 DEF Firme
<1> QED BY <1>4, <1>5, <1>6, <1>7, <1>8

\* Nothing happens to any file.
LEMMA RespetaQuieta ==
  ASSUME NEW s, NEW l PROVE Respeta(s, s, l)
BY DEF Respeta, Intacto

\* A call on the file of slot p, and on blocks that no other file has,
\* respects the files it does not name.
LEMMA RespetaUno ==
  ASSUME NEW s, Base(s), NEW t, Base(t), NEW p, CambiaSolo(s, t, p), NEW l,
         \A m \in Ajenos(l) : Existe(s, m) =>
           /\ buscarArchivoPorNombre(s, m) # p
           /\ \A b \in Range(BloquesDe(s, m)) : t.datos[b] = s.datos[b]
  PROVE  Respeta(s, t, l)
<1> SUFFICES ASSUME NEW m \in Ajenos(l), Existe(s, m)
             PROVE  /\ Intacto(s, t, m)
                    /\ buscarArchivoPorNombre(t, m) = buscarArchivoPorNombre(s, m)
  BY DEF Respeta
<1>1. m \in Nombres
  BY DEF Ajenos
<1> QED BY <1>1, OtroQueda DEF Intacto

\* Two files are in different slots.
LEMMA OtroSitio ==
  ASSUME NEW s, NEW n, NEW m, Existe(s, n), Existe(s, m), n # m
  PROVE  buscarArchivoPorNombre(s, m) # buscarArchivoPorNombre(s, n)
BY Buscar

\* The files a call other than renombrar does not name.
LEMMA AjenosDe ==
  ASSUME NEW o, o # "renombrar", NEW n, NEW d, NEW m \in Ajenos(Llamada(o, n, d))
  PROVE  m \in Nombres /\ m # n
<1>1. Llamada(o, n, d).op = o /\ Llamada(o, n, d).nombre = n
  BY PartesDeLlamada
<1> QED BY <1>1 DEF Ajenos

\* crearInodo adds an empty file after the others.
LEMMA CrearRespeta ==
  ASSUME NEW s, Base(s), Firme(s), NEW n \in Nombres, NEW t, t = crearInodo(s, n), NEW d
  PROVE  Respeta(s, t, Llamada("crearInodo", n, d)) /\ Firme(t)
<1>1. CASE n \in NombresLargos \/ Existe(s, n) \/ ~Existe(s, Vacio)
  <2>1. t = s
    BY <1>1 DEF crearInodo
  <2> QED BY <2>1, RespetaQuieta
<1>2. CASE n \notin NombresLargos /\ ~Existe(s, n) /\ Existe(s, Vacio)
  <2> DEFINE p == s.nFiles
             l == Llamada("crearInodo", n, d)
  <2>1. /\ Base(t) /\ t.bitmap = s.bitmap /\ t.datos = s.datos
        /\ CambiaSolo(s, t, p) /\ t.directorio[p].bloques = <<>>
    BY <1>2, BaseDeCrear
  <2>2. ASSUME NEW m \in Ajenos(l), Existe(s, m)
        PROVE  /\ buscarArchivoPorNombre(s, m) # p
               /\ \A b \in Range(BloquesDe(s, m)) : t.datos[b] = s.datos[b]
    <3>1. m \in Nombres
      BY DEF Ajenos
    <3>2. buscarArchivoPorNombre(s, m) < s.nFiles /\ buscarArchivoPorNombre(s, m) \in Slots /\ s.nFiles \in Nat
      BY <2>2, <3>1, Ocupacion
    <3> QED BY <2>1, <3>2 DEF Slots
  <2>3. Respeta(s, t, l)
    <3> HIDE DEF l, p
    <3> QED BY <2>1, <2>2, RespetaUno
  <2>4. \A i \in Slots : \A k \in DOMAIN t.directorio[i].bloques :
           k \in DOMAIN s.directorio[i].bloques /\ t.directorio[i].bloques[k] = s.directorio[i].bloques[k]
    BY <2>1 DEF CambiaSolo
  <2>5. SinCruces(t)
    BY <2>4 DEF Firme, SinCruces
  <2>6. Usados(t) \subseteq Usados(s)
    BY <2>4 DEF Usados
  <2> QED BY <2>1, <2>3, <2>5, <2>6 DEF Firme
<1> QED BY <1>1, <1>2

\* escribir writes on blocks that were free.
LEMMA EscribirRespeta ==
  ASSUME NEW s, Base(s), Firme(s), NEW n \in Nombres, Existe(s, n) \/ ~Existe(s, Vacio), NEW d \in Textos,
         NEW t \in escribir(s, n, d)
  PROVE  /\ Respeta(s, t, Llamada("escribir", n, d))
         /\ \A b \in Usados(s) : t.datos[b] = s.datos[b]
<1>1. CASE t = s
  BY <1>1, RespetaQuieta
<1>2. CASE t # s
  <2> DEFINE l == Llamada("escribir", n, d)
             p == buscarArchivoPorNombre(s, n)
             bs == BloquesDe(t, n)
  <2>1. Existe(s, n)
    BY <1>2 DEF escribir
  <2>2. /\ Base(t) /\ CambiaSolo(s, t, p)
        /\ \A b \in Bloques : b \notin Range(bs) => t.datos[b] = s.datos[b]
        /\ \A i \in DOMAIN bs : bs[i] \notin s.bitmap
    BY <1>2, <2>1, BaseDeEscribir
  <2> HIDE DEF bs
  <2>3. ASSUME NEW b \in Usados(s) PROVE t.datos[b] = s.datos[b]
    <3>1. b \in Bloques /\ b \in s.bitmap
      BY DEF Firme, Usados
    <3>2. b \notin Range(bs)
      BY <2>2, <3>1 DEF Range
    <3> QED BY <2>2, <3>1, <3>2
  <2>4. ASSUME NEW m \in Ajenos(l), Existe(s, m)
        PROVE  /\ buscarArchivoPorNombre(s, m) # p
               /\ \A b \in Range(BloquesDe(s, m)) : t.datos[b] = s.datos[b]
    <3>1. m \in Nombres /\ m # n
      BY AjenosDe
    <3>2. buscarArchivoPorNombre(s, m) # p
      BY <2>1, <2>4, <3>1, OtroSitio
    <3> HIDE DEF p
    <3> QED BY <2>3, <2>4, <3>1, <3>2, BloquesSuyos
  <2>5. Respeta(s, t, l)
    <3> HIDE DEF l, p
    <3> QED BY <2>2, <2>4, RespetaUno
  <2> QED BY <2>3, <2>5
<1> QED BY <1>1, <1>2

\* agregar writes on the last block of the file or on one that was free.
LEMMA AgregarRespeta ==
  ASSUME NEW s, Base(s), Firme(s), NEW n \in Nombres, Existe(s, n), Cabe(s, n), NEW c \in Bytes,
         NEW t, t = agregar(s, n, c)
  PROVE  Respeta(s, t, Llamada("agregar", n, c))
<1>1. CASE t = s
  BY <1>1, RespetaQuieta
<1>2. CASE t # s
  <2> DEFINE l == Llamada("agregar", n, c)
             p == buscarArchivoPorNombre(s, n)
             bs == BloquesDe(t, n)
             u == bs[Len(bs)]
  <2>1. /\ Base(t) /\ CambiaSolo(s, t, p) /\ bs \in Seq(DataBloques) /\ bs # <<>>
        /\ \A b \in Bloques : b # u => t.datos[b] = s.datos[b]
        /\ bs # BloquesDe(s, n) => u \notin s.bitmap
    <3>1. \/ Len(BloquesDe(s, n)) < MaxFile
          \/ /\ BloquesDe(s, n) # <<>>
             /\ Len(s.datos[BloquesDe(s, n)[Len(BloquesDe(s, n))]]) < TBLOQUE
      BY DEF Cabe
    <3> QED BY <1>2, <3>1, BaseDeAgregar
  <2>2. bs = BloquesDe(s, n) => u \in Range(BloquesDe(s, n))
    <3> HIDE DEF bs
    <3>1. Len(bs) \in DOMAIN bs
      BY <2>1
    <3> QED BY <3>1 DEF Range
  <2> HIDE DEF bs, u
  <2>3. ASSUME NEW m \in Ajenos(l), Existe(s, m)
        PROVE  /\ buscarArchivoPorNombre(s, m) # p
               /\ \A b \in Range(BloquesDe(s, m)) : t.datos[b] = s.datos[b]
    <3>1. m \in Nombres /\ m # n
      BY AjenosDe
    <3>2. buscarArchivoPorNombre(s, m) # p
      BY <2>3, <3>1, OtroSitio
    <3> HIDE DEF p, l
    <3>3. ASSUME NEW b, b \in Range(BloquesDe(s, m)) PROVE t.datos[b] = s.datos[b]
      <4>1. b \in Bloques /\ b \in s.bitmap /\ b \notin Range(BloquesDe(s, n))
        BY <2>3, <3>1, <3>3, BloquesSuyos
      <4>2. b # u
        BY <2>1, <2>2, <4>1
      <4> QED BY <2>1, <4>1, <4>2
    <3> QED BY <3>2, <3>3
  <2>4. Respeta(s, t, l)
    <3> HIDE DEF l, p
    <3> QED BY <2>1, <2>3, RespetaUno
  <2> QED BY <2>4
<1> QED BY <1>1, <1>2

\* renombrar changes no block.
LEMMA RenombrarRespeta ==
  ASSUME NEW s, Base(s), NEW n \in Nombres, NEW m \in Nombres \ NombresLargos, ~Existe(s, m),
         NEW t, t = renombrar(s, n, m)
  PROVE  Respeta(s, t, Llamada("renombrar", n, m))
<1>1. CASE ~Existe(s, n)
  BY <1>1, RespetaQuieta DEF renombrar
<1>2. CASE Existe(s, n)
  <2> DEFINE l == Llamada("renombrar", n, m)
             p == buscarArchivoPorNombre(s, n)
  <2>1. Base(t) /\ t.datos = s.datos /\ CambiaSolo(s, t, p)
    BY <1>2, BaseDeRenombrar
  <2>2. ASSUME NEW x \in Ajenos(l), Existe(s, x)
        PROVE  /\ buscarArchivoPorNombre(s, x) # p
               /\ \A b \in Range(BloquesDe(s, x)) : t.datos[b] = s.datos[b]
    <3>1. x # n
      BY PartesDeLlamada DEF Ajenos
    <3> QED BY <1>2, <2>1, <2>2, <3>1, OtroSitio
  <2> HIDE DEF l, p
  <2> QED BY <2>1, <2>2, RespetaUno DEF l
<1> QED BY <1>1, <1>2

\* The destructor changes nothing.
LEMMA DestructorRespeta ==
  ASSUME NEW s, Base(s), Firme(s), NEW t, t = destructor(s), NEW l
  PROVE  Respeta(s, t, l) /\ Firme(t)
<1>1. t.directorio = s.directorio /\ t.bitmap = s.bitmap /\ t.datos = s.datos /\ Base(t)
  <2>1. t = guardarDirectorio(guardarBitmap(s))
    BY DEF destructor
  <2>2. s \in Discos /\ s.directorio \in [Slots -> INodos] /\ Reservados \subseteq s.bitmap /\ Compacto(s)
    BY DEF Base, Arrancable
  <2> QED BY <2>1, <2>2, Guardada
<1>2. \A n : /\ Existe(t, n) <=> Existe(s, n)
             /\ buscarArchivoPorNombre(t, n) = buscarArchivoPorNombre(s, n)
             /\ BloquesDe(t, n) = BloquesDe(s, n)
  BY <1>1, Zenon DEF Existe, buscarArchivoPorNombre, BloquesDe
<1>3. Respeta(s, t, l)
  BY <1>1, <1>2 DEF Respeta, Intacto
<1>4. Firme(t)
  BY <1>1 DEF Firme, SinCruces, Usados
<1> QED BY <1>3, <1>4

\* eliminar empties and frees the blocks of its file only, and moves the last
\* file whole.
LEMMA EliminarRespeta ==
  ASSUME NEW s, Base(s), Firme(s), NEW n \in Nombres, NEW t, t = eliminar(s, n), NEW d
  PROVE  Respeta(s, t, Llamada("eliminar", n, d)) /\ Firme(t)
<1>1. CASE ~Existe(s, n)
  <2>1. t = s
    BY <1>1 DEF eliminar
  <2> QED BY <2>1, RespetaQuieta
<1>2. CASE Existe(s, n)
  <2> DEFINE l == Llamada("eliminar", n, d)
             p == buscarArchivoPorNombre(s, n)
             fin == s.nFiles - 1
             bs == BloquesDe(s, n)
             de(i) == IF i = p THEN fin ELSE i
  <2>1. /\ Base(t) /\ t.bitmap = s.bitmap \ Range(bs)
        /\ \A b \in Bloques : b \notin Range(bs) => t.datos[b] = s.datos[b]
        /\ \A i \in Slots : t.directorio[i] = IF i = fin THEN INodoVacio
                                              ELSE IF i = p THEN s.directorio[fin] ELSE s.directorio[i]
    BY <1>2, BaseDeEliminar
  <2>2. /\ p \in Slots /\ p < s.nFiles /\ s.directorio[p].nombre = n /\ s.nFiles \in Nat
        /\ s.nFiles <= TDIRECTORIO
    BY <1>2, Ocupacion
  <2>3. fin \in Slots /\ p <= fin
    BY <2>2, Constantes DEF Slots
  <2>4. Mueve(s, l) <=> p < fin
    BY PartesDeLlamada DEF Mueve
  <2>5. ASSUME NEW m \in Ajenos(l), Existe(s, m)
        PROVE  /\ Intacto(s, t, m)
               /\ ~Mueve(s, l) => buscarArchivoPorNombre(t, m) = buscarArchivoPorNombre(s, m)
    <3> DEFINE q == buscarArchivoPorNombre(s, m)
    <3>1. m \in Nombres /\ m # n
      BY AjenosDe
    <3>2. q \in Slots /\ q < s.nFiles /\ s.directorio[q].nombre = m
      BY <2>5, <3>1, Ocupacion
    <3>3. q # p
      BY <2>2, <3>1, <3>2
    <3> HIDE DEF p, q, l
    <3> DEFINE r == IF q = fin THEN p ELSE q
    <3>4. r \in Slots /\ t.directorio[r] = s.directorio[q]
      BY <2>1, <2>2, <2>3, <3>2, <3>3
    <3>5. Existe(t, m) /\ buscarArchivoPorNombre(t, m) = r
      BY <2>1, <3>1, <3>2, <3>4, EnSuSitio
    <3>6. BloquesDe(t, m) = BloquesDe(s, m)
      BY <3>4, <3>5 DEF BloquesDe, q
    <3>7. ASSUME NEW b, b \in Range(BloquesDe(s, m)) PROVE t.datos[b] = s.datos[b]
      <4>1. b \in Bloques /\ b \notin Range(bs)
        BY <1>2, <2>5, <3>1, <3>7, BloquesSuyos
      <4> QED BY <2>1, <4>1
    <3>8. ~Mueve(s, l) => r = q
      BY <2>2, <2>3, <2>4, <3>2, <3>3 DEF Slots
    <3> QED BY <3>5, <3>6, <3>7, <3>8 DEF Intacto, q
  <2>6. Respeta(s, t, l)
    BY <2>5 DEF Respeta
  <2>7. ASSUME NEW i \in Slots, NEW k \in DOMAIN t.directorio[i].bloques
        PROVE  /\ de(i) \in Slots /\ de(i) # p /\ i # fin /\ k \in DOMAIN s.directorio[de(i)].bloques
               /\ t.directorio[i].bloques[k] = s.directorio[de(i)].bloques[k]
    <3>1. i # fin
      <4>1. INodoVacio.bloques = <<>>
        BY DEF INodoVacio, INodo
      <4> QED BY <2>1, <4>1
    <3>2. t.directorio[i] = s.directorio[de(i)]
      BY <2>1, <3>1
    <3> QED BY <2>3, <3>1, <3>2
  <2>8. \A i, j \in Slots : i # fin /\ j # fin /\ de(i) = de(j) => i = j
    OBVIOUS
  <2> HIDE DEF de
  <2>9. SinCruces(t)
    BY <2>7, <2>8 DEF Firme, SinCruces
  <2>10. ASSUME NEW b \in Usados(t) PROVE b \in t.bitmap
    <3>1. b \in Bloques /\ \E i \in Slots : \E k \in DOMAIN t.directorio[i].bloques : t.directorio[i].bloques[k] = b
      BY <2>10 DEF Usados
    <3>2. PICK i \in Slots : \E k \in DOMAIN t.directorio[i].bloques : t.directorio[i].bloques[k] = b
      BY <3>1
    <3>3. PICK k \in DOMAIN t.directorio[i].bloques : t.directorio[i].bloques[k] = b
      BY <3>2
    <3>4. /\ de(i) \in Slots /\ de(i) # p /\ k \in DOMAIN s.directorio[de(i)].bloques
          /\ s.directorio[de(i)].bloques[k] = b
      BY <2>7, <3>3
    <3>5. b \in Usados(s)
      BY <3>1, <3>4 DEF Usados
    <3>6. b \notin Range(bs)
      <4>1. b \in Range(bs) => de(i) = p
        BY <1>2, <3>4, BloquesSuyos
      <4> QED BY <3>4, <4>1
    <3> QED BY <2>1, <3>5, <3>6 DEF Firme
  <2> QED BY <2>6, <2>9, <2>10 DEF Firme
<1> QED BY <1>1, <1>2

\* No call touches the files it does not name, and those that are followed by
\* another leave the metadata sound.
LEMMA HechaRespeta ==
  ASSUME NEW s, Base(s), Firme(s), NEW l, Admitida(s, l), l.op # "constructor", NEW t \in Hecho(s, l)
  PROVE  /\ Respeta(s, t, l)
         /\ l.op \in {"crearInodo", "eliminar", "destructor"} => Firme(t)
<1>1. ASSUME NEW n \in Nombres, l = Llamada("crearInodo", n, <<>>)
      PROVE  Respeta(s, t, l) /\ Firme(t)
  BY <1>1, Hechos, CrearRespeta
<1>2. ASSUME NEW n \in Nombres, l = Llamada("eliminar", n, <<>>)
      PROVE  Respeta(s, t, l) /\ Firme(t)
  BY <1>2, Hechos, EliminarRespeta
<1>3. ASSUME NEW n \in Nombres, NEW d \in Textos, Existe(s, n) \/ ~Existe(s, Vacio), l = Llamada("escribir", n, d)
      PROVE  Respeta(s, t, l) /\ l.op = "escribir"
  BY <1>3, Hechos, PartesDeLlamada, EscribirRespeta
<1>4. ASSUME NEW n \in Nombres, NEW c \in Bytes, Existe(s, n), Cabe(s, n), l = Llamada("agregar", n, c)
      PROVE  Respeta(s, t, l) /\ l.op = "agregar"
  BY <1>4, Hechos, PartesDeLlamada, AgregarRespeta
<1>5. ASSUME NEW n \in Nombres, NEW m \in Nombres \ NombresLargos, ~Existe(s, m), l = Llamada("renombrar", n, m)
      PROVE  Respeta(s, t, l) /\ l.op = "renombrar"
  BY <1>5, Hechos, PartesDeLlamada, RenombrarRespeta
<1>6. ASSUME l = Llamada("destructor", Vacio, <<>>)
      PROVE  Respeta(s, t, l) /\ Firme(t)
  BY <1>6, Hechos, DestructorRespeta
<1>7. l # Llamada("constructor", Vacio, <<>>)
  BY PartesDeLlamada
<1> QED BY <1>1, <1>2, <1>3, <1>4, <1>5, <1>6, <1>7 DEF Admitida

\* The lists are written once at most, and right after the names.
Ordenada(P) ==
  \A i, j \in DOMAIN P :
    P[i].que = "listas" => /\ i # 1 /\ P[i - 1].que = "nombres"
                           /\ P[j].que = "listas" => i = j

\* What stands after the first write of an ordered sequence: the lists may be
\* its head, once the names are written.
Empezada(P) ==
  \A i, j \in DOMAIN P :
    P[i].que = "listas" => /\ i = 1 \/ P[i - 1].que = "nombres"
                           /\ P[j].que = "listas" => i = j

\* Ordered writes after one another, the lists in one of the two parts only.
LEMMA OrdenadasJuntas ==
  ASSUME NEW T, NEW P \in Seq(T), NEW Q \in Seq(T), Ordenada(P), Ordenada(Q),
         ~Falta(P, "listas") \/ ~Falta(Q, "listas")
  PROVE  /\ P \o Q \in Seq(T) /\ Ordenada(P \o Q)
         /\ Falta(P \o Q, "listas") <=> Falta(P, "listas") \/ Falta(Q, "listas")
<1> DEFINE R == P \o Q
           m == Len(P)
<1>1. /\ m \in Nat /\ Len(Q) \in Nat /\ R \in Seq(T)
      /\ DOMAIN R = 1 .. m + Len(Q) /\ DOMAIN P = 1 .. m /\ DOMAIN Q = 1 .. Len(Q)
      /\ \A i \in 1 .. m + Len(Q) : R[i] = IF i <= m THEN P[i] ELSE Q[i - m]
  OBVIOUS
<1> HIDE DEF R, m
<1>2. /\ \A i \in DOMAIN P : i \in DOMAIN R /\ R[i] = P[i]
      /\ \A i \in DOMAIN Q : i + m \in DOMAIN R /\ R[i + m] = Q[i]
      /\ \A i \in DOMAIN R : \/ i \in DOMAIN P
                             \/ i \notin DOMAIN P /\ i - m \in DOMAIN Q
  <2>1. \A i \in DOMAIN Q : i + m \in DOMAIN R /\ ~(i + m <= m) /\ (i + m) - m = i
    BY <1>1
  <2> QED BY <1>1, <2>1
<1>3. Falta(R, "listas") <=> Falta(P, "listas") \/ Falta(Q, "listas")
  <2>1. ASSUME NEW i \in DOMAIN R, R[i].que = "listas" PROVE Falta(P, "listas") \/ Falta(Q, "listas")
    <3>1. CASE i \in DOMAIN P
      BY <1>2, <2>1, <3>1 DEF Falta
    <3>2. CASE i - m \in DOMAIN Q /\ i \notin DOMAIN P
      <4>1. R[i] = Q[i - m]
        BY <1>1, <3>2
      <4> QED BY <2>1, <3>2, <4>1 DEF Falta
    <3> QED BY <1>2, <3>1, <3>2
  <2> QED BY <1>2, <2>1 DEF Falta
<1>4. ASSUME NEW i \in DOMAIN R, R[i].que = "listas"
      PROVE  /\ i # 1 /\ R[i - 1].que = "nombres"
             /\ \A j \in DOMAIN R : R[j].que = "listas" => i = j
  <2>1. CASE i \in DOMAIN P
    <3>1. P[i].que = "listas" /\ Falta(P, "listas")
      BY <1>2, <1>4, <2>1 DEF Falta
    <3>2. i # 1 /\ P[i - 1].que = "nombres" /\ \A j \in DOMAIN P : P[j].que = "listas" => i = j
      BY <2>1, <3>1 DEF Ordenada
    <3>3. i - 1 \in DOMAIN P
      BY <1>1, <2>1, <3>2
    <3>4. ASSUME NEW j \in DOMAIN R, R[j].que = "listas" PROVE j \in DOMAIN P
      <4>1. CASE j \notin DOMAIN P
        <5>1. j - m \in DOMAIN Q /\ R[j] = Q[j - m]
          BY <1>1, <4>1
        <5> QED BY <3>1, <3>4, <5>1 DEF Falta
      <4> QED BY <4>1
    <3> QED BY <1>2, <3>2, <3>3, <3>4
  <2>2. CASE i \notin DOMAIN P
    <3>1. i - m \in DOMAIN Q /\ R[i] = Q[i - m]
      BY <1>1, <2>2
    <3>2. Q[i - m].que = "listas" /\ Falta(Q, "listas")
      BY <1>4, <3>1 DEF Falta
    <3>3. i - m # 1 /\ Q[i - m - 1].que = "nombres" /\ \A j \in DOMAIN Q : Q[j].que = "listas" => i - m = j
      BY <3>1, <3>2 DEF Ordenada
    <3>4. i - m - 1 \in DOMAIN Q /\ i # 1 /\ R[i - 1] = Q[i - m - 1]
      BY <1>1, <3>1, <3>3
    <3>5. ASSUME NEW j \in DOMAIN R, R[j].que = "listas" PROVE i = j
      <4>1. j \notin DOMAIN P
        BY <1>2, <3>2, <3>5 DEF Falta
      <4>2. j - m \in DOMAIN Q /\ R[j] = Q[j - m]
        BY <1>1, <4>1
      <4>3. i - m = j - m
        BY <3>3, <3>5, <4>2
      <4> QED BY <1>1, <4>3
    <3> QED BY <3>3, <3>4, <3>5
  <2> QED BY <2>1, <2>2
<1>5. Ordenada(R)
  BY <1>4 DEF Ordenada
<1> QED BY <1>1, <1>3, <1>5 DEF R

\* The saves of the metadata, in the orders the calls make them, with writes
\* of blocks before or after.
LEMMA OrdenadosMetadatos ==
  ASSUME NEW T, GrabarBitmap \in Seq(T), GrabarDirectorio \in Seq(T),
         NEW P \in Seq(T), \A i \in DOMAIN P : P[i].que = "bloque"
  PROVE  /\ Ordenada(P) /\ Ordenada(GrabarDirectorio)
         /\ Ordenada(GrabarDirectorio \o GrabarBitmap)
         /\ Ordenada(GrabarBitmap \o GrabarDirectorio)
         /\ Ordenada((P \o GrabarBitmap) \o GrabarDirectorio)
         /\ Ordenada(P \o (GrabarBitmap \o GrabarDirectorio))
         /\ Ordenada((GrabarBitmap \o GrabarDirectorio) \o P)
<1> DEFINE B == GrabarBitmap
           D == GrabarDirectorio
<1>1. Ordenada(P) /\ ~Falta(P, "listas")
  BY DEF Ordenada, Falta
<1>2. Ordenada(B) /\ ~Falta(B, "listas")
  <2>1. DOMAIN B = {1} /\ B[1].que = "bitmap"
    BY DEF GrabarBitmap, Escritura
  <2> HIDE DEF B
  <2> QED BY <2>1 DEF Ordenada, Falta
<1>3. Ordenada(D)
  <2>1. DOMAIN D = {1, 2} /\ D[1].que = "nombres" /\ D[2].que = "listas"
    BY DEF GrabarDirectorio, Escritura
  <2> HIDE DEF D
  <2>2. 2 - 1 = 1 /\ 2 # 1
    OBVIOUS
  <2> QED BY <2>1, <2>2 DEF Ordenada
<1>4. B \in Seq(T) /\ D \in Seq(T)
  OBVIOUS
<1> HIDE DEF B, D
<1>5. B \o D \in Seq(T) /\ Ordenada(B \o D)
  BY <1>2, <1>3, <1>4, OrdenadasJuntas
<1>6. Ordenada(D \o B)
  BY <1>2, <1>3, <1>4, OrdenadasJuntas
<1>7. P \o B \in Seq(T) /\ Ordenada(P \o B) /\ ~Falta(P \o B, "listas")
  BY <1>1, <1>2, <1>4, OrdenadasJuntas
<1>8. Ordenada((P \o B) \o D)
  BY <1>3, <1>4, <1>7, OrdenadasJuntas
<1>9. Ordenada(P \o (B \o D))
  BY <1>1, <1>5, OrdenadasJuntas
<1>10. Ordenada((B \o D) \o P)
  BY <1>1, <1>5, OrdenadasJuntas
<1> QED BY <1>1, <1>3, <1>5, <1>6, <1>8, <1>9, <1>10 DEF B, D

\* A call r starts on the disk of s, with its writes in order.
Comienza(s, r) ==
  r.estado.datos = s.datos /\ r.estado.dDirectorio = s.dDirectorio /\ Ordenada(r.escrituras)

\* A call changes the memory before the disk.
LEMMA ComienzaInicio ==
  ASSUME NEW s, Base(s), NEW t, NEW P, Ordenada(P), NEW r, r = Inicio(s, t, P)
  PROVE  Comienza(s, r)
<1>1. s \in Discos
  BY DEF Base, Arrancable
<1>2. EnMemoria(s, t).datos = s.datos /\ EnMemoria(s, t).dDirectorio = s.dDirectorio
  BY <1>1 DEF EnMemoria, Discos
<1> QED BY <1>2 DEF Inicio, Comienza

\* A call without effect writes nothing.
LEMMA ComienzaNada ==
  ASSUME NEW s, NEW r \in SinEfecto(s)
  PROVE  Comienza(s, r)
<1>1. r.estado = s /\ r.escrituras = <<>> /\ DOMAIN <<>> = {}
  BY DEF SinEfecto
<1> QED BY <1>1 DEF Comienza, Ordenada

\* Blocks and metadata, in the orders the calls write them.
LEMMA BloquesOrdenados ==
  ASSUME NEW k \in Nat, NEW P, P = [i \in 1 .. k |-> P[i]], \A i \in 1 .. k : P[i].que = "bloque"
  PROVE  /\ Ordenada(P) /\ Ordenada(GrabarDirectorio)
         /\ Ordenada(GrabarDirectorio \o GrabarBitmap)
         /\ Ordenada(GrabarBitmap \o GrabarDirectorio)
         /\ Ordenada((P \o GrabarBitmap) \o GrabarDirectorio)
         /\ Ordenada(P \o (GrabarBitmap \o GrabarDirectorio))
         /\ Ordenada((GrabarBitmap \o GrabarDirectorio) \o P)
<1> DEFINE T == {P[i] : i \in 1 .. k}
                  \cup {Escritura("nombres"), Escritura("listas"), Escritura("bitmap")}
<1>1. \A i \in 1 .. k : P[i] \in T
  OBVIOUS
<1>2. Escritura("nombres") \in T /\ Escritura("listas") \in T /\ Escritura("bitmap") \in T
  OBVIOUS
<1> HIDE DEF T
<1>3. P \in Seq(T) /\ DOMAIN P = 1 .. k
  BY <1>1
<1>4. GrabarBitmap \in Seq(T) /\ GrabarDirectorio \in Seq(T)
  <2> HIDE DEF Escritura
  <2> QED BY <1>2 DEF GrabarBitmap, GrabarDirectorio
<1> QED BY <1>3, <1>4, OrdenadosMetadatos

\* The writes of the blocks bs.
LEMMA SonBloques ==
  ASSUME NEW T, NEW bs \in Seq(T), NEW c, NEW P, P = [i \in DOMAIN bs |-> EscribirBloque(bs[i], c[i])]
  PROVE  \E k \in Nat : P = [i \in 1 .. k |-> P[i]] /\ \A i \in 1 .. k : P[i].que = "bloque"
<1>1. DOMAIN bs = 1 .. Len(bs) /\ Len(bs) \in Nat
  OBVIOUS
<1>2. \A i \in 1 .. Len(bs) : P[i].que = "bloque"
  BY <1>1 DEF EscribirBloque
<1> QED BY <1>1, <1>2

\* escribir starts with its blocks.
LEMMA ComienzaEscribir ==
  ASSUME NEW s, Base(s), NEW n \in Nombres, Existe(s, n) \/ ~Existe(s, Vacio), NEW d \in Textos,
         NEW r \in IniciarEscribir(s, n, d)
  PROVE  Comienza(s, r)
<1> DEFINE bl(t) == BloquesDe(t, n)
           P(t) == [i \in DOMAIN bl(t) |-> EscribirBloque(bl(t)[i], Trozo(d, i))]
<1>1. \/ s \in escribir(s, n, d) /\ r \in SinEfecto(s)
      \/ \E t \in escribir(s, n, d) \ {s} :
           r = Inicio(s, t, (P(t) \o GrabarBitmap) \o GrabarDirectorio)
  BY Zenon DEF IniciarEscribir
<1>2. ASSUME NEW t \in escribir(s, n, d), t # s,
             r = Inicio(s, t, (P(t) \o GrabarBitmap) \o GrabarDirectorio)
      PROVE  Comienza(s, r)
  <2> DEFINE bs == BloquesDe(t, n)
             c == [i \in DOMAIN bs |-> Trozo(d, i)]
             Q == [i \in DOMAIN bs |-> EscribirBloque(bs[i], c[i])]
  <2>1. Existe(s, n)
    <3>1. ASSUME ~Existe(s, n) PROVE escribir(s, n, d) = {s}
      BY <3>1 DEF escribir
    <3> QED BY <1>2, <3>1
  <2>2. bs \in Seq(DataBloques)
    BY <1>2, <2>1, BaseDeEscribir
  <2>3. P(t) = Q
    OBVIOUS
  <2> HIDE DEF P, bs, c
  <2> DEFINE R == Q
  <2>4. R = [i \in DOMAIN bs |-> EscribirBloque(bs[i], c[i])] /\ R = P(t)
    BY <2>3
  <2> HIDE DEF R
  <2>5. PICK k \in Nat : R = [i \in 1 .. k |-> R[i]] /\ \A i \in 1 .. k : R[i].que = "bloque"
    BY <2>2, <2>4, SonBloques
  <2>6. Ordenada((R \o GrabarBitmap) \o GrabarDirectorio)
    BY <2>5, BloquesOrdenados
  <2> QED BY <1>2, <2>4, <2>6, ComienzaInicio
<1> QED BY <1>1, <1>2, ComienzaNada

\* The lists are the last write.
AlFinal(P) == P # <<>> => P[Len(P)].que = "listas"

\* Whatever comes before them.
LEMMA ListasAlFinal ==
  ASSUME NEW T, NEW X \in Seq(T), NEW D \in Seq(T), Len(D) = 2, D[2].que = "listas"
  PROVE  AlFinal(X \o D)
<1> DEFINE R == X \o D
           m == Len(X)
           k == Len(D)
<1>1. m \in Nat /\ Len(R) = m + k
  BY ConcatProperties, LenProperties
<1>2. \A i \in 1 .. m + k : R[i] = IF i <= m THEN X[i] ELSE D[i - m]
  BY ConcatProperties
<1> HIDE DEF R, m, k
<1>3. k = 2
  BY DEF k
<1>4. m + 2 \in 1 .. m + k /\ ~(m + 2 <= m) /\ (m + 2) - m = 2
  BY <1>1, <1>3
<1>5. R[m + 2] = D[2]
  BY <1>2, <1>4
<1> QED BY <1>1, <1>3, <1>5 DEF AlFinal, R

\* escribir ends with the lists of blocks.
LEMMA EscribirAlFinal ==
  ASSUME NEW s, Base(s), NEW n \in Nombres, Existe(s, n) \/ ~Existe(s, Vacio), NEW d \in Textos,
         NEW r \in IniciarEscribir(s, n, d)
  PROVE  AlFinal(r.escrituras)
<1> DEFINE bl(t) == BloquesDe(t, n)
           P(t) == [i \in DOMAIN bl(t) |-> EscribirBloque(bl(t)[i], Trozo(d, i))]
<1>1. \/ s \in escribir(s, n, d) /\ r \in SinEfecto(s)
      \/ \E t \in escribir(s, n, d) \ {s} :
           r = Inicio(s, t, (P(t) \o GrabarBitmap) \o GrabarDirectorio)
  BY Zenon DEF IniciarEscribir
<1>2. ASSUME NEW t \in escribir(s, n, d), t # s,
             r = Inicio(s, t, (P(t) \o GrabarBitmap) \o GrabarDirectorio)
      PROVE  AlFinal(r.escrituras)
  <2> DEFINE bs == BloquesDe(t, n)
             B == GrabarBitmap
             D == GrabarDirectorio
             Q == P(t)
             T == {Q[i] : i \in DOMAIN bs}
                    \cup {Escritura("nombres"), Escritura("listas"), Escritura("bitmap")}
  <2>1. Existe(s, n)
    <3>1. ASSUME ~Existe(s, n) PROVE escribir(s, n, d) = {s}
      BY <3>1 DEF escribir
    <3> QED BY <1>2, <3>1
  <2>2. bs \in Seq(DataBloques)
    BY <1>2, <2>1, BaseDeEscribir
  <2>3. DOMAIN bs = 1 .. Len(bs) /\ Len(bs) \in Nat
    <3> HIDE DEF bs
    <3> QED BY <2>2
  <2>4. Q \in Seq(T)
    <3>1. Q = [i \in 1 .. Len(bs) |-> Q[i]] /\ \A i \in 1 .. Len(bs) : Q[i] \in T
      BY <2>3
    <3> HIDE DEF Q, T, bs
    <3> QED BY <2>3, <3>1
  <2>5. B \in Seq(T) /\ D \in Seq(T) /\ Len(D) = 2 /\ D[2].que = "listas"
    <3>1. Escritura("nombres") \in T /\ Escritura("listas") \in T /\ Escritura("bitmap") \in T
      OBVIOUS
    <3> HIDE DEF T
    <3>2. Escritura("listas").que = "listas"
      BY DEF Escritura
    <3> HIDE DEF Escritura
    <3> QED BY <3>1, <3>2 DEF GrabarBitmap, GrabarDirectorio
  <2> HIDE DEF Q, T, B, D, bs
  <2>6. Q \o B \in Seq(T)
    BY <2>4, <2>5
  <2>7. AlFinal((Q \o B) \o D)
    BY ONLY <2>5, <2>6, ListasAlFinal
  <2> QED BY <1>2, <2>7 DEF Inicio, Q, B, D
<1>3. ASSUME r \in SinEfecto(s) PROVE AlFinal(r.escrituras)
  <2>1. r.escrituras = <<>>
    BY <1>3 DEF SinEfecto
  <2> QED BY <2>1 DEF AlFinal
<1> QED BY <1>1, <1>2, <1>3

\* eliminar starts with its blocks.
LEMMA ComienzaEliminar ==
  ASSUME NEW s, Base(s), NEW n \in Nombres, NEW r \in IniciarEliminar(s, n)
  PROVE  Comienza(s, r)
<1> DEFINE t == eliminar(s, n)
           bs == BloquesDe(s, n)
           c == [i \in DOMAIN bs |-> <<>>]
           P == [i \in DOMAIN bs |-> EscribirBloque(bs[i], <<>>)]
<1>1. CASE ~Existe(s, n)
  <2>1. r \in SinEfecto(s)
    BY <1>1 DEF IniciarEliminar
  <2> QED BY <2>1, ComienzaNada
<1>2. CASE Existe(s, n)
  <2>1. r = Inicio(s, t, (P \o GrabarBitmap) \o GrabarDirectorio)
    BY <1>2, Zenon DEF IniciarEliminar, ZonaBorrada
  <2>2. bs \in Seq(DataBloques)
    BY <1>2, BaseDeEliminar
  <2>3. P = [i \in DOMAIN bs |-> EscribirBloque(bs[i], c[i])]
    OBVIOUS
  <2> HIDE DEF P, bs, t, c
  <2>4. PICK k \in Nat : P = [i \in 1 .. k |-> P[i]] /\ \A i \in 1 .. k : P[i].que = "bloque"
    BY <2>2, <2>3, SonBloques
  <2>5. Ordenada((P \o GrabarBitmap) \o GrabarDirectorio)
    BY <2>4, BloquesOrdenados
  <2> QED BY <2>1, <2>5, ComienzaInicio
<1> QED BY <1>1, <1>2

\* agregar writes its byte before or after the metadata.
LEMMA ComienzaAgregar ==
  ASSUME NEW s, Base(s), NEW n, NEW c, NEW r \in IniciarAgregar(s, n, c)
  PROVE  Comienza(s, r)
<1> DEFINE t == agregar(s, n, c)
           l == BloquesDe(t, n)
           viejos == BloquesDe(s, n)
           ultimo == Last(l)
           byte == <<EscribirBloque(ultimo, t.datos[ultimo])>>
           M == GrabarBitmap \o GrabarDirectorio
<1>1. CASE t = s
  <2>1. r \in SinEfecto(s)
    BY <1>1 DEF IniciarAgregar
  <2> QED BY <2>1, ComienzaNada
<1>2. CASE t # s
  <2>1. r = Inicio(s, t, IF l = viejos THEN byte
                         ELSE IF viejos = <<>> THEN byte \o M ELSE M \o byte)
    BY <1>2, Zenon DEF IniciarAgregar, MetadatosDeAgregar
  <2>2. byte = [i \in 1 .. 1 |-> byte[i]] /\ \A i \in 1 .. 1 : byte[i].que = "bloque"
    BY DEF EscribirBloque
  <2> HIDE DEF byte
  <2>3. Ordenada(byte) /\ Ordenada(byte \o M) /\ Ordenada(M \o byte)
    <3>1. 1 \in Nat
      OBVIOUS
    <3> QED BY <2>2, <3>1, BloquesOrdenados
  <2> HIDE DEF M, t, l, viejos
  <2>4. PICK P : Ordenada(P) /\ r = Inicio(s, t, P)
    BY <2>1, <2>3
  <2> QED BY <2>4, ComienzaInicio
<1> QED BY <1>1, <1>2

\* Every call but the constructor starts on the disk it finds, and writes the
\* lists right after the names; escribir writes nothing after them.
LEMMA Comienzo ==
  ASSUME NEW s, Base(s), NEW l, Admitida(s, l), l.op # "constructor", NEW r \in Inicios(s, l)
  PROVE  Comienza(s, r) /\ (l.op = "escribir" => AlFinal(r.escrituras))
<1>0. /\ Ordenada(GrabarDirectorio) /\ Ordenada(GrabarDirectorio \o GrabarBitmap)
      /\ Ordenada(GrabarBitmap \o GrabarDirectorio)
  <2> DEFINE P == [i \in 1 .. 0 |-> EscribirBloque(0, <<>>)]
  <2>1. P = [i \in 1 .. 0 |-> P[i]] /\ \A i \in 1 .. 0 : P[i].que = "bloque"
    OBVIOUS
  <2>2. 0 \in Nat
    OBVIOUS
  <2> HIDE DEF P
  <2> QED BY <2>1, <2>2, BloquesOrdenados
<1>1. ASSUME NEW n \in Nombres, l = Llamada("crearInodo", n, <<>>) PROVE Comienza(s, r)
  <2>1. r \in IniciarCrear(s, n)
    BY <1>1, PartesDeLlamada DEF Inicios
  <2>2. \/ r \in SinEfecto(s)
        \/ r = Inicio(s, crearInodo(s, n), GrabarDirectorio \o GrabarBitmap)
    BY <2>1 DEF IniciarCrear
  <2> QED BY <1>0, <2>2, ComienzaNada, ComienzaInicio
<1>2. ASSUME NEW n \in Nombres, l = Llamada("eliminar", n, <<>>) PROVE Comienza(s, r)
  <2>1. l.op = "eliminar" /\ l.nombre = n
    BY <1>2, PartesDeLlamada
  <2>2. r \in IniciarEliminar(s, n)
    BY <2>1 DEF Inicios
  <2> QED BY <2>2, ComienzaEliminar
<1>3. ASSUME NEW n \in Nombres, NEW d \in Textos, Existe(s, n) \/ ~Existe(s, Vacio),
             l = Llamada("escribir", n, d)
      PROVE  Comienza(s, r) /\ AlFinal(r.escrituras)
  <2>1. l.op = "escribir" /\ l.nombre = n /\ l.dato = d
    BY <1>3, PartesDeLlamada
  <2>2. r \in IniciarEscribir(s, n, d)
    BY <2>1 DEF Inicios
  <2> QED BY <1>3, <2>2, ComienzaEscribir, EscribirAlFinal
<1>4. ASSUME NEW n \in Nombres, NEW c \in Bytes, l = Llamada("agregar", n, c)
      PROVE  Comienza(s, r)
  <2>1. l.op = "agregar" /\ l.nombre = n /\ l.dato = c
    BY <1>4, PartesDeLlamada
  <2>2. r \in IniciarAgregar(s, n, c)
    BY <2>1 DEF Inicios
  <2> QED BY <2>2, ComienzaAgregar
<1>5. ASSUME NEW n \in Nombres, NEW m \in Nombres \ NombresLargos, l = Llamada("renombrar", n, m)
      PROVE  Comienza(s, r)
  <2>1. l.op = "renombrar" /\ l.nombre = n /\ l.dato = m
    BY <1>5, PartesDeLlamada
  <2>2. r \in IniciarRenombrar(s, n, m)
    BY <2>1 DEF Inicios
  <2>3. \/ r \in SinEfecto(s)
        \/ r = Inicio(s, renombrar(s, n, m), GrabarDirectorio)
    BY <2>2 DEF IniciarRenombrar
  <2> QED BY <1>0, <2>3, ComienzaNada, ComienzaInicio
<1>6. ASSUME l = Llamada("destructor", Vacio, <<>>) PROVE Comienza(s, r)
  <2>1. l.op = "destructor"
    BY <1>6, PartesDeLlamada
  <2>2. r = Inicio(s, s, GrabarBitmap \o GrabarDirectorio)
    BY <2>1 DEF Inicios
  <2> QED BY <1>0, <2>2, ComienzaInicio
<1>7. l # Llamada("constructor", Vacio, <<>>)
  BY PartesDeLlamada
<1>8. \/ Comienza(s, r) /\ AlFinal(r.escrituras)
      \/ \E o, n, d : o # "escribir" /\ l = Llamada(o, n, d) /\ Comienza(s, r)
  <2> HIDE DEF Llamada
  <2> QED BY <1>1, <1>2, <1>3, <1>4, <1>5, <1>6, <1>7 DEF Admitida
<1> QED BY <1>8, PartesDeLlamada

\* The disk of s has the names of t, and every file of a slot in use in u and
\* in t the list of blocks it has in u.
Mezcla(s, u, t) ==
  \A i \in Slots :
    /\ s.dDirectorio[i].nombre = t.directorio[i].nombre
    /\ u.directorio[i].nombre # Vacio /\ t.directorio[i].nombre # Vacio
       => s.dDirectorio[i].bloques = u.directorio[i].bloques

\* The disk of s is on the way from that of u to that of t, with the writes P
\* still to be made.
AMedias(s, u, t, P) ==
  /\ Empezada(P)
  /\ \A b \in Bloques : s.datos[b] = u.datos[b] \/ s.datos[b] = t.datos[b]
  /\ Falta(P, "listas") => IF P[1].que = "listas" THEN Mezcla(s, u, t)
                           ELSE s.dDirectorio = u.dDirectorio

\* A call that starts is on its way.
LEMMA AMediasAlEmpezar ==
  ASSUME NEW s, NEW r, Comienza(s, r), r.escrituras \in Seq(Escrituras), NEW t
  PROVE  AMedias(r.estado, s, t, r.escrituras)
<1> DEFINE P == r.escrituras
<1>1. Empezada(P) /\ \A i \in DOMAIN P : P[i].que = "listas" => i # 1
  BY DEF Comienza, Ordenada, Empezada
<1>2. Falta(P, "listas") => P[1].que # "listas"
  <2>1. SUFFICES ASSUME Falta(P, "listas"), P[1].que = "listas" PROVE FALSE
    OBVIOUS
  <2>2. PICK i \in DOMAIN P : P[i].que = "listas"
    BY <2>1 DEF Falta
  <2>3. 1 \in DOMAIN P
    <3> HIDE DEF P
    <3>1. P \in Seq(Escrituras)
      BY DEF P
    <3> QED BY <2>2, <3>1
  <2> QED BY <1>1, <2>1, <2>2, <2>3
<1> QED BY <1>1, <1>2 DEF AMedias, Comienza

\* The names on the disk and in the memory fill the first slots, so the list
\* that follows the k-th name is the list of the k-th slot.
LEMMA Ordinal ==
  ASSUME NEW dir, NEW k \in 0 .. TDIRECTORIO, Compacto([directorio |-> dir, nFiles |-> k])
  PROVE  Ocupados(dir) = 0 .. k - 1 /\ \A i \in 0 .. k - 1 : Orden(dir, i) = i + 1
<1>1. Ocupados(dir) = 0 .. k - 1
  BY Constantes DEF Compacto, Ocupados, Slots
<1>2. ASSUME NEW i \in 0 .. k - 1 PROVE Orden(dir, i) = i + 1
  <2>1. {j \in Ocupados(dir) : j <= i} = 0 .. (i + 1) - 1
    BY <1>1, <1>2, Constantes
  <2>2. i + 1 \in Nat
    BY <1>2, Constantes
  <2>3. Cardinality(0 .. (i + 1) - 1) = i + 1
    BY <2>2, FS_Interval
  <2> QED BY <2>1, <2>3 DEF Orden
<1> QED BY <1>1, <1>2

\* The new names over the lists of u, both directories without holes: slot by
\* slot.
LEMMA NombresMezclados ==
  ASSUME NEW s, Arrancable(s), NEW u, Base(u), NEW t, Base(t),
         s.directorio = t.directorio, s.nFiles = t.nFiles, s.dDirectorio = u.dDirectorio,
         NEW v \in NombresSobreListas(s)
  PROVE  Mezcla(v, u, t) /\ v.datos = s.datos
<1> DEFINE listas == UNION {[1 .. k -> Bloques] : k \in 0 .. MaxBloques}
           nuevos == Ocupados(s.directorio)
           viejos == Ocupados(s.dDirectorio)
           De(i) == {j \in viejos : Orden(s.dDirectorio, j) = Orden(s.directorio, i)}
           dir(resto) ==
             [i \in Slots |->
                IF i \notin nuevos THEN INodoVacio
                ELSE INodo(NombreGuardado(s.directorio[i].nombre),
                           IF De(i) = {} THEN resto
                           ELSE s.dDirectorio[CHOOSE j \in De(i) : TRUE].bloques)]
<1>1. PICK resto \in IF \E i \in nuevos : De(i) = {} THEN listas ELSE {<<>>} :
        v = [s EXCEPT !.dDirectorio = dir(resto)]
  BY Zenon DEF NombresSobreListas
<1>2. /\ s \in Discos /\ s.directorio \in [Slots -> INodos] /\ s.dDirectorio = u.directorio
      /\ Compacto(s) /\ Compacto(u) /\ s.nFiles \in 0 .. TDIRECTORIO /\ u.nFiles \in 0 .. TDIRECTORIO
  BY DEF Base, Arrancable, Discos
<1>3. nuevos = 0 .. s.nFiles - 1 /\ \A i \in nuevos : Orden(s.directorio, i) = i + 1
  <2>1. Compacto([directorio |-> s.directorio, nFiles |-> s.nFiles])
    BY <1>2 DEF Compacto
  <2> HIDE DEF nuevos
  <2> QED BY <1>2, <2>1, Ordinal DEF nuevos
<1>4. viejos = 0 .. u.nFiles - 1 /\ \A i \in viejos : Orden(s.dDirectorio, i) = i + 1
  <2>1. Compacto([directorio |-> s.dDirectorio, nFiles |-> u.nFiles])
    BY <1>2 DEF Compacto
  <2> HIDE DEF viejos
  <2> QED BY <1>2, <2>1, Ordinal DEF viejos
<1> HIDE DEF nuevos, viejos
<1>5. ASSUME NEW i \in nuevos, i \in viejos PROVE De(i) = {i}
  <2>1. viejos \subseteq Int /\ i \in Int
    BY <1>4, <1>5
  <2> QED BY <1>3, <1>4, <1>5, <2>1
<1>6. \A i \in Slots : /\ i \in nuevos <=> t.directorio[i].nombre # Vacio
                       /\ i \in viejos <=> u.directorio[i].nombre # Vacio
                       /\ NombreGuardado(s.directorio[i].nombre) = t.directorio[i].nombre
  <2> TAKE i \in Slots
  <2>1. s.directorio[i].nombre \in (Nombres \ NombresLargos) \cup {Vacio}
    BY <1>2 DEF INodos
  <2>2. NombreGuardado(s.directorio[i].nombre) = s.directorio[i].nombre
    BY <2>1, NombresValidos DEF NombreGuardado
  <2> QED BY <1>2, <2>2 DEF Ocupados, nuevos, viejos
<1> HIDE DEF De
<1> DEFINE dd == dir(resto)
<1>7. \A i \in Slots :
        /\ i \notin nuevos => dd[i] = INodoVacio
        /\ i \in nuevos => dd[i].nombre = t.directorio[i].nombre
        /\ i \in nuevos /\ i \in viejos => dd[i].bloques = u.directorio[i].bloques
  <2> TAKE i \in Slots
  <2>1. i \notin nuevos => dd[i] = INodoVacio
    OBVIOUS
  <2>2. ASSUME i \in nuevos
        PROVE  dd[i] = INodo(t.directorio[i].nombre,
                             IF De(i) = {} THEN resto
                             ELSE s.dDirectorio[CHOOSE j \in De(i) : TRUE].bloques)
    <3>1. dd[i] = INodo(NombreGuardado(s.directorio[i].nombre),
                        IF De(i) = {} THEN resto
                        ELSE s.dDirectorio[CHOOSE j \in De(i) : TRUE].bloques)
      BY <2>2
    <3> HIDE DEF dd
    <3> QED BY <1>6, <3>1
  <2>3. i \in nuevos => dd[i].nombre = t.directorio[i].nombre
    BY <2>2 DEF INodo
  <2>4. ASSUME i \in nuevos, i \in viejos PROVE dd[i].bloques = u.directorio[i].bloques
    <3>1. De(i) = {i}
      BY <1>5, <2>4
    <3>2. De(i) # {} /\ (CHOOSE j \in De(i) : TRUE) = i
      BY <3>1
    <3> QED BY <1>2, <2>2, <2>4, <3>2 DEF INodo
  <2> QED BY <2>1, <2>3, <2>4
<1> HIDE DEF dd
<1>8. v.dDirectorio = dd /\ v.datos = s.datos
  BY <1>1, <1>2 DEF Discos, dd
<1>9. \A i \in Slots : /\ dd[i].nombre = t.directorio[i].nombre
                       /\ u.directorio[i].nombre # Vacio /\ t.directorio[i].nombre # Vacio
                          => dd[i].bloques = u.directorio[i].bloques
  <2>1. INodoVacio.nombre = Vacio
    BY DEF INodoVacio, INodo
  <2> QED BY <1>6, <1>7, <2>1
<1> QED BY <1>8, <1>9 DEF Mezcla

\* What each write of Grabar does to the blocks and to the directory.
LEMMA EfectoDeGrabar ==
  ASSUME NEW s, Arrancable(s), s.directorio \in [Slots -> INodos], NEW e \in Escrituras,
         e.que = "bloque" => e.bloque \in DataBloques /\ s.dDirectorio \in [Slots -> INodos],
         NEW v \in Grabada(s, e)
  PROVE  /\ e.que = "bloque" => /\ v.datos[e.bloque] = e.texto
                                /\ \A b \in Bloques : b # e.bloque => v.datos[b] = s.datos[b]
         /\ e.que # "bloque" => v.datos = s.datos
         /\ e.que \in {"bloque", "bitmap"} => v.dDirectorio = s.dDirectorio
         /\ e.que = "nombres" => v \in NombresSobreListas(s)
<1>1. s \in Discos /\ e.texto \in Trozos /\ e.que \in {"bloque", "bitmap", "nombres", "listas"}
  BY DEF Arrancable, Escrituras
<1>2. CASE e.que = "bloque"
  <2> DEFINE bs == <<e.bloque>>
             c == <<e.texto>>
  <2>1. v = escribirBloques(s, bs, c)
    BY <1>2 DEF Grabada
  <2>2. /\ bs \in Seq(DataBloques) /\ DOMAIN bs = {1} /\ bs[1] = e.bloque
        /\ \A i \in DOMAIN bs : c[i] \in Trozos
        /\ \A i, j \in DOMAIN bs : bs[i] = bs[j] => i = j
        /\ c[1] = e.texto /\ 1 \in DOMAIN bs
    BY <1>1, <1>2
  <2>3. Range(bs) = {e.bloque}
    BY <2>2 DEF Range
  <2> HIDE DEF bs, c
  <2>4. LET w == escribirBloques(s, bs, c)
        IN /\ w \in Discos
           /\ w = [s EXCEPT !.datos = w.datos]
           /\ \A b \in Bloques : b \notin Range(bs) => w.datos[b] = s.datos[b]
           /\ (\A i, j \in DOMAIN bs : bs[i] = bs[j] => i = j)
              => \A i \in DOMAIN bs : w.datos[bs[i]] = c[i]
    BY <1>1, <1>2, <2>2, BloquesGrabados
  <2>5. /\ v = [s EXCEPT !.datos = v.datos] /\ v.datos[e.bloque] = e.texto
        /\ \A b \in Bloques : b # e.bloque => v.datos[b] = s.datos[b]
    BY <2>1, <2>2, <2>3, <2>4
  <2>6. v.dDirectorio = s.dDirectorio
    BY <1>1, <2>5 DEF Discos
  <2> QED BY <1>2, <2>5, <2>6
<1>3. CASE e.que = "bitmap"
  <2>1. v = [s EXCEPT !.dBitmap = s.bitmap \cap (0 .. EntradasGuardadas - 1)]
    BY <1>1, <1>3, Metadatos DEF Grabada
  <2>2. v.datos = s.datos /\ v.dDirectorio = s.dDirectorio
    BY <1>1, <2>1 DEF Discos
  <2> QED BY <1>3, <2>2
<1>4. CASE e.que = "nombres"
  <2>1. v \in NombresSobreListas(s)
    BY <1>4 DEF Grabada
  <2>2. v = [s EXCEPT !.dDirectorio = v.dDirectorio]
    BY <2>1, NombresGrabados
  <2>3. v.datos = s.datos
    BY <1>1, <2>2 DEF Discos
  <2> QED BY <1>4, <2>1, <2>3
<1>5. CASE e.que = "listas"
  <2>1. v = [s EXCEPT !.dDirectorio = s.directorio]
    BY <1>1, <1>5, Metadatos DEF Grabada
  <2>2. v.datos = s.datos
    BY <1>1, <2>1 DEF Discos
  <2> QED BY <1>5, <2>2
<1> QED BY <1>1, <1>2, <1>3, <1>4, <1>5

\* When the first write is made, the lists are next exactly if it was that of
\* the names, and no longer missing if it was theirs.
LEMMA EmpezadaSigue ==
  ASSUME NEW P \in Seq(Escrituras), P # <<>>, Empezada(P)
  PROVE  /\ Empezada(Tail(P))
         /\ Falta(Tail(P), "listas") => Falta(P, "listas") /\ P[1].que # "listas"
         /\ Falta(Tail(P), "listas") /\ Tail(P)[1].que = "listas" => P[1].que = "nombres"
<1> DEFINE Q == Tail(P)
<1>1. /\ 1 \in DOMAIN P /\ Q \in Seq(Escrituras)
      /\ \A i \in DOMAIN Q : i + 1 \in DOMAIN P /\ Q[i] = P[i + 1] /\ i \in Nat \ {0} /\ i + 1 # 1
  <2>1. /\ 1 \in DOMAIN P /\ Q \in Seq(Escrituras)
        /\ \A i \in DOMAIN Q : i + 1 \in DOMAIN P /\ Q[i] = P[i + 1]
    BY SinLaPrimera
  <2>2. \A i \in DOMAIN Q : i \in Nat \ {0} /\ i + 1 # 1
    BY <2>1
  <2> QED BY <2>1, <2>2
<1>2. \A i \in DOMAIN Q : i # 1 => i - 1 \in DOMAIN Q /\ Q[i - 1] = P[(i + 1) - 1]
  <2> TAKE i \in DOMAIN Q
  <2>1. i # 1 => i - 1 \in DOMAIN Q
    BY <1>1
  <2>2. (i - 1) + 1 = (i + 1) - 1
    BY <1>1
  <2> QED BY <1>1, <2>1, <2>2
<1> HIDE DEF Q
<1>3. ASSUME NEW i \in DOMAIN Q, Q[i].que = "listas"
      PROVE  /\ P[1].que # "listas" /\ Falta(P, "listas")
             /\ P[(i + 1) - 1].que = "nombres"
             /\ \A j \in DOMAIN Q : Q[j].que = "listas" => i = j
  <2>1. i + 1 \in DOMAIN P /\ P[i + 1].que = "listas" /\ i + 1 # 1 /\ i \in Nat
    BY <1>1, <1>3
  <2>2. P[(i + 1) - 1].que = "nombres" /\ \A j \in DOMAIN P : P[j].que = "listas" => i + 1 = j
    BY <2>1 DEF Empezada
  <2>3. \A j \in DOMAIN Q : Q[j].que = "listas" => i + 1 = j + 1 /\ j \in Nat
    BY <1>1, <2>2
  <2>4. P[1].que # "listas"
    BY <1>1, <2>1, <2>2
  <2> QED BY <2>1, <2>2, <2>3, <2>4 DEF Falta
<1>4. Empezada(Q)
  BY <1>2, <1>3 DEF Empezada
<1>5. Falta(Q, "listas") => Falta(P, "listas") /\ P[1].que # "listas"
  BY <1>3 DEF Falta
<1>6. ASSUME Falta(Q, "listas"), Q[1].que = "listas" PROVE P[1].que = "nombres"
  <2>1. 1 \in DOMAIN Q
    <3>1. PICK i \in DOMAIN Q : TRUE
      BY <1>6 DEF Falta
    <3> QED BY <1>1, <3>1
  <2>2. P[(1 + 1) - 1].que = "nombres"
    BY <1>3, <1>6, <2>1
  <2> QED BY <2>2
<1> QED BY <1>4, <1>5, <1>6 DEF Q

\* Every write goes on the way.
LEMMA AMediasSigue ==
  ASSUME NEW s, Arrancable(s), NEW u, Base(u), NEW t, Base(t), NEW P, P # <<>>, Cerca(s, t, P),
         AMedias(s, u, t, P), NEW v \in Grabada(s, Head(P))
  PROVE  AMedias(v, u, t, Tail(P))
<1> DEFINE e == Head(P)
           Q == Tail(P)
<1>1. P \in Seq(Escrituras) /\ Empezada(P)
  BY DEF Cerca, Hacia, AMedias
<1>2. e = P[1] /\ 1 \in DOMAIN P /\ e \in Escrituras
  BY <1>1, SinLaPrimera
<1>3. /\ s.directorio = t.directorio /\ s.nFiles = t.nFiles /\ s.directorio \in [Slots -> INodos]
      /\ e.que # "listas" => s.dDirectorio \in [Slots -> INodos]
      /\ e.que = "bloque" => e.bloque \in DataBloques /\ e.texto = t.datos[e.bloque]
  BY <1>2 DEF Cerca, Hacia, Base
<1>4. /\ Empezada(Q)
      /\ Falta(Q, "listas") => Falta(P, "listas") /\ e.que # "listas"
      /\ Falta(Q, "listas") /\ Q[1].que = "listas" => e.que = "nombres"
  BY <1>1, <1>2, EmpezadaSigue
<1>5. /\ e.que = "bloque" => /\ v.datos[e.bloque] = e.texto
                             /\ \A b \in Bloques : b # e.bloque => v.datos[b] = s.datos[b]
      /\ e.que # "bloque" => v.datos = s.datos
      /\ e.que \in {"bloque", "bitmap"} => v.dDirectorio = s.dDirectorio
      /\ e.que = "nombres" => v \in NombresSobreListas(s)
  <2> HIDE DEF e
  <2>1. v \in Grabada(s, e)
    BY DEF e
  <2>2. e.que = "bloque" => e.bloque \in DataBloques /\ s.dDirectorio \in [Slots -> INodos]
    BY <1>3
  <2> QED BY <1>2, <1>3, <2>1, <2>2, EfectoDeGrabar
<1>6. e.que \in {"bloque", "bitmap", "nombres", "listas"}
  BY <1>2 DEF Escrituras
<1>7. e.que = "nombres" => Q[1].que = "listas"
  <2> HIDE DEF e, Q
  <2>1. e.que = "nombres" => 2 \in DOMAIN P /\ P[2].que = "listas"
    BY <1>2 DEF Cerca, Hacia
  <2>2. 2 \in DOMAIN P => 1 \in DOMAIN Q /\ Q[1] = P[2]
    BY <1>1 DEF Q
  <2> QED BY <2>1, <2>2
<1>8. /\ \A b \in Bloques : s.datos[b] = u.datos[b] \/ s.datos[b] = t.datos[b]
      /\ Falta(P, "listas") /\ e.que # "listas" => s.dDirectorio = u.dDirectorio
  BY <1>2 DEF AMedias
<1> HIDE DEF e, Q
<1>9. \A b \in Bloques : v.datos[b] = u.datos[b] \/ v.datos[b] = t.datos[b]
  BY <1>3, <1>5, <1>8
<1>10. ASSUME Falta(Q, "listas")
       PROVE  IF Q[1].que = "listas" THEN Mezcla(v, u, t) ELSE v.dDirectorio = u.dDirectorio
  <2>1. s.dDirectorio = u.dDirectorio /\ e.que # "listas"
    BY <1>4, <1>8, <1>10
  <2>2. CASE e.que = "nombres"
    <3>1. Mezcla(v, u, t)
      BY <1>3, <1>5, <2>1, <2>2, NombresMezclados
    <3> QED BY <1>7, <2>2, <3>1
  <2>3. CASE e.que \in {"bloque", "bitmap"}
    BY <1>4, <1>5, <1>10, <2>1, <2>3
  <2> QED BY <1>6, <2>1, <2>2, <2>3
<1> QED BY <1>4, <1>9, <1>10 DEF AMedias, Q
-----------------------------------------------------------------------------
\* The blocks of bs that leer reaches: those behind full ones only.
Alcanzados(d, bs) == {i \in DOMAIN bs : \A j \in 1 .. i - 1 : Len(d[bs[j]]) = TBLOQUE}

\* How many characters leer finds in the blocks bs.
Tamano(d, bs) ==
  LET k == Cardinality(Alcanzados(d, bs))
  IN IF k = 0 THEN 0 ELSE (k - 1) * TBLOQUE + Len(d[bs[k]])

\* What leer returns of them.
Texto(d, bs, z) ==
  [i \in 1 .. (IF z <= Tamano(d, bs) THEN z ELSE Tamano(d, bs)) |->
     d[bs[((i - 1) \div TBLOQUE) + 1]][((i - 1) % TBLOQUE) + 1]]

\* leer reads the blocks of its file.
LEMMA LeerLee ==
  ASSUME NEW s, NEW n, Existe(s, n), NEW z
  PROVE  leer(s, n, z) = Texto(s.datos, BloquesDe(s, n), z)
BY Zenon DEF leer, BloquesDe, Texto, Tamano, Alcanzados

\* The blocks leer reaches are the first ones.
LEMMA PrimerosBloques ==
  ASSUME NEW d, NEW bs \in Seq(Bloques)
  PROVE  LET k == Cardinality(Alcanzados(d, bs))
         IN /\ k \in 0 .. Len(bs) /\ Alcanzados(d, bs) = 1 .. k /\ Len(bs) \in Nat /\ DOMAIN bs = 1 .. Len(bs)
            /\ \A j \in 1 .. k - 1 : Len(d[bs[j]]) = TBLOQUE
<1> DEFINE A == Alcanzados(d, bs)
<1>1. DOMAIN bs = 1 .. Len(bs) /\ Len(bs) \in Nat
  OBVIOUS
<1>2. A \subseteq 1 .. Len(bs) /\ \A i \in A : \A m \in 1 .. i - 1 : m \in A
  <2>1. \A i \in A : i \in 1 .. Len(bs) /\ \A j \in 1 .. i - 1 : Len(d[bs[j]]) = TBLOQUE
    BY <1>1 DEF Alcanzados
  <2>2. \A i \in A : \A m \in 1 .. i - 1 : m \in DOMAIN bs /\ \A j \in 1 .. m - 1 : j \in 1 .. i - 1
    BY <1>1, <2>1
  <2>3. \A i \in A : \A m \in 1 .. i - 1 : m \in A
    BY <2>1, <2>2 DEF Alcanzados
  <2> QED BY <2>1, <2>3
<1>3. \A i \in A : \A j \in 1 .. i - 1 : Len(d[bs[j]]) = TBLOQUE
  BY DEF Alcanzados
<1> HIDE DEF A
<1>4. PICK k \in 0 .. Len(bs) : A = 1 .. k
  <2> DEFINE S == (1 .. Len(bs)) \ A
  <2>1. CASE S = {}
    <3>1. A = 1 .. Len(bs)
      BY <1>2, <2>1
    <3>2. Len(bs) \in 0 .. Len(bs)
      BY <1>1
    <3> QED BY <3>1, <3>2
  <2>2. CASE S # {}
    <3>1. S \in SUBSET Nat
      BY <1>1
    <3> HIDE DEF S
    <3>2. PICK m \in S : \A x \in S : m <= x
      BY <2>2, <3>1, Minimo
    <3>3. m \in 1 .. Len(bs) /\ m \notin A /\ \A x \in 1 .. Len(bs) : x < m => x \in A
      BY <1>1, <3>2 DEF S
    <3>4. \A x \in A : x \in 1 .. Len(bs) /\ (x > m => m \in 1 .. x - 1)
      BY <1>1, <1>2, <3>3
    <3>5. \A x \in A : x < m
      BY <1>1, <1>2, <3>3, <3>4
    <3>6. m - 1 \in 0 .. Len(bs) /\ \A x \in Int : x \in A <=> x \in 1 .. m - 1
      BY <1>1, <3>3, <3>4, <3>5
    <3>7. A = 1 .. m - 1
      <4>1. A \subseteq Int /\ 1 .. m - 1 \subseteq Int
        BY <1>2, <3>3
      <4> QED BY <3>6, <4>1
    <3> QED BY <3>6, <3>7
  <2> QED BY <2>1, <2>2
<1>5. Cardinality(A) = k
  <2>1. k \in Nat
    BY <1>1
  <2> QED BY <1>4, <2>1, FS_Interval
<1>6. \A j \in 1 .. k - 1 : Len(d[bs[j]]) = TBLOQUE
  <2>1. k = 0 \/ k \in A
    BY <1>1, <1>4
  <2> QED BY <1>1, <1>3, <1>4, <2>1
<1> QED BY <1>1, <1>4, <1>5, <1>6 DEF A

\* Every character leer returns is one of a block it reaches.
LEMMA EnSuBloque ==
  ASSUME NEW d \in [Bloques -> Trozos], NEW bs \in Seq(Bloques)
  PROVE  /\ Tamano(d, bs) \in Nat
         /\ \A i \in 1 .. Tamano(d, bs) :
              LET q == ((i - 1) \div TBLOQUE) + 1
                  r == ((i - 1) % TBLOQUE) + 1
              IN q \in 1 .. Cardinality(Alcanzados(d, bs)) /\ r \in 1 .. Len(d[bs[q]])
<1> DEFINE k == Cardinality(Alcanzados(d, bs))
           l == Len(d[bs[k]])
           a == (k - 1) * TBLOQUE
           x == Tamano(d, bs)
<1>1. /\ k \in 0 .. Len(bs) /\ Len(bs) \in Nat /\ DOMAIN bs = 1 .. Len(bs)
      /\ \A j \in 1 .. k - 1 : Len(d[bs[j]]) = TBLOQUE
  BY PrimerosBloques
<1>2. \A i \in DOMAIN bs : Len(d[bs[i]]) \in Nat /\ Len(d[bs[i]]) <= TBLOQUE
  BY DEF Trozos
<1>3. x = IF k = 0 THEN 0 ELSE a + l
  BY DEF Tamano
<1> HIDE DEF k
<1>4. k # 0 => /\ k - 1 \in Nat /\ k \in Nat /\ a \in Nat /\ l \in Nat /\ l <= TBLOQUE
               /\ k * TBLOQUE = a + TBLOQUE
  <2>1. k # 0 => k \in DOMAIN bs /\ k - 1 \in Nat /\ k \in Nat
    BY <1>1
  <2>2. k # 0 => a \in Nat /\ k * TBLOQUE = a + TBLOQUE
    BY <2>1, Constantes
  <2> QED BY <1>2, <2>1, <2>2
<1> HIDE DEF x, a, l
<1>5. x \in Nat
  BY <1>3, <1>4
<1>6. ASSUME NEW i \in 1 .. x
      PROVE  /\ ((i - 1) \div TBLOQUE) + 1 \in 1 .. k
             /\ ((i - 1) % TBLOQUE) + 1 \in 1 .. Len(d[bs[((i - 1) \div TBLOQUE) + 1]])
  <2> DEFINE q == (i - 1) \div TBLOQUE
             r == (i - 1) % TBLOQUE
             y == q * TBLOQUE
  <2>1. k # 0 /\ i \in Nat \ {0} /\ i <= a + l
    BY <1>3, <1>5
  <2>2. i <= k * TBLOQUE
    BY <1>4, <2>1, Constantes
  <2>3. /\ q \in Nat /\ r \in Nat /\ r < TBLOQUE /\ y \in Nat /\ i = y + r + 1
        /\ q < k /\ (i > a => q = k - 1)
    <3>1. i <= k * TBLOQUE => q < k
      BY <1>4, <2>1, Lugar
    <3>2. (k - 1) * TBLOQUE < i /\ i <= (k - 1) * TBLOQUE + TBLOQUE => q = k - 1
      BY <1>4, <2>1, Lugar
    <3>3. q \in Nat /\ r \in Nat /\ r < TBLOQUE /\ y \in Nat /\ i = y + r + 1
      BY <2>1, Lugar
    <3>4. i <= a + TBLOQUE
      BY <1>4, <2>1, <2>2
    <3> HIDE DEF q, r, y
    <3> QED BY <2>2, <3>1, <3>2, <3>3, <3>4 DEF a
  <2>4. q = k - 1 => y = a
    BY DEF a
  <2> HIDE DEF q, r, y
  <2>5. q + 1 \in 1 .. k
    BY <1>4, <2>1, <2>3
  <2>6. CASE q + 1 # k
    <3>1. q + 1 \in 1 .. k - 1
      BY <1>4, <2>1, <2>3, <2>6
    <3>2. Len(d[bs[q + 1]]) = TBLOQUE
      BY <1>1, <3>1
    <3> QED BY <2>3, <2>5, <3>2, Constantes DEF q, r
  <2>7. CASE q + 1 = k
    <3>1. y = a
      BY <1>4, <2>1, <2>3, <2>4, <2>7
    <3>2. r + 1 <= l
      BY <1>4, <2>1, <2>3, <3>1
    <3>3. l = Len(d[bs[q + 1]])
      BY <2>7 DEF l
    <3>4. r + 1 \in 1 .. Len(d[bs[q + 1]])
      BY <1>4, <2>1, <2>3, <3>2, <3>3
    <3> QED BY <2>5, <3>4 DEF q, r
  <2> QED BY <2>6, <2>7
<1> QED BY <1>5, <1>6 DEF x, k

\* A sequence begins another when it is no longer and has the same elements.
LEMMA EsPrefijo ==
  ASSUME NEW T, NEW x \in Seq(T), NEW y \in Seq(T)
  PROVE  IsPrefix(x, y) <=> Len(x) <= Len(y) /\ \A i \in 1 .. Len(x) : x[i] = y[i]
<1>1. Len(x) \in Nat /\ Len(y) \in Nat /\ DOMAIN x = 1 .. Len(x) /\ DOMAIN y = 1 .. Len(y)
  OBVIOUS
<1>2. /\ SubSeq(x, 1, Len(x)) = [i \in 1 .. Len(x) |-> x[i]]
      /\ Len(x) <= Len(y) => SubSeq(y, 1, Len(x)) = [i \in 1 .. Len(x) |-> y[i]]
  BY <1>1
<1>3. [i \in 1 .. Len(x) |-> x[i]] = [i \in 1 .. Len(x) |-> y[i]]
        <=> \A i \in 1 .. Len(x) : x[i] = y[i]
  OBVIOUS
<1> QED BY <1>2, <1>3 DEF IsPrefix

\* A file whose blocks begin another's, each with what is in that one's or the
\* start of it, reads as a part of the other from the start.
LEMMA TextoPrefijo ==
  ASSUME NEW x \in [Bloques -> Trozos], NEW y \in [Bloques -> Trozos],
         NEW bs \in Seq(Bloques), NEW cs \in Seq(Bloques), Len(bs) <= Len(cs),
         \A i \in DOMAIN bs : /\ cs[i] = bs[i] /\ Len(x[bs[i]]) <= Len(y[bs[i]])
                              /\ \A r \in 1 .. Len(x[bs[i]]) : x[bs[i]][r] = y[bs[i]][r],
         NEW z \in Nat
  PROVE  IsPrefix(Texto(x, bs, z), Texto(y, cs, z))
<1> DEFINE a == Cardinality(Alcanzados(x, bs))
           b == Cardinality(Alcanzados(y, cs))
           m == Tamano(x, bs)
           n == Tamano(y, cs)
           lx == Len(x[bs[a]])
           ly == Len(y[cs[b]])
<1>1. /\ a \in 0 .. Len(bs) /\ Len(bs) \in Nat /\ DOMAIN bs = 1 .. Len(bs)
      /\ Alcanzados(x, bs) = 1 .. a /\ \A j \in 1 .. a - 1 : Len(x[bs[j]]) = TBLOQUE
  BY PrimerosBloques
<1>2. /\ b \in 0 .. Len(cs) /\ Len(cs) \in Nat /\ DOMAIN cs = 1 .. Len(cs)
      /\ Alcanzados(y, cs) = 1 .. b /\ \A j \in 1 .. b - 1 : Len(y[cs[j]]) = TBLOQUE
  BY PrimerosBloques
<1>3. /\ m = IF a = 0 THEN 0 ELSE (a - 1) * TBLOQUE + lx
      /\ n = IF b = 0 THEN 0 ELSE (b - 1) * TBLOQUE + ly
  BY DEF Tamano
<1>4. /\ \A i \in DOMAIN bs : Len(x[bs[i]]) \in Nat /\ Len(x[bs[i]]) <= TBLOQUE
      /\ \A i \in DOMAIN cs : Len(y[cs[i]]) \in Nat /\ Len(y[cs[i]]) <= TBLOQUE
  <2>1. \A w \in Trozos : Len(w) \in Nat /\ Len(w) <= TBLOQUE
    BY DEF Trozos
  <2>2. \A i \in DOMAIN bs : x[bs[i]] \in Trozos
    OBVIOUS
  <2>3. \A i \in DOMAIN cs : y[cs[i]] \in Trozos
    OBVIOUS
  <2> QED BY ONLY <2>1, <2>2, <2>3
<1> HIDE DEF a, b
<1>5. a <= b
  <2>1. CASE a = 0
    BY <1>2, <2>1
  <2>2. CASE a # 0
    <3>1. a \in DOMAIN cs
      BY <1>1, <1>2, <2>2
    <3>2. \A j \in 1 .. a - 1 : Len(y[cs[j]]) = TBLOQUE
      <4> TAKE j \in 1 .. a - 1
      <4>1. j \in DOMAIN bs /\ j \in DOMAIN cs /\ Len(x[bs[j]]) = TBLOQUE
        BY <1>1, <1>2
      <4>2. Len(y[cs[j]]) \in Nat /\ Len(y[cs[j]]) <= TBLOQUE /\ TBLOQUE <= Len(y[cs[j]])
        BY <1>4, <4>1
      <4> QED BY <4>2, Constantes
    <3>3. a \in Alcanzados(y, cs)
      BY <3>1, <3>2 DEF Alcanzados
    <3> QED BY <1>2, <3>3
  <2> QED BY <2>1, <2>2
<1>6. m \in Nat /\ n \in Nat
  BY EnSuBloque
<1>7. m <= n
  <2>1. CASE a = 0
    BY <1>3, <1>6, <2>1
  <2>2. CASE a # 0
    <3>1. /\ a \in DOMAIN bs /\ a - 1 \in Nat /\ b \in DOMAIN cs /\ b - 1 \in Nat /\ b # 0
      BY <1>1, <1>2, <1>5, <2>2
    <3>2. lx \in Nat /\ lx <= TBLOQUE /\ ly \in Nat /\ (a = b => lx <= ly)
      BY <1>4, <3>1
    <3>3. (b - 1) * TBLOQUE = (a - 1) * TBLOQUE + (b - a) * TBLOQUE /\ (a - 1) * TBLOQUE \in Nat
      BY <3>1, Constantes
    <3>4. a # b => /\ b - a - 1 \in Nat /\ (b - a) * TBLOQUE = (b - a - 1) * TBLOQUE + TBLOQUE
                   /\ (b - a - 1) * TBLOQUE \in Nat
      <4> SUFFICES ASSUME a # b
                   PROVE  /\ b - a - 1 \in Nat /\ (b - a) * TBLOQUE = (b - a - 1) * TBLOQUE + TBLOQUE
                          /\ (b - a - 1) * TBLOQUE \in Nat
        OBVIOUS
      <4> DEFINE c == b - a - 1
      <4>1. c \in Nat /\ b - a = c + 1
        BY <1>5, <3>1
      <4> HIDE DEF c
      <4>2. (c + 1) * TBLOQUE = c * TBLOQUE + TBLOQUE /\ c * TBLOQUE \in Nat
        BY <4>1, Constantes
      <4> QED BY <4>1, <4>2 DEF c
    <3> DEFINE u == (a - 1) * TBLOQUE
               v == (b - 1) * TBLOQUE
               w == (b - a) * TBLOQUE
               e == (b - a - 1) * TBLOQUE
    <3>5. m = u + lx /\ n = v + ly
      BY <1>3, <2>2, <3>1
    <3>6. a = b => u = v
      OBVIOUS
    <3>7. v = u + w /\ u \in Nat /\ (a # b => w = e + TBLOQUE /\ e \in Nat)
      BY <3>3, <3>4
    <3> HIDE DEF u, v, w, e, lx, ly
    <3> QED BY <3>2, <3>5, <3>6, <3>7, Constantes
  <2> QED BY <2>1, <2>2
<1> HIDE DEF m, n
<1> DEFINE hx == IF z <= m THEN z ELSE m
           hy == IF z <= n THEN z ELSE n
           f(d, c, i) == d[c[((i - 1) \div TBLOQUE) + 1]][((i - 1) % TBLOQUE) + 1]
<1>8. Texto(x, bs, z) = [i \in 1 .. hx |-> f(x, bs, i)] /\ Texto(y, cs, z) = [i \in 1 .. hy |-> f(y, cs, i)]
  BY DEF Texto, m, n
<1>9. hx \in Nat /\ hy \in Nat /\ hx <= hy /\ hx <= m
  BY <1>6, <1>7
<1> HIDE DEF hx, hy
<1>10. ASSUME NEW i \in 1 .. hx PROVE f(x, bs, i) = f(y, cs, i)
  <2> DEFINE q == ((i - 1) \div TBLOQUE) + 1
             r == ((i - 1) % TBLOQUE) + 1
  <2>1. i \in 1 .. m
    BY <1>6, <1>9
  <2>2. q \in 1 .. a /\ r \in 1 .. Len(x[bs[q]])
    BY <2>1, EnSuBloque DEF a, m
  <2> HIDE DEF q, r
  <2>3. q \in DOMAIN bs
    BY <1>1, <2>2
  <2>4. x[bs[q]][r] = y[cs[q]][r]
    BY <2>2, <2>3
  <2> QED BY <2>4 DEF q, r
<1> HIDE DEF f
<1> DEFINE X == [i \in 1 .. hx |-> f(x, bs, i)]
           Y == [i \in 1 .. hy |-> f(y, cs, i)]
           T == {f(x, bs, i) : i \in 1 .. hx} \cup {f(y, cs, i) : i \in 1 .. hy}
<1>11. /\ X \in Seq(T) /\ Len(X) = hx /\ \A i \in 1 .. hx : X[i] = f(x, bs, i)
       /\ Y \in Seq(T) /\ Len(Y) = hy /\ \A i \in 1 .. hy : Y[i] = f(y, cs, i)
  <2>1. (\A i \in 1 .. hx : f(x, bs, i) \in T) /\ \A i \in 1 .. hy : f(y, cs, i) \in T
    OBVIOUS
  <2> HIDE DEF T
  <2>2. X \in Seq(T) /\ Len(X) = hx /\ \A i \in 1 .. hx : X[i] = f(x, bs, i)
    BY <1>9, <2>1
  <2>3. Y \in Seq(T) /\ Len(Y) = hy /\ \A i \in 1 .. hy : Y[i] = f(y, cs, i)
    BY <1>9, <2>1
  <2> QED BY <2>2, <2>3
<1>12. \A i \in 1 .. hx : X[i] = Y[i]
  <2>1. \A i \in 1 .. hx : i \in 1 .. hy
    BY <1>9
  <2> HIDE DEF X, Y
  <2> QED BY <1>10, <1>11, <2>1
<1> HIDE DEF X, Y, T
<1>13. IsPrefix(X, Y)
  BY <1>9, <1>11, <1>12, EsPrefijo
<1> QED BY <1>8, <1>13 DEF X, Y

\* The same blocks with the same contents read the same.
LEMMA TextoIgual ==
  ASSUME NEW x, NEW y, NEW bs, \A i \in DOMAIN bs : y[bs[i]] = x[bs[i]],
         x \in [Bloques -> Trozos], bs \in Seq(Bloques), NEW z \in Nat
  PROVE  Texto(y, bs, z) = Texto(x, bs, z)
<1>1. DOMAIN bs = 1 .. Len(bs) /\ Len(bs) \in Nat
  OBVIOUS
<1>2. Alcanzados(y, bs) = Alcanzados(x, bs)
  <2>1. \A i \in DOMAIN bs : \A j \in 1 .. i - 1 : y[bs[j]] = x[bs[j]]
    BY <1>1
  <2> QED BY <2>1 DEF Alcanzados
<1>3. /\ Cardinality(Alcanzados(x, bs)) \in 0 .. Len(bs)
      /\ Tamano(x, bs) \in Nat
      /\ \A i \in 1 .. Tamano(x, bs) :
           ((i - 1) \div TBLOQUE) + 1 \in 1 .. Cardinality(Alcanzados(x, bs))
  BY PrimerosBloques, EnSuBloque
<1>4. Tamano(y, bs) = Tamano(x, bs)
  <2> DEFINE k == Cardinality(Alcanzados(x, bs))
  <2>1. k # 0 => k \in DOMAIN bs
    BY <1>1, <1>3
  <2> HIDE DEF k
  <2> QED BY <1>2, <2>1 DEF Tamano, k
<1> DEFINE h == IF z <= Tamano(x, bs) THEN z ELSE Tamano(x, bs)
<1>5. \A i \in 1 .. h : ((i - 1) \div TBLOQUE) + 1 \in DOMAIN bs
  <2>1. \A i \in 1 .. h : i \in 1 .. Tamano(x, bs)
    BY <1>3
  <2>2. \A j \in 1 .. Cardinality(Alcanzados(x, bs)) : j \in DOMAIN bs
    BY <1>1, <1>3
  <2> HIDE DEF h
  <2> QED BY <1>3, <2>1, <2>2
<1> HIDE DEF h
<1>6. \A i \in 1 .. h : y[bs[((i - 1) \div TBLOQUE) + 1]][((i - 1) % TBLOQUE) + 1]
                          = x[bs[((i - 1) \div TBLOQUE) + 1]][((i - 1) % TBLOQUE) + 1]
  BY <1>5, Zenon
<1>7. /\ Texto(x, bs, z) = [i \in 1 .. h |-> x[bs[((i - 1) \div TBLOQUE) + 1]][((i - 1) % TBLOQUE) + 1]]
      /\ Texto(y, bs, z) = [i \in 1 .. h |-> y[bs[((i - 1) \div TBLOQUE) + 1]][((i - 1) % TBLOQUE) + 1]]
  BY <1>4 DEF Texto, h
<1> QED BY <1>6, <1>7, Zenon

\* A file with the same blocks and the same contents reads the same.
LEMMA LeidoIgual ==
  ASSUME NEW s, NEW t, NEW n, Existe(s, n), Existe(t, n), NEW bs \in Seq(Bloques),
         BloquesDe(s, n) = bs, BloquesDe(t, n) = bs,
         s.datos \in [Bloques -> Trozos], \A i \in DOMAIN bs : t.datos[bs[i]] = s.datos[bs[i]],
         NEW z \in Nat
  PROVE  leer(t, n, z) = leer(s, n, z)
<1>1. leer(s, n, z) = Texto(s.datos, bs, z) /\ leer(t, n, z) = Texto(t.datos, bs, z)
  BY LeerLee
<1> DEFINE x == s.datos
           y == t.datos
<1>2. x \in [Bloques -> Trozos] /\ \A i \in DOMAIN bs : y[bs[i]] = x[bs[i]]
  OBVIOUS
<1>3. bs \in Seq(Bloques) /\ z \in Nat
  OBVIOUS
<1> HIDE DEF x, y
<1>4. Texto(y, bs, z) = Texto(x, bs, z)
  BY ONLY <1>2, <1>3, TextoIgual
<1> QED BY <1>1, <1>4 DEF x, y
-----------------------------------------------------------------------------
\* Call k of the request ls made in a, its writes P still to be made on f:
\* memory and disk are between the state u it started in and the state t it
\* returns, and the files it does not name are in u as they were in a.
EnLlamada(a, ls, k, f, P) ==
  /\ ls[k].op # "constructor" /\ (ls[k].op = "escribir" => AlFinal(P))
  /\ \E u :
       /\ Base(u) /\ Firme(u) /\ Situada(a, ls, k, u)
       /\ \A n \in Ajenos(ls[k]) : Existe(a, n) => Intacto(a, u, n)
       /\ \E t \in Hecho(u, ls[k]) : Base(t) /\ Cerca(f, t, P) /\ AMedias(f, u, t, P)

\* What a crash may find of the files that the call in progress does not name.
InvOtros == ~Libre => EnLlamada(antes, llamadas, turno, fs, pendientes)

\* A call that starts between requests or after another call is on its way.
LEMMA OtrosAlCorrer ==
  ASSUME NEW s, Base(s), NEW ls, Pedida(s, ls), NEW k \in 1 .. Len(ls),
         Base(fs), Firme(fs), Situada(s, ls, k, fs),
         \A n \in Ajenos(ls[k]) : Existe(s, n) => Intacto(s, fs, n), Correr(ls, k, s)
  PROVE  InvOtros'
<1>1. PICK r \in Inicios(fs, ls[k]) :
        /\ fs' = r.estado
        /\ pendientes' = r.escrituras
        /\ IF r.escrituras = <<>> /\ k = Len(ls)
           THEN llamadas' = <<>> /\ turno' = 0 /\ antes' = fs'
           ELSE llamadas' = ls /\ turno' = k /\ antes' = s
  BY DEF Correr
<1>2. CASE r.escrituras = <<>> /\ k = Len(ls)
  BY <1>1, <1>2 DEF InvOtros, Libre
<1>3. CASE ~(r.escrituras = <<>> /\ k = Len(ls))
  <2>1. EnTurno(s, ls, k, fs)
    BY PorTurnos
  <2>2. Admitida(fs, ls[k]) /\ (ls[k].op = "constructor" => k = Len(ls))
    BY <2>1 DEF EnTurno
  <2>3. ls[k].op # "constructor"
    <3>1. SUFFICES ASSUME ls[k].op = "constructor" PROVE r.escrituras = <<>> /\ k = Len(ls)
      BY <1>3
    <3>2. Inicios(fs, ls[k]) = {[estado |-> t, escrituras |-> <<>>] : t \in cargar(fs)}
      BY <3>1 DEF Inicios
    <3>3. r.escrituras = <<>>
      BY <3>2
    <3> QED BY <2>2, <3>1, <3>3
  <2>4. Comienza(fs, r) /\ (ls[k].op = "escribir" => AlFinal(r.escrituras))
    BY <2>2, <2>3, Comienzo
  <2>5. PICK t \in Hecho(fs, ls[k]) : Base(t) /\ Cerca(r.estado, t, r.escrituras)
    BY <2>2, Iniciada DEF Bien
  <2>6. AMedias(r.estado, fs, t, r.escrituras)
    BY <2>4, <2>5, AMediasAlEmpezar DEF Cerca, Hacia
  <2>7. EnLlamada(s, ls, k, r.estado, r.escrituras)
    BY <2>3, <2>4, <2>5, <2>6 DEF EnLlamada
  <2> QED BY <1>1, <1>3, <2>7 DEF InvOtros
<1> QED BY <1>2, <1>3

\* A file untouched by two changes.
LEMMA IntactoDosVeces ==
  ASSUME NEW a, NEW u, NEW t, NEW n, Intacto(a, u, n), Intacto(u, t, n)
  PROVE  Intacto(a, t, n)
BY DEF Intacto

\* A request that starts keeps the invariant.
LEMMA OtrosAlLlamar ==
  ASSUME InvCorte, NEW ls, Llamar(ls), Pedida(fs, ls)
  PROVE  InvOtros'
<1>1. Base(fs) /\ 1 \in 1 .. Len(ls) /\ Correr(ls, 1, fs) /\ Sano(fs)
  BY Admision DEF Llamar
<1>2. Firme(fs)
  BY <1>1 DEF Sano, Firme
<1>3. Situada(fs, ls, 1, fs) /\ \A n \in Ajenos(ls[1]) : Existe(fs, n) => Intacto(fs, fs, n)
  BY DEF Situada, Intacto
<1> QED BY <1>1, <1>2, <1>3, OtrosAlCorrer

\* The call that follows another of the request keeps the invariant.
LEMMA OtrosAlSeguir ==
  ASSUME InvCorte, InvOtros, Seguir
  PROVE  InvOtros'
<1> DEFINE l == llamadas[turno]
           k == turno + 1
<1>1. ~Libre /\ pendientes = <<>> /\ Correr(llamadas, k, antes)
  BY DEF Seguir
<1>2. /\ Pedida(antes, llamadas) /\ turno \in 1 .. Len(llamadas) /\ turno < Len(llamadas)
      /\ Base(antes) /\ fs \in Discos
  BY <1>1 DEF InvCorte, Arrancable
<1>3. k \in 1 .. Len(llamadas) /\ k # 1 /\ k - 1 = turno
  BY <1>2, PedidaLarga
<1>4. PICK u : /\ Base(u) /\ Firme(u) /\ Situada(antes, llamadas, turno, u)
               /\ \A n \in Ajenos(l) : Existe(antes, n) => Intacto(antes, u, n)
               /\ \E t \in Hecho(u, l) : Base(t) /\ Cerca(fs, t, <<>>)
  BY <1>1 DEF InvOtros, EnLlamada
<1>5. PICK t \in Hecho(u, l) : Base(t) /\ Cerca(fs, t, <<>>)
  BY <1>4
<1>6. fs = t
  BY <1>2, <1>5, Grabado
<1>7. EnTurno(antes, llamadas, turno, u)
  BY <1>2, <1>4, PorTurnos
<1>8. /\ Admitida(u, l) /\ l.op \in {"crearInodo", "eliminar", "destructor"}
      /\ Ajenos(llamadas[k]) \subseteq Ajenos(l) /\ t \in Alcanza(antes, llamadas, turno)
  BY <1>2, <1>5, <1>7 DEF EnTurno
<1>9. Respeta(u, t, l) /\ Firme(t)
  BY <1>4, <1>5, <1>8, HechaRespeta
<1> HIDE DEF l, k
<1>10. \A n \in Ajenos(llamadas[k]) : Existe(antes, n) => Intacto(antes, t, n)
  <2> TAKE n \in Ajenos(llamadas[k])
  <2> HAVE Existe(antes, n)
  <2>1. Intacto(antes, u, n) /\ n \in Ajenos(l)
    BY <1>4, <1>8
  <2>2. Intacto(u, t, n)
    BY <1>9, <2>1 DEF Respeta, Intacto
  <2> QED BY <2>1, <2>2, IntactoDosVeces
<1>11. Situada(antes, llamadas, k, t)
  BY <1>3, <1>8 DEF Situada
<1> QED BY <1>1, <1>2, <1>3, <1>5, <1>6, <1>9, <1>10, <1>11, OtrosAlCorrer

\* A write keeps the invariant.
LEMMA OtrosAlGrabar ==
  ASSUME InvCorte, InvOtros, Grabar
  PROVE  InvOtros'
<1>1. /\ pendientes # <<>> /\ fs' \in Grabada(fs, Head(pendientes))
      /\ pendientes' = Tail(pendientes)
      /\ IF Len(pendientes) = 1 /\ turno = Len(llamadas)
         THEN llamadas' = <<>> /\ turno' = 0 /\ antes' = fs'
         ELSE UNCHANGED <<llamadas, turno, antes>>
  BY DEF Grabar
<1>2. CASE llamadas' = <<>>
  BY <1>2 DEF InvOtros, Libre
<1>3. CASE UNCHANGED <<llamadas, turno, antes>>
  <2> DEFINE l == llamadas[turno]
  <2>1. ~Libre /\ Arrancable(fs)
    BY <1>1 DEF InvCorte
  <2>2. PICK u : /\ l.op # "constructor" /\ (l.op = "escribir" => AlFinal(pendientes))
                 /\ Base(u) /\ Firme(u) /\ Situada(antes, llamadas, turno, u)
                 /\ \A n \in Ajenos(l) : Existe(antes, n) => Intacto(antes, u, n)
                 /\ \E t \in Hecho(u, l) : /\ Base(t) /\ Cerca(fs, t, pendientes)
                                           /\ AMedias(fs, u, t, pendientes)
    BY <2>1 DEF InvOtros, EnLlamada
  <2>3. PICK t \in Hecho(u, l) : /\ Base(t) /\ Cerca(fs, t, pendientes)
                                 /\ AMedias(fs, u, t, pendientes)
    BY <2>2
  <2>4. Cerca(fs', t, pendientes')
    BY <1>1, <2>1, <2>3, PasoGrabado
  <2>5. AMedias(fs', u, t, pendientes')
    BY <1>1, <2>1, <2>2, <2>3, AMediasSigue
  <2>6. AlFinal(pendientes) => AlFinal(pendientes')
    <3>1. pendientes \in Seq(Escrituras)
      BY <2>3 DEF Cerca, Hacia
    <3> QED BY <1>1, <3>1 DEF AlFinal
  <2>7. EnLlamada(antes, llamadas, turno, fs', pendientes')
    BY <2>2, <2>3, <2>4, <2>5, <2>6 DEF EnLlamada
  <2> QED BY <1>3, <2>7 DEF InvOtros
<1> QED BY <1>1, <1>2, <1>3

\* Every step keeps the invariant.
LEMMA PasoOtros ==
  ASSUME InvCorte, InvOtros, [CrashNext]_crashVars
  PROVE  InvOtros'
<1>1. ASSUME Corte PROVE InvOtros'
  BY <1>1 DEF Corte, InvOtros, Libre
<1>2. ASSUME UNCHANGED crashVars PROVE InvOtros'
  BY <1>2 DEF crashVars, InvOtros, Libre
<1> QED BY <1>1, <1>2, OtrosAlLlamar, OtrosAlSeguir, OtrosAlGrabar, Peticiones

\* A file that nothing touched reads the same.
LEMMA LeidoIntacto ==
  ASSUME NEW s, Base(s), NEW t, NEW n \in Nombres, Existe(s, n), Intacto(s, t, n)
  PROVE  Leido(t, n) = Leido(s, n)
<1> DEFINE bs == BloquesDe(s, n)
           z == MaxBloques * TBLOQUE
<1>1. bs \in Seq(DataBloques) /\ s.datos \in [Bloques -> Trozos]
  <2>1. buscarArchivoPorNombre(s, n) \in Slots
    BY Buscar
  <2> QED BY <2>1 DEF Base, Arrancable, Discos, INodos, BloquesDe
<1>2. DataBloques \subseteq Bloques /\ z \in Nat
  BY Constantes DEF DataBloques, Bloques
<1>3. Existe(t, n) /\ BloquesDe(t, n) = bs /\ \A b \in Range(bs) : t.datos[b] = s.datos[b]
  BY DEF Intacto
<1> HIDE DEF bs, z
<1>4. bs \in Seq(Bloques)
  BY <1>1, <1>2
<1>5. \A i \in DOMAIN bs : t.datos[bs[i]] = s.datos[bs[i]]
  BY <1>3 DEF Range
<1>6. leer(t, n, z) = leer(s, n, z)
  BY <1>1, <1>2, <1>3, <1>4, <1>5, LeidoIgual DEF bs
<1> QED BY <1>6 DEF Leido, z

\* What the restart finds of a file that the interrupted call leaves in its
\* slot: the list of before until the lists are written, the new one after;
\* and in every block what it held before or what the call puts in it.
LEMMA ListaTrasCorte ==
  ASSUME NEW u, Base(u), NEW t, Base(t),
         NEW s, Arrancable(s), NEW P, Cerca(s, t, P), AMedias(s, u, t, P),
         NEW v \in cargar(s), NEW n \in Nombres, Existe(u, n), Existe(t, n),
         Falta(P, "listas") /\ P[1].que = "listas"
           => buscarArchivoPorNombre(t, n) = buscarArchivoPorNombre(u, n)
  PROVE  /\ Existe(v, n) /\ v.datos \in [Bloques -> Trozos]
         /\ BloquesDe(v, n) = IF Falta(P, "listas") THEN BloquesDe(u, n) ELSE BloquesDe(t, n)
         /\ \A b \in Bloques : v.datos[b] = u.datos[b] \/ v.datos[b] = t.datos[b]
<1> DEFINE q == buscarArchivoPorNombre(u, n)
<1>1. Arrancable(v) /\ v.directorio = s.dDirectorio /\ v.datos = s.datos
  BY Cargado
<1>2. /\ v.datos \in [Bloques -> Trozos]
      /\ \A b \in Bloques : v.datos[b] = u.datos[b] \/ v.datos[b] = t.datos[b]
  BY <1>1 DEF AMedias, Arrancable, Discos
<1>3. CASE ~Falta(P, "listas")
  <2>1. v.directorio = t.directorio
    BY <1>1, <1>3 DEF Cerca, Base
  <2>2. Existe(v, n) /\ buscarArchivoPorNombre(v, n) = buscarArchivoPorNombre(t, n)
    BY <2>1, MismosNombres
  <2> QED BY <1>2, <1>3, <2>1, <2>2 DEF BloquesDe
<1>4. CASE Falta(P, "listas") /\ P[1].que # "listas"
  <2>1. v.directorio = u.directorio
    BY <1>1, <1>4 DEF AMedias, Base
  <2>2. Existe(v, n) /\ buscarArchivoPorNombre(v, n) = q
    BY <2>1, MismosNombres
  <2> QED BY <1>2, <1>4, <2>1, <2>2 DEF BloquesDe
<1>5. CASE Falta(P, "listas") /\ P[1].que = "listas"
  <2>1. Mezcla(s, u, t) /\ buscarArchivoPorNombre(t, n) = q
    BY <1>5 DEF AMedias
  <2>2. q \in Slots /\ u.directorio[q].nombre = n /\ t.directorio[q].nombre = n
    BY <2>1, Buscar
  <2>3. \A i \in Slots : v.directorio[i].nombre = t.directorio[i].nombre
    BY <1>1, <2>1 DEF Mezcla
  <2>4. Existe(v, n) /\ buscarArchivoPorNombre(v, n) = q
    BY <2>1, <2>3, MismosNombres
  <2> HIDE DEF q
  <2>5. n # Vacio
    BY NombresValidos
  <2>6. v.directorio[q].bloques = u.directorio[q].bloques
    BY <1>1, <2>1, <2>2, <2>5 DEF Mezcla
  <2> QED BY <1>2, <1>5, <2>4, <2>6 DEF BloquesDe, q
<1> QED BY <1>3, <1>4, <1>5

\* The restart finds a file that the call in progress does not name as it was
\* when the call started, but between the names and the lists of an eliminar
\* that moves files.
LEMMA OtroTrasCorte ==
  ASSUME NEW u, Base(u), Firme(u), NEW l, Admitida(u, l), l.op # "constructor",
         NEW t \in Hecho(u, l), Base(t),
         NEW s, Arrancable(s), NEW P, Cerca(s, t, P), AMedias(s, u, t, P),
         Falta(P, "listas") /\ P[1].que = "listas" => ~Mueve(u, l),
         NEW v \in cargar(s), NEW m \in Ajenos(l), Existe(u, m)
  PROVE  Intacto(u, v, m)
<1> DEFINE bs == BloquesDe(u, m)
<1>1. m \in Nombres
  BY DEF Ajenos
<1>2. /\ Existe(t, m) /\ BloquesDe(t, m) = bs
      /\ \A b \in Range(bs) : t.datos[b] = u.datos[b]
      /\ ~Mueve(u, l) => buscarArchivoPorNombre(t, m) = buscarArchivoPorNombre(u, m)
  BY HechaRespeta DEF Respeta, Intacto
<1>3. \A b \in Range(bs) : b \in Bloques
  BY <1>1, BloquesSuyos
<1> HIDE DEF bs
<1>4. /\ Existe(v, m) /\ \A b \in Bloques : v.datos[b] = u.datos[b] \/ v.datos[b] = t.datos[b]
      /\ BloquesDe(v, m) = bs
  BY <1>1, <1>2, ListaTrasCorte DEF bs
<1> QED BY <1>2, <1>3, <1>4 DEF Intacto, bs

\* A crash leaves the other files as they were before the request.
LEMMA CorteRespeta ==
  ASSUME InvCorte, InvOtros, Corte, ~Libre
  PROVE  \/ /\ EntreNombresYListas /\ Actual.op = "eliminar"
            /\ buscarArchivoPorNombre(antes, Actual.nombre) < antes.nFiles - 1
         \/ \A n \in Nombres \ {Actual.nombre, Actual.dato} :
              Existe(antes, n) => Existe(fs', n) /\ Leido(fs', n) = Leido(antes, n)
<1> DEFINE l == Actual
           P == pendientes
<1>1. /\ Arrancable(fs) /\ Base(antes) /\ Pedida(antes, llamadas) /\ turno \in 1 .. Len(llamadas)
      /\ fs' \in cargar(fs)
  BY DEF InvCorte, Corte
<1>2. PICK u : /\ l.op # "constructor"
               /\ Base(u) /\ Firme(u) /\ Situada(antes, llamadas, turno, u)
               /\ \A n \in Ajenos(l) : Existe(antes, n) => Intacto(antes, u, n)
               /\ \E t \in Hecho(u, l) : Base(t) /\ Cerca(fs, t, P) /\ AMedias(fs, u, t, P)
  BY DEF InvOtros, EnLlamada, Actual
<1>3. PICK t \in Hecho(u, l) : Base(t) /\ Cerca(fs, t, P) /\ AMedias(fs, u, t, P)
  BY <1>2
<1>4. EnTurno(antes, llamadas, turno, u)
  BY <1>1, <1>2, PorTurnos
<1>5. Admitida(u, l) /\ (l.op = "eliminar" => u = antes)
  BY <1>2, <1>4 DEF EnTurno, Situada, Actual
<1> HIDE DEF l
<1>6. CASE Falta(P, "listas") /\ P[1].que = "listas" /\ Mueve(u, l)
  <2>1. P \in Seq(Escrituras) /\ P # <<>>
    <3>1. P \in Seq(Escrituras)
      BY <1>3 DEF Cerca, Hacia
    <3>2. DOMAIN <<>> = {}
      OBVIOUS
    <3> QED BY <1>6, <3>1, <3>2 DEF Falta
  <2>2. Head(P) = P[1]
    BY <2>1, SinLaPrimera
  <2>3. EntreNombresYListas
    BY <1>6, <2>1, <2>2 DEF EntreNombresYListas
  <2> QED BY <1>5, <1>6, <2>3 DEF Mueve, l
<1>7. CASE ~(Falta(P, "listas") /\ P[1].que = "listas" /\ Mueve(u, l))
  <2>1. ASSUME NEW n \in Nombres \ {l.nombre, l.dato}, Existe(antes, n)
        PROVE  Existe(fs', n) /\ Leido(fs', n) = Leido(antes, n)
    <3>1. n \in Ajenos(l)
      BY DEF Ajenos
    <3>2. Intacto(antes, u, n) /\ Existe(u, n)
      BY <1>2, <2>1, <3>1 DEF Intacto
    <3>3. Intacto(u, fs', n)
      BY <1>1, <1>2, <1>3, <1>5, <1>7, <3>1, <3>2, OtroTrasCorte
    <3>4. Intacto(antes, fs', n)
      BY <3>2, <3>3, IntactoDosVeces
    <3>5. Leido(fs', n) = Leido(antes, n)
      BY <1>1, <2>1, <3>4, LeidoIntacto
    <3> QED BY <3>4, <3>5 DEF Intacto
  <2> QED BY <2>1 DEF l
<1> QED BY <1>6, <1>7

\* Wherever a crash falls, the files that the interrupted call does not name
\* are there after the restart and read as before the request, unless it falls
\* between the names and the lists of an eliminar that moves the last file.
THEOREM OtrosTrasCorte == CrashSpec => OtrosIntactos
<1>1. CrashInit => InvOtros
  BY DEF CrashInit, InvOtros, Libre
<1>2. InvCorte /\ InvOtros /\ [CrashNext]_crashVars => InvOtros'
  BY PasoOtros
<1>3. InvCorte /\ InvOtros /\ [CrashNext]_crashVars
      => [Corte /\ ~Libre
          => \/ /\ EntreNombresYListas /\ Actual.op = "eliminar"
                /\ buscarArchivoPorNombre(antes, Actual.nombre) < antes.nFiles - 1
             \/ \A n \in Nombres \ {Actual.nombre, Actual.dato} :
                  Existe(antes, n) => /\ Existe(fs, n)'
                                      /\ Leido(fs', n) = Leido(antes, n)]_crashVars
  <2>1. \A n : Existe(fs, n)' <=> Existe(fs', n)
    BY DEF Existe
  <2> QED BY <2>1, CorteRespeta
<1> QED BY <1>1, <1>2, <1>3, InvarianteCorte, PTL DEF CrashSpec, OtrosIntactos

\* Sequence y has x at its start.
Sigue(x, y) == Len(x) <= Len(y) /\ \A r \in 1 .. Len(x) : x[r] = y[r]

\* File n has in t the blocks it has in s, perhaps one more, with what they
\* held in s and perhaps more behind it.
Extiende(s, t, n) ==
  LET bs == BloquesDe(s, n)
      cs == BloquesDe(t, n)
  IN /\ Existe(t, n) /\ Len(bs) <= Len(cs) /\ cs \in Seq(Bloques)
     /\ \A i \in DOMAIN bs : cs[i] = bs[i] /\ Sigue(s.datos[bs[i]], t.datos[bs[i]])

\* The blocks of a file, and what the disk holds.
LEMMA Bloqueado ==
  ASSUME NEW s, Base(s), NEW n \in Nombres, Existe(s, n)
  PROVE  BloquesDe(s, n) \in Seq(DataBloques) /\ BloquesDe(s, n) \in Seq(Bloques)
         /\ s.datos \in [Bloques -> Trozos]
<1> DEFINE bs == BloquesDe(s, n)
<1>1. bs \in Seq(DataBloques) /\ s.datos \in [Bloques -> Trozos]
  <2>1. buscarArchivoPorNombre(s, n) \in Slots
    BY Buscar
  <2> QED BY <2>1 DEF Base, Arrancable, Discos, INodos, BloquesDe
<1>2. DataBloques \subseteq Bloques
  BY Constantes DEF DataBloques, Bloques
<1> HIDE DEF bs
<1>3. bs \in Seq(Bloques)
  BY <1>1, <1>2
<1> QED BY <1>1, <1>3 DEF bs

\* agregar leaves what the file held at its start.
LEMMA AgregarExtiende ==
  ASSUME NEW s, Base(s), Firme(s), NEW n \in Nombres, Existe(s, n), Cabe(s, n), NEW c \in Bytes,
         NEW t, t = agregar(s, n, c)
  PROVE  Extiende(s, t, n) /\ buscarArchivoPorNombre(t, n) = buscarArchivoPorNombre(s, n)
<1> DEFINE bs == BloquesDe(s, n)
           cs == BloquesDe(t, n)
           u == cs[Len(cs)]
<1>1. bs \in Seq(DataBloques) /\ bs \in Seq(Bloques) /\ s.datos \in [Bloques -> Trozos]
  BY Bloqueado
<1>2. Len(bs) \in Nat /\ DOMAIN bs = 1 .. Len(bs) /\ \A i \in DOMAIN bs : bs[i] \in Bloques
  BY <1>1
<1> HIDE DEF bs
<1>3. CASE t = s
  BY <1>1, <1>3 DEF Extiende, Sigue, bs
<1>4. CASE t # s
  <2>1. /\ Base(t) /\ cs \in Seq(DataBloques) /\ cs # <<>>
        /\ \A e \in Bloques : e # u => t.datos[e] = s.datos[e]
        /\ cs = bs => t.datos[u] = Append(s.datos[u], c)
        /\ cs # bs => u \notin s.bitmap /\ cs = Append(bs, u)
        /\ Existe(t, n) /\ buscarArchivoPorNombre(t, n) = buscarArchivoPorNombre(s, n)
    <3>1. \/ Len(BloquesDe(s, n)) < MaxFile
          \/ /\ BloquesDe(s, n) # <<>>
             /\ Len(s.datos[BloquesDe(s, n)[Len(BloquesDe(s, n))]]) < TBLOQUE
      BY DEF Cabe
    <3> QED BY <1>4, <3>1, BaseDeAgregar DEF bs
  <2>2. cs \in Seq(Bloques)
    BY <2>1, Bloqueado
  <2> HIDE DEF cs, u
  <2>3. \A e \in Bloques : e # u => Sigue(s.datos[e], t.datos[e])
    BY <2>1 DEF Sigue
  <2>4. CASE cs = bs
    <3>1. u \in Bloques
      BY <2>1, <2>2, <2>4 DEF u
    <3>2. s.datos[u] \in Seq(Bytes \cup {ByteMeta})
      BY <1>1, <3>1 DEF Trozos
    <3>3. Sigue(s.datos[u], t.datos[u])
      BY <2>1, <2>4, <3>2 DEF Sigue
    <3>4. \A i \in DOMAIN bs : Sigue(s.datos[bs[i]], t.datos[bs[i]])
      BY <1>2, <2>3, <3>3
    <3> QED BY <1>2, <2>1, <2>2, <2>4, <3>4 DEF Extiende, bs, cs
  <2>5. CASE cs # bs
    <3>1. cs = Append(bs, u) /\ u \notin s.bitmap
      BY <2>1, <2>5
    <3>2. Len(bs) <= Len(cs) /\ \A i \in DOMAIN bs : cs[i] = bs[i]
      BY <1>1, <3>1
    <3>3. \A i \in DOMAIN bs : bs[i] # u
      <4> TAKE i \in DOMAIN bs
      <4>1. bs[i] \in Range(bs)
        BY DEF Range
      <4>2. bs[i] \in s.bitmap
        BY <4>1, BloquesSuyos DEF bs
      <4> QED BY <3>1, <4>2
    <3>4. \A i \in DOMAIN bs : Sigue(s.datos[bs[i]], t.datos[bs[i]])
      BY <1>2, <2>3, <3>3
    <3> QED BY <2>1, <2>2, <3>2, <3>4 DEF Extiende, bs, cs
  <2> QED BY <2>1, <2>4, <2>5
<1> QED BY <1>3, <1>4

\* A file that was extended reads as before, and perhaps on.
LEMMA LeidoExtendido ==
  ASSUME NEW s, Base(s), NEW v, v.datos \in [Bloques -> Trozos], NEW n \in Nombres, Existe(s, n),
         Extiende(s, v, n)
  PROVE  IsPrefix(Leido(s, n), Leido(v, n))
<1> DEFINE bs == BloquesDe(s, n)
           cs == BloquesDe(v, n)
           z == MaxBloques * TBLOQUE
<1>1. bs \in Seq(Bloques) /\ s.datos \in [Bloques -> Trozos]
  BY Bloqueado
<1>2. /\ Existe(v, n) /\ Len(bs) <= Len(cs) /\ cs \in Seq(Bloques)
      /\ \A i \in DOMAIN bs : cs[i] = bs[i] /\ Sigue(s.datos[bs[i]], v.datos[bs[i]])
  BY DEF Extiende
<1>3. z \in Nat
  BY Constantes
<1>4. Leido(s, n) = Texto(s.datos, bs, z) /\ Leido(v, n) = Texto(v.datos, cs, z)
  BY <1>2, LeerLee DEF Leido
<1> HIDE DEF bs, cs, z
<1>5. IsPrefix(Texto(s.datos, bs, z), Texto(v.datos, cs, z))
  <2>1. \A i \in DOMAIN bs : /\ cs[i] = bs[i] /\ Len(s.datos[bs[i]]) <= Len(v.datos[bs[i]])
                             /\ \A r \in 1 .. Len(s.datos[bs[i]]) : s.datos[bs[i]][r] = v.datos[bs[i]][r]
    BY <1>2 DEF Sigue
  <2> QED BY <1>1, <1>2, <1>3, <2>1, TextoPrefijo
<1> QED BY <1>4, <1>5

\* A call that changes nothing of its file leaves it as it was, wherever a
\* crash falls; so does one that only writes on other blocks, until the lists
\* are written.
LEMMA IntactoTrasCorte ==
  ASSUME NEW u, Base(u), Firme(u), NEW t, Base(t),
         NEW s, Arrancable(s), NEW P, Cerca(s, t, P), AMedias(s, u, t, P),
         NEW v \in cargar(s), NEW n \in Nombres, Existe(u, n), Existe(t, n),
         buscarArchivoPorNombre(t, n) = buscarArchivoPorNombre(u, n),
         Falta(P, "listas") \/ BloquesDe(t, n) = BloquesDe(u, n),
         \A b \in Usados(u) : t.datos[b] = u.datos[b]
  PROVE  Intacto(u, v, n)
<1>1. \A b \in Range(BloquesDe(u, n)) : b \in Bloques /\ b \in Usados(u)
  BY BloquesSuyos
<1>2. /\ Existe(v, n) /\ \A b \in Bloques : v.datos[b] = u.datos[b] \/ v.datos[b] = t.datos[b]
      /\ BloquesDe(v, n) = BloquesDe(u, n)
  BY ListaTrasCorte
<1> QED BY <1>1, <1>2 DEF Intacto

\* Wherever a crash falls in an agregar, the file goes on from what it held.
LEMMA AgregarTrasCorte ==
  ASSUME NEW u, Base(u), Firme(u), NEW n \in Nombres, Existe(u, n), Cabe(u, n), NEW c \in Bytes,
         NEW t, t = agregar(u, n, c), Base(t),
         NEW s, Arrancable(s), NEW P, Cerca(s, t, P), AMedias(s, u, t, P),
         NEW v \in cargar(s)
  PROVE  IsPrefix(Leido(u, n), Leido(v, n))
<1> DEFINE bs == BloquesDe(u, n)
           cs == BloquesDe(t, n)
<1>1. Extiende(u, t, n) /\ buscarArchivoPorNombre(t, n) = buscarArchivoPorNombre(u, n)
  BY AgregarExtiende
<1>2. /\ Existe(t, n) /\ Len(bs) <= Len(cs) /\ cs \in Seq(Bloques)
      /\ \A i \in DOMAIN bs : cs[i] = bs[i] /\ Sigue(u.datos[bs[i]], t.datos[bs[i]])
  BY <1>1 DEF Extiende
<1>3. /\ Existe(v, n) /\ v.datos \in [Bloques -> Trozos]
      /\ BloquesDe(v, n) = IF Falta(P, "listas") THEN bs ELSE cs
      /\ \A b \in Bloques : v.datos[b] = u.datos[b] \/ v.datos[b] = t.datos[b]
  BY <1>1, <1>2, ListaTrasCorte
<1>4. bs \in Seq(Bloques)
  BY Bloqueado
<1> HIDE DEF bs, cs
<1>5. Len(bs) \in Nat /\ \A i \in DOMAIN bs : bs[i] \in Bloques
  BY <1>4
<1>6. \A i \in DOMAIN bs : Sigue(u.datos[bs[i]], v.datos[bs[i]])
  <2> TAKE i \in DOMAIN bs
  <2>1. Sigue(u.datos[bs[i]], u.datos[bs[i]])
    <3>1. u.datos[bs[i]] \in Seq(Bytes \cup {ByteMeta})
      BY <1>5, Bloqueado DEF Trozos
    <3> QED BY <3>1 DEF Sigue
  <2>2. v.datos[bs[i]] = u.datos[bs[i]] \/ v.datos[bs[i]] = t.datos[bs[i]]
    BY <1>3, <1>5
  <2> QED BY <1>2, <2>1, <2>2
<1>7. Extiende(u, v, n)
  <2> DEFINE ds == BloquesDe(v, n)
  <2>1. ds \in Seq(Bloques) /\ Len(bs) <= Len(ds) /\ \A i \in DOMAIN bs : ds[i] = bs[i]
    BY <1>2, <1>3, <1>4, <1>5
  <2> HIDE DEF ds
  <2> QED BY <1>3, <1>6, <2>1 DEF Extiende, bs, ds
<1> QED BY <1>3, <1>7, LeidoExtendido

\* The calls of a request whose file the crash is about: agregar alone, and
\* escribir alone or after a crearInodo of its file.
LEMMA QueSePidio ==
  ASSUME NEW s, NEW ls, Pedida(s, ls), NEW k \in 1 .. Len(ls)
  PROVE  LET l == ls[k]
             n == l.nombre
         IN /\ l.op = "agregar"
               => /\ k = 1 /\ n \in Nombres
                  /\ \E c \in Bytes : Existe(s, n) /\ Cabe(s, n) /\ l = Llamada("agregar", n, c)
            /\ Last(ls).op = "escribir" /\ Head(ls).op # "eliminar"
               => /\ n \in Nombres
                  /\ \/ k = 1 /\ l = Llamada("crearInodo", n, <<>>)
                     \/ /\ k = Len(ls) /\ \E d \in Textos : l = Llamada("escribir", n, d)
                        /\ k = 1 \/ (k = 2 /\ ls[1] = Llamada("crearInodo", n, <<>>))
<1>1. \A o, n, d : Llamada(o, n, d).op = o /\ Llamada(o, n, d).nombre = n
  BY PartesDeLlamada
<1>2. ASSUME NEW l, ls = <<l>> PROVE k = 1 /\ Len(ls) = 1 /\ ls[1] = l /\ Last(ls) = l /\ Head(ls) = l
  BY <1>2 DEF Last
<1>3. ASSUME NEW l, NEW m, ls = <<l, m>>
      PROVE  (k = 1 \/ k = 2) /\ Len(ls) = 2 /\ ls[1] = l /\ ls[2] = m /\ Last(ls) = m /\ Head(ls) = l
  BY <1>3 DEF Last
<1>4. ASSUME NEW l, NEW m, NEW o, ls = <<l, m, o>>
      PROVE  /\ k = 1 \/ k = 2 \/ k = 3
             /\ ls[1] = l /\ ls[2] = m /\ ls[3] = o /\ Head(ls) = l
  BY <1>4 DEF Last
<1> DEFINE Pide ==
      LET l == ls[k]
          n == l.nombre
      IN /\ l.op = "agregar"
            => /\ k = 1 /\ n \in Nombres
               /\ \E c \in Bytes : Existe(s, n) /\ Cabe(s, n) /\ l = Llamada("agregar", n, c)
         /\ Last(ls).op = "escribir" /\ Head(ls).op # "eliminar"
            => /\ n \in Nombres
               /\ \/ k = 1 /\ l = Llamada("crearInodo", n, <<>>)
                  \/ /\ k = Len(ls) /\ \E d \in Textos : l = Llamada("escribir", n, d)
                     /\ k = 1 \/ (k = 2 /\ ls[1] = Llamada("crearInodo", n, <<>>))
<1>5. ASSUME NEW o, NEW n, NEW d, ls = <<Llamada(o, n, d)>>, o # "agregar", o # "escribir" PROVE Pide
  BY <1>1, <1>2, <1>5
<1>6. ASSUME NEW n \in Nombres, NEW c \in Bytes, Existe(s, n), Cabe(s, n), ls = <<Llamada("agregar", n, c)>>
      PROVE  Pide
  BY <1>1, <1>2, <1>6
<1>7. ASSUME NEW n \in Nombres, NEW d \in Textos, ls = <<Llamada("escribir", n, d)>> PROVE Pide
  BY <1>1, <1>2, <1>7
<1>8. ASSUME NEW n \in Nombres, NEW d \in Textos, ls = reemplazarEnPasos(n, d) PROVE Pide
  BY <1>1, <1>4, <1>8 DEF reemplazarEnPasos
<1>9. ASSUME NEW n \in Nombres, NEW d \in Textos, ls = SubmitEnPasos(n, d) PROVE Pide
  BY <1>1, <1>3, <1>9 DEF SubmitEnPasos
<1>10. ASSUME ls = Reinicio PROVE Pide
  BY <1>1, <1>3, <1>10 DEF Reinicio
<1>11. Pide
  <2> HIDE DEF Pide
  <2> QED BY <1>5, <1>6, <1>7, <1>8, <1>9, <1>10 DEF Pedida
<1> QED BY <1>11

\* The file whose call a crash interrupts is still there: escribir and Submit
\* leave the text of before, agregar at least that.
LEMMA CorteLegible ==
  ASSUME InvCorte, InvOtros, Corte, ~Libre, Existe(antes, Actual.nombre)
  PROVE  LET n == Actual.nombre
             ultima == Last(llamadas)
         IN /\ ultima.op = "escribir" /\ Head(llamadas).op # "eliminar"
               => Leido(fs', n) \in {Leido(antes, n), ultima.dato}
            /\ Actual.op = "agregar" => IsPrefix(Leido(antes, n), Leido(fs', n))
<1> DEFINE l == Actual
           n == l.nombre
           P == pendientes
           k == turno
           ls == llamadas
<1>1. /\ Arrancable(fs) /\ Base(antes) /\ Pedida(antes, ls) /\ k \in 1 .. Len(ls)
      /\ fs' \in cargar(fs) /\ (P = <<>> => k < Len(ls))
  BY DEF InvCorte, Corte
<1>2. PICK u : /\ l.op # "constructor" /\ (l.op = "escribir" => AlFinal(P))
               /\ Base(u) /\ Firme(u) /\ Situada(antes, ls, k, u)
               /\ \E t \in Hecho(u, l) : Base(t) /\ Cerca(fs, t, P) /\ AMedias(fs, u, t, P)
  BY DEF InvOtros, EnLlamada, Actual
<1>3. PICK t \in Hecho(u, l) : Base(t) /\ Cerca(fs, t, P) /\ AMedias(fs, u, t, P)
  BY <1>2
<1>4. P \in Seq(Escrituras)
  BY <1>3 DEF Cerca, Hacia
<1> DEFINE Pide ==
      /\ l.op = "agregar"
         => /\ k = 1 /\ n \in Nombres
            /\ \E c \in Bytes : Existe(antes, n) /\ Cabe(antes, n) /\ l = Llamada("agregar", n, c)
      /\ Last(ls).op = "escribir" /\ Head(ls).op # "eliminar"
         => /\ n \in Nombres
            /\ \/ k = 1 /\ l = Llamada("crearInodo", n, <<>>)
               \/ /\ k = Len(ls) /\ \E d \in Textos : l = Llamada("escribir", n, d)
                  /\ k = 1 \/ (k = 2 /\ ls[1] = Llamada("crearInodo", n, <<>>))
<1>5. Pide
  BY <1>1, QueSePidio DEF Actual
<1>6. crearInodo(antes, n) = antes
  BY DEF crearInodo
<1>7. ASSUME n \in Nombres, Intacto(antes, fs', n) PROVE Leido(fs', n) = Leido(antes, n)
  BY <1>1, <1>7, LeidoIntacto
<1>8. Existe(antes, n)
  OBVIOUS
<1> HIDE DEF l, n, P, k, ls
<1>9. ASSUME l.op = "agregar" PROVE IsPrefix(Leido(antes, n), Leido(fs', n))
  <2>1. k = 1 /\ n \in Nombres /\ Cabe(antes, n)
    BY <1>5, <1>9
  <2>2. PICK c \in Bytes : l = Llamada("agregar", n, c)
    BY <1>5, <1>9
  <2>3. u = antes /\ t = agregar(u, n, c)
    BY <1>2, <1>3, <2>1, <2>2, Hechos DEF Situada
  <2> QED BY <1>1, <1>2, <1>3, <1>8, <2>1, <2>3, AgregarTrasCorte
<1>10. ASSUME Last(ls).op = "escribir", Head(ls).op # "eliminar"
       PROVE  Leido(fs', n) = Leido(antes, n)
  <2>1. n \in Nombres
    BY <1>5, <1>10
  <2>2. CASE k = 1 /\ l = Llamada("crearInodo", n, <<>>)
    <3>1. u = antes /\ t = antes
      BY <1>2, <1>3, <1>6, <2>2, Hechos DEF Situada
    <3>2. Intacto(antes, fs', n)
      BY <1>1, <1>2, <1>3, <1>8, <2>1, <3>1, IntactoTrasCorte
    <3> QED BY <1>7, <2>1, <3>2
  <2>3. CASE /\ k = Len(ls) /\ \E d \in Textos : l = Llamada("escribir", n, d)
             /\ k = 1 \/ (k = 2 /\ ls[1] = Llamada("crearInodo", n, <<>>))
    <3>1. PICK d \in Textos : l = Llamada("escribir", n, d)
      BY <2>3
    <3>2. l.op = "escribir" /\ t \in escribir(u, n, d)
      BY <1>3, <3>1, Hechos, PartesDeLlamada
    <3>3. u = antes
      <4>1. CASE k = 1
        BY <1>2, <4>1 DEF Situada
      <4>2. CASE k = 2 /\ ls[1] = Llamada("crearInodo", n, <<>>)
        <5>1. u \in Alcanza(antes, ls, 1) /\ Alcanza(antes, ls, 1) = Hecho(antes, ls[1])
          BY <1>2, <4>2 DEF Situada, Alcanza
        <5> QED BY <1>6, <4>2, <5>1, Hechos
      <4> QED BY <2>3, <4>1, <4>2
    <3>4. Falta(P, "listas")
      <4>1. P # <<>> /\ AlFinal(P)
        BY <1>1, <1>2, <2>3, <3>2
      <4>2. Len(P) \in DOMAIN P /\ P[Len(P)].que = "listas"
        BY <1>4, <4>1 DEF AlFinal
      <4> QED BY <4>2 DEF Falta
    <3>5. /\ Existe(t, n) /\ buscarArchivoPorNombre(t, n) = buscarArchivoPorNombre(u, n)
          /\ \A b \in Usados(u) : t.datos[b] = u.datos[b]
      <4>1. \A b \in Usados(u) : t.datos[b] = u.datos[b]
        BY <1>2, <1>8, <2>1, <3>2, <3>3, EscribirRespeta
      <4>2. CASE t = u
        BY <1>8, <3>3, <4>2
      <4>3. CASE t # u
        BY <1>2, <1>8, <2>1, <3>2, <3>3, <4>1, <4>3, BaseDeEscribir
      <4> QED BY <4>1, <4>2, <4>3
    <3>6. Intacto(antes, fs', n)
      BY <1>1, <1>2, <1>3, <1>8, <2>1, <3>3, <3>4, <3>5, IntactoTrasCorte
    <3> QED BY <1>7, <2>1, <3>6
  <2> QED BY <1>5, <1>10, <2>2, <2>3
<1> QED BY <1>9, <1>10 DEF l, n, ls

\* A file whose escribir or Submit a crash interrupts reads as before, or as
\* the new text, never as a part of it; one that was being appended to keeps
\* at least the text it had.
THEOREM NombradoTrasCorte == CrashSpec => NombradoLegible
<1>1. CrashInit => InvOtros
  BY DEF CrashInit, InvOtros, Libre
<1>2. InvCorte /\ InvOtros /\ [CrashNext]_crashVars => InvOtros'
  BY PasoOtros
<1>3. InvCorte /\ InvOtros /\ [CrashNext]_crashVars
      => [Corte /\ ~Libre /\ Existe(antes, Actual.nombre)
          => LET n == Actual.nombre
                 ultima == Last(llamadas)
             IN /\ ultima.op = "escribir" /\ Head(llamadas).op # "eliminar"
                   => Leido(fs', n) \in {Leido(antes, n), ultima.dato}
                /\ Actual.op = "agregar" => IsPrefix(Leido(antes, n), Leido(fs', n))]_crashVars
  BY CorteLegible
<1> QED BY <1>1, <1>2, <1>3, InvarianteCorte, PTL DEF CrashSpec, NombradoLegible
-----------------------------------------------------------------------------
\* The bitmap on the disk is the one in memory, as far as the disk keeps it.
Guardado(s) == s.dBitmap = s.bitmap \cap Guardables

\* The calls that only add blocks or change names.
Crece(l) == l.op \in {"agregar", "renombrar"}

\* The bitmap is written before the lists of blocks.
MarcasAntes(P) ==
  \A i \in DOMAIN P : P[i].que = "bitmap" => \E j \in DOMAIN P : i < j /\ P[j].que = "listas"

\* What the disk knows of the bitmap, between any two writes: all that is in
\* memory unless its write is pending, and in a call that adds blocks at least
\* the marks of before, the new ones on the disk before the lists.
InvMarcas ==
  /\ fs.dBitmap \subseteq Guardables
  /\ Falta(pendientes, "bitmap") \/ Guardado(fs)
  /\ ~Libre /\ Crece(Actual)
       => MarcasAntes(pendientes) /\ antes.bitmap \cap Guardables \subseteq fs.dBitmap

\* agregar takes the blocks and marks one more.
LEMMA AgregarMarca ==
  ASSUME NEW s, Base(s), Firme(s), NEW n \in Nombres, NEW c, NEW t, t = agregar(s, n, c)
  PROVE  /\ s.bitmap \subseteq t.bitmap /\ Usados(t) \subseteq t.bitmap
         /\ \A i \in Slots : t.directorio[i].nombre = s.directorio[i].nombre
         /\ Guardado(s) => Guardado(t)
<1> DEFINE p == buscarArchivoPorNombre(s, n)
           bs == s.directorio[p].bloques
           b == buscarBloqueLibre(s)
           u == [s EXCEPT !.directorio[p].bloques = Append(bs, b), !.bitmap = @ \cup {b}]
<1>1. s \in Discos /\ s.directorio \in [Slots -> INodos] /\ Usados(s) \subseteq s.bitmap
  BY DEF Base, Arrancable, Firme
<1>2. ASSUME t.directorio = s.directorio, t.bitmap = s.bitmap, t.dBitmap = s.dBitmap
      PROVE  /\ s.bitmap \subseteq t.bitmap /\ Usados(t) \subseteq t.bitmap
             /\ \A i \in Slots : t.directorio[i].nombre = s.directorio[i].nombre
             /\ Guardado(s) => Guardado(t)
  BY <1>1, <1>2 DEF Usados, Guardado
<1>3. CASE t = s
  BY <1>2, <1>3
<1>4. ASSUME NEW x, NEW y, t = escribirBloques(s, x, y)
      PROVE  t.directorio = s.directorio /\ t.bitmap = s.bitmap /\ t.dBitmap = s.dBitmap
  BY <1>1, <1>4 DEF escribirBloques, Discos
<1>5. ASSUME Existe(s, n), t.directorio = u.directorio, t.bitmap = u.bitmap,
             t.dBitmap = t.bitmap \cap Guardables
      PROVE  /\ s.bitmap \subseteq t.bitmap /\ Usados(t) \subseteq t.bitmap
             /\ \A i \in Slots : t.directorio[i].nombre = s.directorio[i].nombre
             /\ Guardado(t)
  <2>1. p \in Slots
    BY <1>5, Buscar
  <2>2. bs \in Seq(DataBloques)
    BY <1>1, <2>1 DEF INodos
  <2> HIDE DEF b, p
  <2>3. /\ u.bitmap = s.bitmap \cup {b}
        /\ \A i \in Slots : u.directorio[i].nombre = s.directorio[i].nombre
        /\ \A i \in Slots : i # p => u.directorio[i].bloques = s.directorio[i].bloques
        /\ u.directorio[p].bloques = Append(bs, b)
    BY <1>1, <2>1 DEF Discos, INodos
  <2>4. \A i \in Slots : \A k \in DOMAIN s.directorio[i].bloques :
          s.directorio[i].bloques[k] \in s.bitmap
    <3>1. ASSUME NEW i \in Slots, NEW k \in DOMAIN s.directorio[i].bloques
          PROVE  s.directorio[i].bloques[k] \in Bloques
      <4>1. s.directorio[i].bloques \in Seq(DataBloques)
        BY <1>1 DEF INodos
      <4> QED BY <4>1, Constantes DEF DataBloques, Bloques
    <3> QED BY <1>1, <3>1 DEF Usados
  <2>5. \A k \in DOMAIN Append(bs, b) :
          (k \in DOMAIN bs /\ Append(bs, b)[k] = bs[k]) \/ Append(bs, b)[k] = b
    <3> HIDE DEF bs
    <3> QED BY <2>2
  <2> HIDE DEF u
  <2>6. ASSUME NEW e, e \in Usados(t) PROVE e \in s.bitmap \cup {b}
    <3>1. PICK i \in Slots : \E k \in DOMAIN t.directorio[i].bloques : t.directorio[i].bloques[k] = e
      BY <2>6 DEF Usados
    <3>2. CASE i = p
      <4>1. t.directorio[i].bloques = Append(bs, b)
        BY <1>5, <2>3, <3>2
      <4>2. PICK k \in DOMAIN Append(bs, b) : Append(bs, b)[k] = e
        BY <3>1, <4>1
      <4> HIDE DEF bs
      <4>3. e = b \/ (k \in DOMAIN bs /\ e = bs[k])
        BY <2>5, <4>2
      <4>4. \A j \in DOMAIN bs : bs[j] \in s.bitmap
        BY <2>1, <2>4 DEF bs
      <4> QED BY <4>3, <4>4
    <3>3. CASE i # p
      BY <1>5, <2>3, <2>4, <3>1, <3>3
    <3> QED BY <3>2, <3>3
  <2> QED BY <1>5, <2>3, <2>6 DEF Guardado
<1>6. CASE Existe(s, n) /\ t # s
  <2> DEFINE c1 == << <<c>> >>
  <2>1. \/ \E x, y : t = escribirBloques(s, x, y)
        \/ t = guardarDirectorio(guardarBitmap(escribirBloques(u, <<b>>, c1)))
        \/ t = escribirBloques(guardarDirectorio(guardarBitmap(u)), <<b>>, c1)
    BY <1>6, Zenon DEF agregar
  <2>2. ASSUME \/ t = guardarDirectorio(guardarBitmap(escribirBloques(u, <<b>>, c1)))
               \/ t = escribirBloques(guardarDirectorio(guardarBitmap(u)), <<b>>, c1)
        PROVE  t.directorio = u.directorio /\ t.bitmap = u.bitmap /\ t.dBitmap = t.bitmap \cap Guardables
    <3> DEFINE R == {"directorio", "bitmap", "nFiles", "dDirectorio", "dBitmap", "datos", "legible"}
    <3>1. DOMAIN s = R
      BY <1>1 DEF Discos
    <3>2. DOMAIN u = R
      BY <3>1
    <3> HIDE DEF u, c1, b
    <3>3. ASSUME NEW x, DOMAIN x = R, NEW y, NEW z
          PROVE  LET v == escribirBloques(x, y, z)
                 IN DOMAIN v = R /\ v.directorio = x.directorio /\ v.bitmap = x.bitmap /\ v.dBitmap = x.dBitmap
      BY <3>3 DEF escribirBloques
    <3>4. ASSUME NEW x, DOMAIN x = R
          PROVE  /\ LET v == guardarBitmap(x)
                    IN /\ DOMAIN v = R /\ v.directorio = x.directorio /\ v.bitmap = x.bitmap
                       /\ v.dBitmap = x.bitmap \cap Guardables
                 /\ LET v == guardarDirectorio(x)
                    IN DOMAIN v = R /\ v.directorio = x.directorio /\ v.bitmap = x.bitmap /\ v.dBitmap = x.dBitmap
      BY <3>4 DEF guardarBitmap, guardarDirectorio, Guardables
    <3> HIDE DEF R
    <3> QED BY <2>2, <3>2, <3>3, <3>4
  <2> HIDE DEF u, c1, b
  <2> QED BY <1>2, <1>4, <1>5, <1>6, <2>1, <2>2
<1>7. ~Existe(s, n) => t = s
  BY DEF agregar
<1> QED BY <1>3, <1>6, <1>7

\* What a call that only adds blocks or changes names leaves of the marks.
LEMMA CreceMarca ==
  ASSUME NEW s, Base(s), Firme(s), NEW l, Admitida(s, l), Crece(l), NEW t \in Hecho(s, l)
  PROVE  /\ s.bitmap \subseteq t.bitmap /\ Usados(t) \subseteq t.bitmap
         /\ \A i \in Slots : t.directorio[i].nombre # Vacio => s.directorio[i].nombre # Vacio
<1>1. CASE l.op = "agregar"
  <2>1. PICK n \in Nombres, c \in Bytes : l = Llamada("agregar", n, c)
    BY <1>1, PartesDeLlamada DEF Admitida
  <2>2. t = agregar(s, n, c)
    BY <2>1, PartesDeLlamada DEF Hecho
  <2> QED BY <2>2, AgregarMarca
<1>2. CASE l.op = "renombrar"
  <2>1. PICK n \in Nombres, m \in Nombres \ NombresLargos : ~Existe(s, m) /\ l = Llamada("renombrar", n, m)
    BY <1>2, PartesDeLlamada DEF Admitida
  <2>2. t = renombrar(s, n, m)
    BY <2>1, PartesDeLlamada DEF Hecho
  <2> DEFINE p == buscarArchivoPorNombre(s, n)
             w == [s EXCEPT !.directorio[p].nombre = m]
  <2>3. CASE Existe(s, n)
    <3>1. s \in Discos /\ s.directorio \in [Slots -> INodos] /\ Usados(s) \subseteq s.bitmap
      BY DEF Base, Arrancable, Firme
    <3>2. p \in Slots /\ s.directorio[p].nombre = n /\ n # Vacio
      BY <2>3, Buscar, NombresValidos
    <3>3. t = guardarDirectorio(w)
      BY <2>2, <2>3 DEF renombrar
    <3> HIDE DEF p
    <3>4. w.bitmap = s.bitmap /\ w.directorio = [s.directorio EXCEPT ![p].nombre = m]
      BY <3>1 DEF Discos
    <3>5. t.bitmap = w.bitmap /\ t.directorio = w.directorio
      BY <3>1, <3>3 DEF Discos, guardarDirectorio
    <3> HIDE DEF w
    <3>6. \A i \in Slots : t.directorio[i].bloques = s.directorio[i].bloques
      BY <3>1, <3>4, <3>5 DEF INodos
    <3>7. \A i \in Slots : i # p => t.directorio[i].nombre = s.directorio[i].nombre
      BY <3>1, <3>4, <3>5 DEF INodos
    <3>8. Usados(t) = Usados(s)
      BY <3>6 DEF Usados
    <3> QED BY <3>1, <3>2, <3>4, <3>5, <3>7, <3>8
  <2>4. CASE ~Existe(s, n)
    BY <2>2, <2>4 DEF renombrar, Firme
  <2> QED BY <2>3, <2>4
<1> QED BY <1>1, <1>2 DEF Crece

\* Every call leaves the bitmap on the disk as it is in memory.
LEMMA HechoGuardado ==
  ASSUME NEW s, Base(s), Firme(s), Guardado(s), NEW l, Admitida(s, l), NEW t \in Hecho(s, l),
         s.dBitmap \subseteq Guardables
  PROVE  Guardado(t)
<1>0. s \in Discos /\ DOMAIN s = {"directorio", "bitmap", "nFiles", "dDirectorio", "dBitmap", "datos", "legible"}
  BY DEF Base, Arrancable, Discos
<1> DEFINE R == {"directorio", "bitmap", "nFiles", "dDirectorio", "dBitmap", "datos", "legible"}
<1>8. ASSUME NEW x, DOMAIN x = R
      PROVE  /\ LET v == guardarBitmap(x) IN DOMAIN v = R /\ Guardado(v)
             /\ LET v == guardarDirectorio(x)
                IN DOMAIN v = R /\ v.bitmap = x.bitmap /\ v.dBitmap = x.dBitmap
  BY <1>8 DEF guardarBitmap, guardarDirectorio, Guardables, Guardado
<1>1. ASSUME NEW n \in Nombres, l = Llamada("crearInodo", n, <<>>) PROVE Guardado(t)
  <2>1. t = crearInodo(s, n)
    BY <1>1, PartesDeLlamada DEF Hecho
  <2>2. CASE t = s
    BY <2>2
  <2>3. CASE t # s
    <3>1. n \notin NombresLargos /\ ~Existe(s, n) /\ Existe(s, Vacio)
      BY <2>1, <2>3 DEF crearInodo
    <3> QED BY <2>1, <3>1, BaseDeCrear DEF Guardado, Guardables
  <2> QED BY <2>2, <2>3
<1>2. ASSUME NEW n \in Nombres, l = Llamada("eliminar", n, <<>>) PROVE Guardado(t)
  <2>1. t = eliminar(s, n)
    BY <1>2, PartesDeLlamada DEF Hecho
  <2>2. CASE Existe(s, n)
    BY <2>1, <2>2, BaseDeEliminar DEF Guardado, Guardables
  <2>3. CASE ~Existe(s, n)
    BY <2>1, <2>3 DEF eliminar
  <2> QED BY <2>2, <2>3
<1>3. ASSUME NEW n \in Nombres, NEW d \in Textos, Existe(s, n) \/ ~Existe(s, Vacio),
             l = Llamada("escribir", n, d)
      PROVE  Guardado(t)
  <2>1. t \in escribir(s, n, d)
    BY <1>3, PartesDeLlamada DEF Hecho
  <2>2. CASE t # s
    <3>1. Existe(s, n)
      <4>1. ASSUME ~Existe(s, n) PROVE escribir(s, n, d) = {s}
        BY <1>3, <4>1 DEF escribir
      <4> QED BY <2>1, <2>2, <4>1
    <3> QED BY <2>1, <2>2, <3>1, BaseDeEscribir DEF Guardado, Guardables
  <2> QED BY <2>2
<1>4. ASSUME NEW n \in Nombres, NEW c \in Bytes, l = Llamada("agregar", n, c) PROVE Guardado(t)
  <2>1. t = agregar(s, n, c)
    BY <1>4, PartesDeLlamada DEF Hecho
  <2> QED BY <2>1, AgregarMarca
<1>5. ASSUME NEW n \in Nombres, NEW m \in Nombres \ NombresLargos, ~Existe(s, m),
             l = Llamada("renombrar", n, m)
      PROVE  Guardado(t)
  <2>1. t = renombrar(s, n, m)
    BY <1>5, PartesDeLlamada DEF Hecho
  <2>2. CASE Existe(s, n)
    BY <1>5, <2>1, <2>2, BaseDeRenombrar DEF Guardado
  <2>3. CASE ~Existe(s, n)
    BY <2>1, <2>3 DEF renombrar
  <2> QED BY <2>2, <2>3
<1>6. ASSUME l = Llamada("destructor", Vacio, <<>>) PROVE Guardado(t)
  <2>1. t = guardarDirectorio(guardarBitmap(s))
    BY <1>6, PartesDeLlamada DEF Hecho, destructor
  <2> HIDE DEF R
  <2>2. DOMAIN s = R
    BY <1>0 DEF R
  <2> QED BY <1>8, <2>1, <2>2 DEF Guardado
<1>7. ASSUME l = Llamada("constructor", Vacio, <<>>) PROVE Guardado(t)
  <2>1. t \in cargar(s)
    BY <1>7, PartesDeLlamada DEF Hecho
  <2>2. t.bitmap = s.dBitmap /\ t.dBitmap = s.dBitmap
    BY <1>0, <2>1 DEF cargar, cargarBitmap
  <2> QED BY <2>2 DEF Guardado
<1> QED
  <2> HIDE DEF Llamada
  <2> QED BY <1>1, <1>2, <1>3, <1>4, <1>5, <1>6, <1>7 DEF Admitida

\* A call changes the memory first: the bitmap on the disk is still that of
\* before.
LEMMA DiscoQuieto ==
  ASSUME NEW s, s \in Discos, NEW l, Admitida(s, l), NEW r \in Inicios(s, l)
  PROVE  r.estado.dBitmap = s.dBitmap
<1>1. ASSUME NEW t, NEW P, r = Inicio(s, t, P) PROVE r.estado.dBitmap = s.dBitmap
  BY <1>1 DEF Inicio, EnMemoria, Discos
<1>2. ASSUME r \in SinEfecto(s) PROVE r.estado.dBitmap = s.dBitmap
  BY <1>2 DEF SinEfecto
<1>3. l.op \in {"crearInodo", "eliminar", "escribir", "agregar", "renombrar", "destructor", "constructor"}
  BY PartesDeLlamada DEF Admitida
<1>4. CASE l.op = "crearInodo"
  BY <1>1, <1>2, <1>4 DEF Inicios, IniciarCrear
<1>5. CASE l.op = "eliminar"
  BY <1>1, <1>2, <1>5 DEF Inicios, IniciarEliminar
<1>6. CASE l.op = "escribir"
  BY <1>1, <1>2, <1>6, Zenon DEF Inicios, IniciarEscribir
<1>7. CASE l.op = "agregar"
  BY <1>1, <1>2, <1>7, Zenon DEF Inicios, IniciarAgregar
<1>8. CASE l.op = "renombrar"
  BY <1>1, <1>2, <1>8 DEF Inicios, IniciarRenombrar
<1>9. CASE l.op = "destructor"
  BY <1>1, <1>9 DEF Inicios
<1>10. CASE l.op = "constructor"
  <2>1. PICK t \in cargar(s) : r = [estado |-> t, escrituras |-> <<>>]
    BY <1>10 DEF Inicios
  <2>2. t.dBitmap = s.dBitmap
    BY <2>1 DEF cargar, Discos
  <2> QED BY <2>1, <2>2
<1> QED BY <1>3, <1>4, <1>5, <1>6, <1>7, <1>8, <1>9, <1>10

\* Writes one after another keep the order of the marks.
LEMMA MarcasJuntas ==
  ASSUME NEW T, NEW X \in Seq(T), NEW Y \in Seq(T), MarcasAntes(X) \/ Falta(Y, "listas"), MarcasAntes(Y)
  PROVE  X \o Y \in Seq(T) /\ MarcasAntes(X \o Y)
<1> DEFINE R == X \o Y
           m == Len(X)
           k == Len(Y)
<1>1. /\ R \in Seq(T) /\ m \in Nat /\ k \in Nat /\ DOMAIN R = 1 .. m + k
      /\ DOMAIN X = 1 .. m /\ DOMAIN Y = 1 .. k
  OBVIOUS
<1>2. \A i \in DOMAIN X : i \in DOMAIN R /\ R[i] = X[i]
  OBVIOUS
<1>3. \A i \in DOMAIN Y : m + i \in DOMAIN R /\ R[m + i] = Y[i]
  OBVIOUS
<1> HIDE DEF R, m, k
<1>4. ASSUME NEW i \in DOMAIN R, R[i].que = "bitmap"
      PROVE  \E j \in DOMAIN R : i < j /\ R[j].que = "listas"
  <2>1. CASE i <= m
    <3>1. i \in DOMAIN X /\ X[i].que = "bitmap"
      BY <1>1, <1>2, <1>4, <2>1
    <3>2. CASE MarcasAntes(X)
      BY <1>2, <3>1, <3>2 DEF MarcasAntes
    <3>3. CASE Falta(Y, "listas")
      <4>1. PICK j \in DOMAIN Y : Y[j].que = "listas"
        BY <3>3 DEF Falta
      <4>2. i < m + j
        BY <1>1, <2>1, <4>1
      <4> QED BY <1>3, <4>1, <4>2
    <3> QED BY <3>2, <3>3
  <2>2. CASE i > m
    <3>1. i - m \in DOMAIN Y /\ i = m + (i - m)
      BY <1>1, <2>2
    <3>2. Y[i - m].que = "bitmap"
      BY <1>3, <1>4, <3>1
    <3>3. PICK j \in DOMAIN Y : i - m < j /\ Y[j].que = "listas"
      BY <3>1, <3>2 DEF MarcasAntes
    <3>4. i < m + j
      BY <1>1, <3>3
    <3> QED BY <1>3, <3>3, <3>4
  <2> QED BY <1>1, <2>1, <2>2
<1> QED BY <1>1, <1>4 DEF MarcasAntes, R

\* agregar and renombrar write the bitmap before the lists.
LEMMA CreceEnOrden ==
  ASSUME NEW s, NEW l, Admitida(s, l), Crece(l), NEW r \in Inicios(s, l)
  PROVE  MarcasAntes(r.escrituras)
<1> DEFINE D == GrabarDirectorio
           M == GrabarBitmap \o GrabarDirectorio
<1>1. MarcasAntes(<<>>) /\ MarcasAntes(D)
  BY DEF MarcasAntes, GrabarDirectorio, Escritura
<1>2. ASSUME NEW e, e.que = "bloque"
      PROVE  MarcasAntes(<<e>>) /\ MarcasAntes(<<e>> \o M) /\ MarcasAntes(M \o <<e>>)
  <2> DEFINE B == GrabarBitmap
             E == <<e>>
             T == {e, Escritura("bitmap"), Escritura("nombres"), Escritura("listas")}
  <2>1. B \in Seq(T) /\ D \in Seq(T) /\ E \in Seq(T)
    BY DEF GrabarBitmap, GrabarDirectorio
  <2>2. Falta(D, "listas")
    BY DEF GrabarDirectorio, Escritura, Falta
  <2>3. MarcasAntes(E)
    BY <1>2 DEF MarcasAntes
  <2> HIDE DEF B, D, E, T
  <2>4. M \in Seq(T) /\ MarcasAntes(M)
    BY <1>1, <2>1, <2>2, MarcasJuntas DEF B, D
  <2> HIDE DEF M
  <2>5. MarcasAntes(E \o M)
    BY ONLY <2>1, <2>3, <2>4, MarcasJuntas
  <2>6. MarcasAntes(M \o E)
    BY ONLY <2>1, <2>3, <2>4, MarcasJuntas
  <2> QED BY <2>3, <2>5, <2>6 DEF E
<1> HIDE DEF D, M
<1>3. CASE l.op = "agregar"
  <2>1. PICK n, c : r \in IniciarAgregar(s, n, c)
    BY <1>3 DEF Inicios
  <2> DEFINE t == agregar(s, n, c)
             e == EscribirBloque(Last(BloquesDe(t, n)), t.datos[Last(BloquesDe(t, n))])
             viejos == BloquesDe(s, n)
  <2>2. e.que = "bloque"
    BY DEF EscribirBloque
  <2>3. \/ r \in SinEfecto(s)
        \/ r = Inicio(s, t, IF BloquesDe(t, n) = viejos THEN <<e>>
                            ELSE IF viejos = <<>> THEN <<e>> \o M ELSE M \o <<e>>)
    BY <2>1, Zenon DEF IniciarAgregar, MetadatosDeAgregar, M
  <2> HIDE DEF t, e, viejos
  <2>4. MarcasAntes(<<e>>) /\ MarcasAntes(<<e>> \o M) /\ MarcasAntes(M \o <<e>>)
    BY <1>2, <2>2
  <2>5. ASSUME NEW P, MarcasAntes(P), r = Inicio(s, t, P) PROVE MarcasAntes(r.escrituras)
    BY <2>5 DEF Inicio
  <2>6. r \in SinEfecto(s) => MarcasAntes(r.escrituras)
    BY <1>1 DEF SinEfecto
  <2> QED BY <2>3, <2>4, <2>5, <2>6
<1>4. CASE l.op = "renombrar"
  <2>1. \/ r \in SinEfecto(s)
        \/ r = Inicio(s, renombrar(s, l.nombre, l.dato), D)
    BY <1>4 DEF Inicios, IniciarRenombrar, D
  <2> QED BY <1>1, <2>1 DEF Inicio, SinEfecto
<1> QED BY <1>3, <1>4 DEF Crece

\* agregar and renombrar are requests of one call.
LEMMA CrecePrimera ==
  ASSUME NEW s, NEW ls, Pedida(s, ls), NEW k \in 1 .. Len(ls), Crece(ls[k])
  PROVE  k = 1
<1>1. \A o, n, d : Llamada(o, n, d).op = o
  BY PartesDeLlamada
<1>2. ASSUME NEW n, NEW d, ls = reemplazarEnPasos(n, d) PROVE k = 1
  BY <1>1, <1>2 DEF reemplazarEnPasos, Crece
<1>3. ASSUME NEW n, NEW d, ls = SubmitEnPasos(n, d) PROVE k = 1
  BY <1>1, <1>3 DEF SubmitEnPasos, Crece
<1>4. ASSUME ls = Reinicio PROVE k = 1
  BY <1>1, <1>4 DEF Reinicio, Crece
<1>5. ASSUME NEW l, ls = <<l>> PROVE k = 1
  BY <1>5
<1> QED BY <1>2, <1>3, <1>4, <1>5, Zenon DEF Pedida

\* A call that starts keeps what the disk knows of the bitmap.
LEMMA MarcasAlCorrer ==
  ASSUME NEW s, NEW ls, Pedida(s, ls), NEW k \in 1 .. Len(ls), Base(s),
         Base(fs), Firme(fs), Situada(s, ls, k, fs), Guardado(fs), Correr(ls, k, s)
  PROVE  InvMarcas'
<1> DEFINE l == ls[k]
<1>1. PICK r \in Inicios(fs, l) :
        /\ fs' = r.estado
        /\ pendientes' = r.escrituras
        /\ IF r.escrituras = <<>> /\ k = Len(ls)
           THEN llamadas' = <<>> /\ turno' = 0 /\ antes' = fs'
           ELSE llamadas' = ls /\ turno' = k /\ antes' = s
  BY DEF Correr
<1>2. Admitida(fs, l)
  BY PorTurnos DEF EnTurno
<1> HIDE DEF l
<1>3. PICK t \in Hecho(fs, l) : Cerca(fs', t, pendientes')
  BY <1>1, <1>2, Iniciada DEF Bien
<1>4. fs.dBitmap \subseteq Guardables
  BY DEF Guardado
<1>5. Guardado(t)
  BY <1>2, <1>4, HechoGuardado
<1>6. fs'.dBitmap = fs.dBitmap
  <2>1. fs \in Discos
    BY DEF Base, Arrancable
  <2> QED BY <1>1, <1>2, <2>1, DiscoQuieto
<1>7. fs'.bitmap = t.bitmap /\ (Falta(pendientes', "bitmap") \/ fs'.dBitmap = t.dBitmap)
  BY <1>3 DEF Cerca
<1>8. Falta(pendientes', "bitmap") \/ Guardado(fs')
  BY <1>5, <1>7 DEF Guardado
<1>9. ASSUME ~Libre', Crece(Actual')
      PROVE  MarcasAntes(pendientes') /\ antes'.bitmap \cap Guardables \subseteq fs'.dBitmap
  <2>1. llamadas' = ls /\ turno' = k /\ antes' = s
    BY <1>1, <1>9 DEF Libre
  <2>2. Crece(l)
    BY <1>9, <2>1 DEF Actual, l
  <2>3. k = 1
    BY <2>2, CrecePrimera DEF l
  <2>4. s = fs
    BY <2>3 DEF Situada
  <2>5. MarcasAntes(pendientes')
    BY <1>1, <1>2, <2>2, CreceEnOrden
  <2> QED BY <1>6, <2>1, <2>4, <2>5 DEF Guardado
<1>10. /\ Falta(pendientes', "bitmap") = Falta(pendientes, "bitmap")'
       /\ Guardado(fs') = Guardado(fs)' /\ Crece(Actual') = Crece(Actual)'
       /\ MarcasAntes(pendientes') = MarcasAntes(pendientes)'
  BY DEF Falta, Guardado, Crece, MarcasAntes
<1> QED BY <1>4, <1>6, <1>8, <1>9, <1>10 DEF InvMarcas

\* A request that starts keeps it.
LEMMA MarcasAlLlamar ==
  ASSUME InvCorte, InvMarcas, NEW ls, Llamar(ls), Pedida(fs, ls)
  PROVE  InvMarcas'
<1>1. Base(fs) /\ 1 \in 1 .. Len(ls) /\ Correr(ls, 1, fs) /\ Sano(fs) /\ Libre
  BY Admision DEF Llamar
<1>2. Firme(fs)
  BY <1>1 DEF Sano, Firme
<1>3. Situada(fs, ls, 1, fs)
  BY DEF Situada
<1>4. Guardado(fs)
  BY <1>1 DEF InvCorte, InvMarcas, Falta
<1> QED BY <1>1, <1>2, <1>3, <1>4, MarcasAlCorrer

\* Where a call that follows another starts: between calls, nothing pending.
LEMMA EntreLlamadas ==
  ASSUME InvCorte, InvOtros, Seguir
  PROVE  /\ Base(fs) /\ Firme(fs) /\ Base(antes) /\ Pedida(antes, llamadas)
         /\ turno + 1 \in 1 .. Len(llamadas) /\ Situada(antes, llamadas, turno + 1, fs)
<1> DEFINE l == llamadas[turno]
           k == turno + 1
<1>1. ~Libre /\ pendientes = <<>>
  BY DEF Seguir
<1>2. /\ Pedida(antes, llamadas) /\ turno \in 1 .. Len(llamadas) /\ turno < Len(llamadas)
      /\ Base(antes) /\ fs \in Discos
  BY <1>1 DEF InvCorte, Arrancable
<1>3. k \in 1 .. Len(llamadas) /\ k # 1 /\ k - 1 = turno
  BY <1>2, PedidaLarga
<1>4. PICK u : /\ Base(u) /\ Firme(u) /\ Situada(antes, llamadas, turno, u)
               /\ \E t \in Hecho(u, l) : Base(t) /\ Cerca(fs, t, <<>>)
  BY <1>1 DEF InvOtros, EnLlamada
<1>5. PICK t \in Hecho(u, l) : Base(t) /\ Cerca(fs, t, <<>>)
  BY <1>4
<1>6. fs = t
  BY <1>2, <1>5, Grabado
<1>7. EnTurno(antes, llamadas, turno, u)
  BY <1>2, <1>4, PorTurnos
<1>8. Admitida(u, l) /\ l.op \in {"crearInodo", "eliminar", "destructor"} /\ t \in Alcanza(antes, llamadas, turno)
  BY <1>2, <1>5, <1>7 DEF EnTurno
<1>9. Firme(t)
  BY <1>4, <1>5, <1>8, HechaRespeta
<1> HIDE DEF l, k
<1>10. Situada(antes, llamadas, k, t)
  BY <1>3, <1>8 DEF Situada
<1> QED BY <1>2, <1>3, <1>5, <1>6, <1>9, <1>10 DEF k

\* The call that follows another keeps it.
LEMMA MarcasAlSeguir ==
  ASSUME InvCorte, InvOtros, InvMarcas, Seguir
  PROVE  InvMarcas'
<1>1. pendientes = <<>> /\ Correr(llamadas, turno + 1, antes)
  BY DEF Seguir
<1>2. Guardado(fs)
  BY <1>1 DEF InvMarcas, Falta
<1> QED BY <1>1, <1>2, EntreLlamadas, MarcasAlCorrer

\* The call in progress adds blocks or changes names: where it started, where
\* it leads.
LEMMA EnCrecida ==
  ASSUME InvCorte, InvOtros, ~Libre, Crece(Actual)
  PROVE  \E t : /\ Cerca(fs, t, pendientes) /\ AMedias(fs, antes, t, pendientes)
                /\ Base(antes) /\ Firme(antes) /\ Base(t) /\ Arrancable(fs)
                /\ antes.bitmap \subseteq t.bitmap /\ Usados(t) \subseteq t.bitmap
                /\ \A i \in Slots : t.directorio[i].nombre # Vacio
                                      => antes.directorio[i].nombre # Vacio
<1>1. /\ Arrancable(fs) /\ Base(antes) /\ Pedida(antes, llamadas) /\ turno \in 1 .. Len(llamadas)
  BY DEF InvCorte
<1>2. PICK u : /\ Base(u) /\ Firme(u) /\ Situada(antes, llamadas, turno, u)
               /\ \E t \in Hecho(u, Actual) : Base(t) /\ Cerca(fs, t, pendientes) /\ AMedias(fs, u, t, pendientes)
  BY DEF InvOtros, EnLlamada, Actual
<1>3. PICK t \in Hecho(u, Actual) : Base(t) /\ Cerca(fs, t, pendientes) /\ AMedias(fs, u, t, pendientes)
  BY <1>2
<1>4. turno = 1
  BY <1>1, CrecePrimera DEF Actual
<1>5. u = antes
  BY <1>2, <1>4 DEF Situada
<1>6. Admitida(u, Actual)
  BY <1>1, <1>2, PorTurnos DEF EnTurno, Actual
<1> QED BY <1>1, <1>2, <1>3, <1>5, <1>6, CreceMarca

\* A write keeps it.
LEMMA MarcasAlGrabar ==
  ASSUME InvCorte, InvOtros, InvMarcas, Grabar
  PROVE  InvMarcas'
<1> DEFINE P == pendientes
           e == Head(P)
<1>1. /\ P # <<>> /\ fs' \in Grabada(fs, e) /\ pendientes' = Tail(P)
      /\ IF Len(P) = 1 /\ turno = Len(llamadas)
         THEN llamadas' = <<>> /\ turno' = 0 /\ antes' = fs'
         ELSE UNCHANGED <<llamadas, turno, antes>>
  BY DEF Grabar
<1>2. /\ ~Libre /\ fs \in Discos
      /\ \E t \in Alcanza(antes, llamadas, turno) : Cerca(fs, t, P)
  BY <1>1 DEF InvCorte, Arrancable
<1>3. P \in Seq(Escrituras)
  BY <1>2 DEF Cerca, Hacia
<1>4. /\ e = P[1] /\ 1 \in DOMAIN P
      /\ \A i \in DOMAIN P : i # 1 => i - 1 \in DOMAIN Tail(P) /\ Tail(P)[i - 1] = P[i]
      /\ \A i \in DOMAIN Tail(P) : i + 1 \in DOMAIN P /\ Tail(P)[i] = P[i + 1]
      /\ \A q : Falta(P, q) => e.que = q \/ Falta(Tail(P), q)
  BY <1>1, <1>3, SinLaPrimera
<1>5. DOMAIN P \subseteq Nat /\ DOMAIN Tail(P) \subseteq Nat /\ e \in Escrituras
  BY <1>1, <1>3
<1> HIDE DEF P, e
<1>6. /\ fs'.bitmap = fs.bitmap
      /\ fs'.dBitmap = IF e.que = "bitmap" THEN fs.bitmap \cap Guardables ELSE fs.dBitmap
  <2>1. CASE e.que = "bloque"
    <3>1. fs' = escribirBloques(fs, <<e.bloque>>, <<e.texto>>)
      BY <1>1, <2>1 DEF Grabada
    <3> QED BY <1>2, <2>1, <3>1 DEF escribirBloques, Discos
  <2>2. CASE e.que = "bitmap"
    <3>1. fs' = guardarBitmap(fs)
      BY <1>1, <2>2 DEF Grabada
    <3> QED BY <1>2, <2>2, <3>1 DEF guardarBitmap, Discos, Guardables
  <2>3. CASE e.que = "nombres"
    <3>1. fs' \in NombresSobreListas(fs)
      BY <1>1, <2>3 DEF Grabada
    <3>2. PICK dir : fs' = [fs EXCEPT !.dDirectorio = dir]
      BY <3>1, Zenon DEF NombresSobreListas
    <3> QED BY <1>2, <2>3, <3>2 DEF Discos
  <2>4. CASE e.que = "listas"
    <3>1. fs' = guardarDirectorio(fs)
      BY <1>1, <2>4 DEF Grabada
    <3> QED BY <1>2, <2>4, <3>1 DEF guardarDirectorio, Discos
  <2> QED BY <1>5, <2>1, <2>2, <2>3, <2>4 DEF Escrituras
<1>7. fs'.dBitmap \subseteq Guardables
  BY <1>6 DEF InvMarcas
<1>8. Falta(pendientes', "bitmap") \/ Guardado(fs')
  <2>1. CASE e.que = "bitmap"
    BY <1>6, <2>1 DEF Guardado
  <2>2. CASE e.que # "bitmap"
    BY <1>1, <1>4, <1>6, <2>2 DEF Guardado, InvMarcas, P
  <2> QED BY <2>1, <2>2
<1>9. ASSUME ~Libre', Crece(Actual')
      PROVE  MarcasAntes(pendientes') /\ antes'.bitmap \cap Guardables \subseteq fs'.dBitmap
  <2>1. UNCHANGED <<llamadas, turno, antes>>
    BY <1>1, <1>9 DEF Libre
  <2>2. Crece(Actual)
    BY <1>9, <2>1 DEF Actual
  <2>3. MarcasAntes(P) /\ antes.bitmap \cap Guardables \subseteq fs.dBitmap
    BY <1>2, <2>2 DEF InvMarcas, P
  <2>4. antes.bitmap \subseteq fs.bitmap
    <3>1. PICK t : Cerca(fs, t, pendientes) /\ antes.bitmap \subseteq t.bitmap
      BY <1>2, <2>2, EnCrecida
    <3> QED BY <3>1 DEF Cerca
  <2>5. ASSUME NEW i \in DOMAIN Tail(P), Tail(P)[i].que = "bitmap"
        PROVE  \E j \in DOMAIN Tail(P) : i < j /\ Tail(P)[j].que = "listas"
    <3>1. i + 1 \in DOMAIN P /\ P[i + 1].que = "bitmap" /\ i \in Nat
      BY <1>4, <1>5, <2>5
    <3>2. PICK j \in DOMAIN P : i + 1 < j /\ P[j].que = "listas"
      BY <2>3, <3>1 DEF MarcasAntes
    <3>3. j # 1 /\ i < j - 1
      BY <1>5, <3>1, <3>2
    <3> QED BY <1>4, <3>2, <3>3
  <2> QED BY <1>1, <1>6, <2>1, <2>3, <2>4, <2>5 DEF MarcasAntes
<1>10. /\ Falta(pendientes', "bitmap") = Falta(pendientes, "bitmap")'
       /\ Guardado(fs') = Guardado(fs)' /\ Crece(Actual') = Crece(Actual)'
       /\ MarcasAntes(pendientes') = MarcasAntes(pendientes)'
  BY DEF Falta, Guardado, Crece, MarcasAntes
<1> QED BY <1>7, <1>8, <1>9, <1>10 DEF InvMarcas

\* A crash keeps it: the next process has the bitmap of the disk.
LEMMA MarcasAlCortar ==
  ASSUME InvCorte, InvMarcas, Corte
  PROVE  InvMarcas' /\ fs'.bitmap = fs.dBitmap
<1>1. fs \in Discos /\ fs' \in cargar(fs) /\ llamadas' = <<>>
  BY DEF InvCorte, Arrancable, Corte
<1>2. fs'.bitmap = fs.dBitmap /\ fs'.dBitmap = fs.dBitmap
  BY <1>1 DEF cargar, cargarBitmap, Discos
<1>3. Guardado(fs)'
  BY <1>2 DEF Guardado, InvMarcas
<1> QED BY <1>1, <1>2, <1>3 DEF InvMarcas, Libre

\* Every step keeps it.
LEMMA PasoMarcas ==
  ASSUME InvCorte, InvOtros, InvMarcas, [CrashNext]_crashVars
  PROVE  InvMarcas'
<1>1. ASSUME UNCHANGED crashVars PROVE InvMarcas'
  BY <1>1 DEF crashVars, InvMarcas, Libre, Actual, Crece, Falta, Guardado, MarcasAntes
<1> QED BY <1>1, MarcasAlLlamar, MarcasAlSeguir, MarcasAlGrabar, MarcasAlCortar, Peticiones

\* A crash in a call that adds blocks or changes names: every block a file has
\* after the restart, and whose entry has a place on the disk, is marked.
LEMMA CorteMarcado ==
  ASSUME InvCorte, InvOtros, InvMarcas, Corte, ~Libre, Crece(Actual)
  PROVE  Usados(fs') \cap Guardables \subseteq fs'.bitmap
<1> DEFINE P == pendientes
           u == antes
           v == fs'
<1>1. PICK t : /\ Cerca(fs, t, P) /\ AMedias(fs, u, t, P)
               /\ Base(u) /\ Firme(u) /\ Base(t) /\ Arrancable(fs)
               /\ u.bitmap \subseteq t.bitmap /\ Usados(t) \subseteq t.bitmap
               /\ \A i \in Slots : t.directorio[i].nombre # Vacio => u.directorio[i].nombre # Vacio
  BY EnCrecida
<1>2. v \in cargar(fs)
  BY DEF Corte
<1>3. Arrancable(v) /\ v.directorio = fs.dDirectorio /\ v.bitmap = fs.dBitmap
  BY <1>1, <1>2, Cargado, MarcasAlCortar
<1>4. MarcasAntes(P) /\ u.bitmap \cap Guardables \subseteq fs.dBitmap
  BY DEF InvMarcas
<1>5. Usados(u) \subseteq u.bitmap
  BY <1>1 DEF Firme
<1> HIDE DEF P, u, v
<1>6. CASE ~Falta(P, "listas")
  <2>1. v.directorio = t.directorio
    BY <1>1, <1>3, <1>6 DEF Cerca, Base
  <2>2. Usados(v) = Usados(t)
    BY <2>1 DEF Usados
  <2>3. ~Falta(P, "bitmap")
    BY <1>4, <1>6 DEF MarcasAntes, Falta
  <2>4. fs.dBitmap = fs.bitmap \cap Guardables /\ fs.bitmap = t.bitmap
    BY <1>1, <2>3 DEF InvMarcas, Guardado, Cerca, P
  <2> QED BY <1>1, <1>3, <2>2, <2>4 DEF v
<1>7. CASE Falta(P, "listas")
  <2>1. ASSUME NEW i \in Slots, NEW k \in DOMAIN v.directorio[i].bloques
        PROVE  v.directorio[i].bloques = u.directorio[i].bloques
    <3>1. CASE P[1].que # "listas"
      BY <1>1, <1>3, <1>7, <3>1 DEF AMedias, Base
    <3>2. CASE P[1].que = "listas"
      <4>1. Mezcla(fs, u, t)
        BY <1>1, <1>7, <3>2 DEF AMedias
      <4>2. v.directorio[i].nombre # Vacio
        <5>1. Compacto(v)
          BY <1>3 DEF Arrancable
        <5>2. v.nFiles \in Nat /\ i \in Nat
          BY <1>3, Constantes DEF Arrancable, Discos, Slots
        <5>3. i < v.nFiles => v.directorio[i].nombre # Vacio
          BY <5>1 DEF Compacto
        <5>4. i >= v.nFiles => v.directorio[i].bloques = <<>>
          BY <5>1 DEF Compacto
        <5> QED BY <5>2, <5>3, <5>4
      <4> QED BY <1>1, <1>3, <4>1, <4>2 DEF Mezcla
    <3> QED BY <3>1, <3>2
  <2>2. Usados(v) \subseteq Usados(u)
    BY <2>1 DEF Usados
  <2> QED BY <1>3, <1>4, <1>5, <2>2 DEF v
<1> QED BY <1>6, <1>7 DEF v

\* After a crash in agregar or renombrar no block whose bitmap entry the disk
\* keeps is in a file and free: the next write cannot be given it.
THEOREM MarcasTrasCorte == CrashSpec => MarcadosGuardados
<1>1. CrashInit => InvMarcas
  BY DEF CrashInit, Init, InvMarcas, Libre, DiscoNuevo, Guardado, Guardables
<1>2. InvCorte /\ InvOtros /\ InvMarcas /\ [CrashNext]_crashVars => InvMarcas'
  BY PasoMarcas
<1>3. CrashInit => InvOtros
  BY DEF CrashInit, InvOtros, Libre
<1>4. InvCorte /\ InvOtros /\ [CrashNext]_crashVars => InvOtros'
  BY PasoOtros
<1>5. InvCorte /\ InvOtros /\ InvMarcas /\ [CrashNext]_crashVars
      => [Corte /\ ~Libre /\ Actual.op \in {"agregar", "renombrar"}
          => (Usados(fs) \cap Guardables \subseteq fs.bitmap)']_crashVars
  <2>1. Usados(fs)' = Usados(fs')
    BY DEF Usados
  <2> QED BY <2>1, CorteMarcado DEF Crece
<1> QED BY <1>1, <1>2, <1>3, <1>4, <1>5, InvarianteCorte, PTL DEF CrashSpec, MarcadosGuardados
=============================================================================
