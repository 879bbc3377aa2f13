---------------------------- MODULE FileSystem20 ----------------------------
(***************************************************************************)
(* The file system of 20:20251028/Server/FileSystem.cpp, as functions of   *)
(* its state: a directory whose first nFiles slots are in use, which are   *)
(* the ones kept here, a bitmap kept in memory alone, and the unit.  A     *)
(* slot that is not in use has an empty name and no block.  A file has no  *)
(* length: it ends at the first NUL of its last block, and a block is      *)
(* written here as what it holds up to that NUL.  No text has a NUL.       *)
(*                                                                         *)
(* The class of 08:20250912/FileSystem/FileSystem.cpp is the same text     *)
(* without eliminar, modificar and reemplazar, and without the blanking of *)
(* the unit, which is commented out there: the operators they share stand  *)
(* for both.                                                               *)
(***************************************************************************)
EXTENDS Integers, Sequences, FiniteSets, SequencesExt

CONSTANTS
  TBLOQUE,      \* characters in a block
  TUNIDAD,      \* blocks of the unit
  TDIRECTORIO,  \* slots of the directory
  Directos,     \* blocks an INodo has room for
  Vacio         \* the empty name

ASSUME FileSystem20Valido ==
  /\ {TBLOQUE, TUNIDAD, TDIRECTORIO, Directos} \subseteq Nat \ {0}

Bloques20 == 0 .. TUNIDAD - 1

\* The constructor blanks the unit, one that it has found included.  perdidos is
\* no variable of the code: the blocks of the slots that eliminar of an empty
\* name dropped.
FSNuevo ==
  [directorio |-> <<>>, bitmap |-> {}, unidad |-> [b \in Bloques20 |-> <<>>],
   perdidos |-> {}]

NombreEn(s, i) == IF i \in DOMAIN s.directorio THEN s.directorio[i].nombre ELSE Vacio

\* The walk goes over all the slots, and an empty name is that of any that is
\* not in use.
Lugares20(s, n) == {i \in 1 .. TDIRECTORIO : NombreEn(s, i) = n}
nombreExiste(s, n) == Lugares20(s, n) # {}
buscarArchivoPorNombre(s, n) == Min(Lugares20(s, n))

BloquesDe(s, i) == s.directorio[i].bloques
Libres20(s) == Bloques20 \ s.bitmap
buscarBloqueLibre(s) == Min(Libres20(s))

crearInodo(s, n) ==
  IF nombreExiste(s, n) \/ Len(s.directorio) = TDIRECTORIO \/ Libres20(s) = {} THEN s
  ELSE LET b == buscarBloqueLibre(s)
       IN [s EXCEPT !.directorio = Append(@, [nombre |-> n, bloques |-> <<b>>]),
                    !.bitmap = @ \cup {b}]

\* asignarBloque has room, and there is a block to give it.
PuedeTomar(s, i) == Libres20(s) # {} /\ Len(BloquesDe(s, i)) < Directos

\* asignarBloque of the first free block, and its mark.
Tomar(s, i) ==
  LET b == buscarBloqueLibre(s)
  IN [s EXCEPT !.bitmap = @ \cup {b}, !.directorio[i].bloques = Append(@, b)]

\* The byte at the first NUL of the last block, or at the beginning of a new
\* one, over whatever the block had.  A named file has a block since
\* crearInodo.  The branch that gives a block to a slot without one is not
\* reached: only an empty name finds such a slot, and a request without a figure
\* has no text either (SSLServer.cc, processResponse).
agregar(s, n, c) ==
  LET i == buscarArchivoPorNombre(s, n)
      lleno == Len(s.unidad[Last(BloquesDe(s, i))]) = TBLOQUE
      t == Tomar(s, i)
  IN IF ~nombreExiste(s, n) THEN s
     ELSE IF ~lleno THEN [s EXCEPT !.unidad[Last(BloquesDe(s, i))] = Append(@, c)]
     ELSE IF ~PuedeTomar(s, i) THEN s
     ELSE [t EXCEPT !.unidad[Last(BloquesDe(t, i))] =
                      <<c>> \o (IF @ = <<>> THEN <<>> ELSE Tail(@))]

\* One agregar per character, up to the first that fails; the ones after it
\* would fail as well.
escribir(s, n, d) ==
  LET tras[k \in 0 .. Len(d)] == IF k = 0 THEN s ELSE agregar(tras[k - 1], n, d[k])
  IN tras[Len(d)]

\* leer gives a null pointer: no slot has the name, or the one that has it has no
\* block.
SinDatos(s, n) ==
  nombreExiste(s, n) => buscarArchivoPorNombre(s, n) \notin DOMAIN s.directorio

\* leer of nbytes = TBLOQUE: what the first block holds.
leer(s, n) == s.unidad[Head(BloquesDe(s, buscarArchivoPorNombre(s, n)))]

\* A slip: the last slot is cleared before it has moved.
SinMover(d, i) == Front(d)
\* The last file goes into the hole.
Hueco(d, i) == [j \in 1 .. Len(d) - 1 |-> IF j = i THEN d[Len(d)] ELSE d[j]]

BloquesEnUso(s, i) == ToSet(BloquesDe(s, i))

\* A slip: only the first block.
SoloElPrimero(s, i) ==
  IF i \in DOMAIN s.directorio THEN {Head(BloquesDe(s, i))} ELSE {}
\* The blocks that eliminar blanks and frees: none, of a slot that is not in use.
Liberados(s, i) == IF i \in DOMAIN s.directorio THEN BloquesEnUso(s, i) ELSE {}

\* There is no last slot to clear: the code clears what is before the first.
SinUltimo(s, n) == nombreExiste(s, n) /\ s.directorio = <<>>

\* A slot that is not in use is as good as another: the last file goes and its
\* blocks stay marked.
eliminar(s, n) ==
  LET i == buscarArchivoPorNombre(s, n)
      suyos == Liberados(s, i)
  IN IF ~nombreExiste(s, n) THEN s
     ELSE [directorio |-> Hueco(s.directorio, i),
           bitmap |-> s.bitmap \ suyos,
           unidad |-> [b \in Bloques20 |-> IF b \in suyos THEN <<>> ELSE s.unidad[b]],
           perdidos |-> IF i \in DOMAIN s.directorio THEN s.perdidos
                        ELSE s.perdidos \cup BloquesEnUso(s, Len(s.directorio))]
-----------------------------------------------------------------------------
Nombres20(s) == {s.directorio[i].nombre : i \in DOMAIN s.directorio}

\* The whole text of a file: nothing in the server reads it.
Texto20(s, n) ==
  FlattenSeq([j \in DOMAIN BloquesDe(s, buscarArchivoPorNombre(s, n)) |->
                s.unidad[BloquesDe(s, buscarArchivoPorNombre(s, n))[j]]])

SinRepetir(s) ==
  \A i, j \in DOMAIN s.directorio :
    i # j => /\ s.directorio[i].nombre # s.directorio[j].nombre
             /\ BloquesEnUso(s, i) \cap BloquesEnUso(s, j) = {}

BitmapJusto(s) ==
  /\ s.bitmap = s.perdidos \cup UNION {BloquesEnUso(s, i) : i \in DOMAIN s.directorio}
  /\ \A i \in DOMAIN s.directorio : BloquesEnUso(s, i) \cap s.perdidos = {}

LibresEnBlanco(s) == \A b \in Libres20(s) : s.unidad[b] = <<>>

\* Only the last block of a file has room.
LlenosMenosElUltimo(s) ==
  \A i \in DOMAIN s.directorio :
    \A j \in 1 .. Len(BloquesDe(s, i)) - 1 : Len(s.unidad[BloquesDe(s, i)[j]]) = TBLOQUE
=============================================================================
