------------------------- MODULE FileSystemLimites --------------------------
(***************************************************************************)
(* The sizes under which the file system keeps its invariants: what the    *)
(* theorems assume.  They hold of the program's own constants with files   *)
(* of up to 6 blocks (1536 characters), the largest its tests write.       *)
(***************************************************************************)
EXTENDS FileSystemUso

\* No caller hands escribir a text of more than MaxFile blocks, and an
\* inode can hold that many.
ASSUME MaxFileValido ==
  /\ MaxFile \in Nat
  /\ MaxFile <= MaxBloques
  /\ \A d \in Textos : BloquesPara(d) \in 0 .. MaxFile

\* The metadata of a directory full of the largest files fits its block:
\* 8 * (2 + 6) <= 64.
ASSUME MetadatosCaben ==
  TDIRECTORIO * (2 + (IF MaxFile <= Directos THEN Directos ELSE MaxFile))
    <= PalabrasMeta

\* The saved entries cover the whole disk, or at least every block that
\* first-fit allocation can reach while no file is larger: 3 + 9 * 6 < 512.
ASSUME BitmapAlcanza ==
  \/ CANTIDADBLOQUES <= EntradasGuardadas
  \/ firstDataBlock + (TDIRECTORIO + 1) * MaxFile < EntradasGuardadas
-----------------------------------------------------------------------------
\* The blocks of the files are among those whose bitmap entry is saved.
Bajos(s) == \A b \in Usados(s) : b < EntradasGuardadas

\* The object in memory is sound, whatever the disk holds.
MemoriaBuena(s) ==
  /\ s \in Estados
  /\ SinCruces(s)
  /\ MarcadosJustos(s)
  /\ Compacto(s)
  /\ Bajos(s)

\* The disk holds what the object holds.
EnDisco(s) ==
  /\ s.dDirectorio = s.directorio
  /\ s.dBitmap = s.bitmap
  /\ s.legible = TRUE

Bueno(s) == MemoriaBuena(s) /\ EnDisco(s)

\* The inductive invariant.
InvFileSystem == Bueno(fs)
=============================================================================
