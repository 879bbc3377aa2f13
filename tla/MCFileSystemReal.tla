-------------------------- MODULE MCFileSystemReal --------------------------
(***************************************************************************)
(* Instances whose sizes are in the proportions the program gives them,    *)
(* where the assumptions of FileSystemLimites fail.                        *)
(***************************************************************************)
EXTENDS FileSystemUso, TLC

CONSTANTS fa, fb, largo, bx

MCNombres == {fa, fb, largo}
MCLargos == {largo}
MCRecortar == [n \in {largo} |-> fa]
MCBytes == {bx}
MCTextos == {<<bx>>, <<bx, bx, bx, bx, bx, bx>>}

\* The constructor's own computation of the sizes, for blocks of TBLOQUE
\* bytes on a disk of CANTIDADBLOQUES blocks: 3 and 512 in the program.
BloquesDelBitmap == (CANTIDADBLOQUES + TBLOQUE * 8 - 1) \div (TBLOQUE * 8)
MCFirstDataBlock == 1 + BloquesDelBitmap
MCEntradasGuardadas == BloquesDelBitmap * TBLOQUE
=============================================================================
