---------------------------- MODULE MCFileSystem ----------------------------
(***************************************************************************)
(* A file system of three data blocks for TLC: disks that fill up, files   *)
(* of one direct and one indirect block, every order of slots and blocks.  *)
(***************************************************************************)
EXTENDS FileSystemLimites, TLC

CONSTANTS fa, fb, fc, largo, bx

MCNombres == {fa, fb, fc, largo}
MCLargos == {largo}
MCRecortar == [n \in {largo} |-> fa]
MCBytes == {bx}
MCTextos == {<<>>, <<bx>>, <<bx, bx, bx>>}
Simetria == Permutations({fb, fc})
=============================================================================
