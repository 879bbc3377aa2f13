------------------------- MODULE MCFileSystemCrash --------------------------
(***************************************************************************)
(* Two files at most, under three names, on three data blocks: every call, *)
(* a crash between any two of its writes, and every call after it.         *)
(***************************************************************************)
EXTENDS FileSystemCrash, TLC

CONSTANTS fa, fb, fc, bx

MCNombres == {fa, fb, fc}
MCRecortar == [n \in {} |-> fa]
MCBytes == {bx}
MCTextos == {<<bx>>, <<bx, bx, bx>>}
Simetria == Permutations(MCNombres)
=============================================================================
