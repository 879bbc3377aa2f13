---------------------------- MODULE MCServidor20 ----------------------------
(***************************************************************************)
(* Two clients and three figures on a directory of two slots and a unit    *)
(* of three blocks, where an inode holds two.  A Submit with garbage after *)
(* its text is cut, and two in a row fill a file.  A pato that is cut in   *)
(* its name is an oso.                                                     *)
(***************************************************************************)
EXTENDS Servidor20

CONSTANTS gato, pato, oso, bx, by

P(x, f, t) == [accion |-> x, figura |-> f, texto |-> t]

MCPedidos ==
  {P("Request", gato, <<>>), P("Delete", gato, <<>>), P("Delete", pato, <<>>),
   P("Submit", pato, <<bx, by, bx>>)}
MCcat == <<bx>>
MCTrozos == [f \in Figuras |-> IF f = pato THEN {oso} ELSE {}]
=============================================================================
