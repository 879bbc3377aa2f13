-------------------------- MODULE MCStorageServer ---------------------------
(***************************************************************************)
(* Two threads and three figures on a directory of two slots, so that a    *)
(* Submit may find it full.  Texts of two blocks are cut for the cache; a  *)
(* Submit and a Delete may come without their figure.                      *)
(***************************************************************************)
EXTENDS StorageServer

CONSTANTS gato, pato, oso, bx, by, h1, h2

P(a, f, t) == [accion |-> a, figura |-> f, texto |-> t]

MCTextos == {<<bx>>, <<by, by>>}
MCFiguras == {gato, pato, oso}
MCPedidos ==
  {P("List", gato, <<>>), P("Request", gato, <<>>), P("Request", pato, <<>>),
   P("Submit", gato, <<by, by>>), P("Submit", pato, <<bx>>), P("Submit", oso, <<bx>>),
   P("Submit", Vacio, <<bx>>), P("Delete", gato, <<>>), P("Delete", Vacio, <<>>),
   P("colgar", gato, <<>>), P("sin linea vacia", gato, <<>>)}
MCGatoTexto == <<bx>>
MCAnteriores == {[figura |-> pato, texto |-> <<by, by>>]}
MCHilos == {h1, h2}
MCObjetos == {<<"main", "servidor">>} \cup (MCHilos \X {"cliente", "cache"})
MCRecortar == [n \in {} |-> gato]
=============================================================================
