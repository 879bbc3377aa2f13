---------------------------- MODULE MCForkServer ----------------------------
(***************************************************************************)
(* Two forks on a directory with a numbered file and another.  The store   *)
(* is longer than a Read: the rest of it is a store again, with the word   *)
(* close at its end.  The list of the files, for which any long answer     *)
(* stands, is too long for a Read from the third one on.                   *)
(***************************************************************************)
EXTENDS ForkServer

CONSTANTS conejo, texto, viejo, f1, f2

C(m, a, l, x) == [metodo |-> m, arg |-> a, largo |-> l, cierra |-> x, resto |-> "store"]

MCComandos ==
  {C("fetch-list", "", FALSE, FALSE), C("store", texto, TRUE, TRUE),
   C("close", "client-socket", FALSE, TRUE)}
MCIniciales == [x \in {2, conejo} |-> viejo]
MCOtros == {conejo}
=============================================================================
