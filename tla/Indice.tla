------------------------------- MODULE Indice -------------------------------
(***************************************************************************)
(* What the Tenedor is for: it knows which servers are on and where each   *)
(* figure is.  A figure is at one server that is on, and a server that     *)
(* goes off takes exactly its own figures with it.                         *)
(***************************************************************************)
CONSTANTS Servidores, Figuras

VARIABLES activos, donde

vars == <<activos, donde>>

Init == activos = {} /\ donde = [f \in {} |-> {}]

Agregar(f, s) ==
  /\ f \notin DOMAIN donde /\ s \in activos
  /\ donde' = [g \in DOMAIN donde \cup {f} |-> IF g = f THEN s ELSE donde[g]]
  /\ UNCHANGED activos

Eliminar(f) ==
  /\ f \in DOMAIN donde
  /\ donde' = [g \in DOMAIN donde \ {f} |-> donde[g]]
  /\ UNCHANGED activos

Conectar(s) ==
  /\ s \notin activos
  /\ activos' = activos \cup {s}
  /\ UNCHANGED donde

Desconectar(s) ==
  /\ s \in activos
  /\ activos' = activos \ {s}
  /\ donde' = [g \in {h \in DOMAIN donde : donde[h] # s} |-> donde[g]]

Next ==
  \/ \E f \in Figuras : Eliminar(f) \/ \E s \in Servidores : Agregar(f, s)
  \/ \E s \in Servidores : Conectar(s) \/ Desconectar(s)

Spec == Init /\ [][Next]_vars
=============================================================================
