----------------------------- MODULE FileStore ------------------------------
(***************************************************************************)
(* What the class FileSystem promises in FileSystem.h: a bounded set of    *)
(* named files, each with the text last given to it, that no other file's  *)
(* operations touch and that a restart keeps.                              *)
(***************************************************************************)
EXTENDS Integers, Sequences, FiniteSets

CONSTANTS Nombres, Bytes, Textos, Capacidad

VARIABLE store   \* from the names of the files that exist to their text

Presentes == DOMAIN store

Con(n, d) == [m \in Presentes \cup {n} |-> IF m = n THEN d ELSE store[m]]

Init == store = [n \in {} |-> <<>>]

Crear(n) ==
  /\ n \notin Presentes
  /\ Cardinality(Presentes) < Capacidad
  /\ store' = Con(n, <<>>)

Escribir(n, d) ==
  /\ n \in Presentes
  /\ store' = Con(n, d)

Agregar(n, c) ==
  /\ n \in Presentes
  /\ store' = Con(n, Append(store[n], c))

Eliminar(n) ==
  /\ n \in Presentes
  /\ store' = [m \in Presentes \ {n} |-> store[m]]

Renombrar(n, m) ==
  /\ n \in Presentes
  /\ m \notin Presentes
  /\ store' = [x \in (Presentes \ {n}) \cup {m} |-> IF x = m THEN store[n] ELSE store[x]]

\* reemplazar deletes before it writes: when the disk is full, the file is
\* left empty.
Vaciar(n) == Escribir(n, <<>>)

Formatear == store' = [n \in {} |-> <<>>]

Next ==
  \/ \E n \in Nombres : Crear(n) \/ Eliminar(n) \/ Vaciar(n)
  \/ \E n \in Nombres, d \in Textos : Escribir(n, d)
  \/ \E n \in Nombres, c \in Bytes : Agregar(n, c)
  \/ \E n, m \in Nombres : Renombrar(n, m)
  \/ Formatear

Spec == Init /\ [][Next]_store
=============================================================================
