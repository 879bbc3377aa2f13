------------------------------ MODULE Sockets -------------------------------
(***************************************************************************)
(* The socket classes of 27:20251128/Server: VSocket, and the Socket and   *)
(* SSLSocket made from it, as what they do to the descriptors of the       *)
(* process and to the contexts of OpenSSL.  An object owns a descriptor    *)
(* until Close, and an SSLSocket a context and an SSL as well.  They are   *)
(* for ~SSLSocket to free, but the program deletes its sockets through     *)
(* VSocket pointers and ~VSocket, which is not virtual, does nothing: what *)
(* an object has when it is deleted stays with the process.                *)
(***************************************************************************)
EXTENDS Integers, FiniteSetsExt

CONSTANTS
  Objetos,       \* the sockets the program makes
  Descriptores   \* the descriptors the process may have open

ASSUME DescriptoresValidos == Descriptores \subseteq Nat /\ Descriptores # {}

VARIABLES
  abiertos,   \* descriptors in the table of the process
  objetos,    \* each object: its class and its idSocket
  contextos   \* OpenSSL contexts, with their SSL, that the process holds

sockVars == <<abiertos, objetos, contextos>>

SinDescriptor == -1
NoHay == [clase |-> "ninguna", idSocket |-> SinDescriptor]

DescriptoresLibres == Descriptores \ abiertos
\* socket and accept give the lowest descriptor that is not open.
Menor == Min(DescriptoresLibres)

\* BuildSocket: a new descriptor for o.
BuildSocket(o, clase) ==
  /\ DescriptoresLibres # {}
  /\ abiertos' = abiertos \cup {Menor}
  /\ objetos' = [objetos EXCEPT ![o] = [clase |-> clase, idSocket |-> Menor]]

\* The one socket of a process that starts, bound and listening.
MarkPassive(o) ==
  /\ abiertos = {Min(Descriptores)}
  /\ objetos = [q \in Objetos |-> IF q = o THEN [clase |-> "Socket", idSocket |-> Min(Descriptores)]
                                 ELSE NoHay]
  /\ contextos = 0

\* It throws when the process can open no more, and accept does too.
BuildSocketFalla == DescriptoresLibres = {}

NuevoSocket(o) == BuildSocket(o, "Socket") /\ UNCHANGED contextos

\* AcceptConnection of Socket: a Socket on the descriptor accept returned.
AcceptConnection(o) == NuevoSocket(o)

\* Init makes a context and an SSL on it.
InitContext == contextos' = contextos + 1

NuevoSSLSocket(o) == BuildSocket(o, "SSLSocket") /\ InitContext

\* A slip: the object does not notice that it has closed its descriptor.
CloseSinMarcar(o) ==
  /\ abiertos' = abiertos \ {objetos[o].idSocket}
  /\ UNCHANGED objetos

Close(o) ==
  /\ abiertos' = abiertos \ {objetos[o].idSocket}
  /\ objetos' = [objetos EXCEPT ![o].idSocket = SinDescriptor]

CloseSocket(o) == Close(o) /\ UNCHANGED contextos

\* delete on a VSocket pointer: the object goes, and nothing is freed.
Borrar(o) ==
  /\ objetos' = [objetos EXCEPT ![o] = NoHay]
  /\ UNCHANGED <<abiertos, contextos>>

\* The end of the process closes everything.
CerrarTodo ==
  /\ abiertos' = {}
  /\ objetos' = [o \in Objetos |-> NoHay]
  /\ contextos' = 0

\* The objects with a descriptor, and those of class SSLSocket.
Vivos == {o \in Objetos : objetos[o].idSocket # SinDescriptor}
SSLVivos == {o \in Objetos : objetos[o].clase = "SSLSocket"}
=============================================================================
