-------------------------- MODULE MCDiffieHellman --------------------------
(***************************************************************************)
(* main's first example and two other primes, every private key.           *)
(***************************************************************************)
EXTENDS DiffieHellman

MCParametros == {<<23, 5>>, <<47, 5>>, <<7, 3>>}
=============================================================================
