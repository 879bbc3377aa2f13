--------------------------- MODULE DiffieHellman ---------------------------
(***************************************************************************)
(* The key exchange of extra_credit (diffieHellman.cpp and its main).  An  *)
(* object takes a private key at random when it is made and computes its   *)
(* public one; it then raises the other's public key to its private one.   *)
(* modPow squares and multiplies, and takes the rest at every product.     *)
(* Integers are those of the code as long as (mod - 1)^2 < 2^63.           *)
(***************************************************************************)
EXTENDS Integers

CONSTANTS
  Partes,     \* the two objects of main
  Parametros  \* pairs of a prime and a generator

ASSUME DiffieValido ==
  /\ \E a, b \in Partes : a # b /\ Partes = {a, b}
  /\ \A d \in Parametros : d[1] \in Nat /\ d[1] > 4 /\ d[2] \in 1 .. d[1] - 1

VARIABLES
  primeModulus, generator,
  privateKey, publicKey,  \* of each object, 0 before it is made
  secreto                 \* what computeSharedSecret returned to it, 0 before

dhVars == <<primeModulus, generator, privateKey, publicKey, secreto>>

Restos(mod) == 0 .. mod - 1

\* A slip: the base is squared before it is used.
ElevarAntes(b, e, mod) ==
  LET ciclo[k \in 0 .. e] ==
        [r \in Restos(mod) |-> [x \in Restos(mod) |->
           IF k = 0 THEN r
           ELSE ciclo[k \div 2][IF k % 2 = 1 THEN (r * (x * x % mod)) % mod ELSE r][x * x % mod]]]
  IN ciclo[e][1][b % mod]
\* ciclo: what the loop makes of the result r and the base x with k to go.
modPow(b, e, mod) ==
  LET ciclo[k \in 0 .. e] ==
        [r \in Restos(mod) |-> [x \in Restos(mod) |->
           IF k = 0 THEN r
           ELSE ciclo[k \div 2][IF k % 2 = 1 THEN (r * x) % mod ELSE r][x * x % mod]]]
  IN ciclo[e][1][b % mod]

DHInit ==
  /\ \E d \in Parametros : primeModulus = d[1] /\ generator = d[2]
  /\ privateKey = [q \in Partes |-> 0]
  /\ publicKey = [q \in Partes |-> 0]
  /\ secreto = [q \in Partes |-> 0]

\* The constructor: any private key of the distribution.
Construir(q) ==
  /\ privateKey[q] = 0
  /\ \E k \in 2 .. primeModulus - 2 :
       /\ privateKey' = [privateKey EXCEPT ![q] = k]
       /\ publicKey' = [publicKey EXCEPT ![q] = modPow(generator, k, primeModulus)]
  /\ UNCHANGED <<primeModulus, generator, secreto>>

computeSharedSecret(q) ==
  /\ privateKey[q] # 0 /\ secreto[q] = 0
  /\ \E otra \in Partes \ {q} :
       /\ publicKey[otra] # 0
       /\ secreto' = [secreto EXCEPT ![q] = modPow(publicKey[otra], privateKey[q], primeModulus)]
  /\ UNCHANGED <<primeModulus, generator, privateKey, publicKey>>

DHNext == \E q \in Partes : Construir(q) \/ computeSharedSecret(q)

DHSpec == DHInit /\ [][DHNext]_dhVars

-----------------------------------------------------------------------------
\* The reference: one product after another.
Potencia(x, n) ==
  LET p[k \in 0 .. n] == IF k = 0 THEN 1 ELSE (p[k - 1] * x) % primeModulus IN p[n]

(***************************************************************************)
(* Whatever the private keys, an object that has computed its secret has   *)
(* the generator raised to its own key and then to the other's, though it  *)
(* only knew the other's public one: the two agree, which main compares,   *)
(* and on the number the exchange is for.                                  *)
(***************************************************************************)
SecretosIguales ==
  \A q, o \in Partes :
    q # o /\ secreto[q] # 0 =>
      /\ secreto[q] = Potencia(Potencia(generator, privateKey[q]), privateKey[o])
      /\ secreto[o] \in {0, secreto[q]}
=============================================================================
