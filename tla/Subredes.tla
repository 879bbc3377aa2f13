------------------------------ MODULE Subredes ------------------------------
(***************************************************************************)
(* The subnetting program of extra_credit (Subnet, Subnetter and IP).      *)
(* addSubnet appends a subnet of the least power of two that has its       *)
(* hosts, its own address and the broadcast; calc sorts them by size, the  *)
(* greatest first and equal ones in any order, as std::sort may, and gives *)
(* them consecutive addresses from the base up or from the end down.       *)
(*                                                                         *)
(* Addresses are unsigned and wrap at 2^Ancho (Ancho is 32 in the code).   *)
(***************************************************************************)
EXTENDS Integers, Sequences

CONSTANTS
  Ancho,       \* bits of an address
  Bases,       \* base networks
  Pedidas,     \* counts of hosts that may be asked for
  MaxSubredes  \* subnets of a run

\* Powers of two, and the addresses there are.
Dos(n) == LET p[k \in 0 .. n] == IF k = 0 THEN 1 ELSE 2 * p[k - 1] IN p[n]
Espacio == Dos(Ancho)
Direcciones == 0 .. Espacio - 1

\* A size is an int, and all of them fit in the address space.
ASSUME SubredesValido ==
  /\ Ancho \in Nat \ {0} /\ MaxSubredes \in Nat \ {0} /\ Bases \subseteq Direcciones
  /\ \A h \in Pedidas :
       /\ h \in Nat /\ 2 * (h + 2) <= Dos(Ancho - 1)
       /\ MaxSubredes * (2 * (h + 2)) < Espacio

VARIABLES
  base,      \* baseNetwork
  low2high,
  subnets    \* a sequence of [ogSize, adjSize, ip, mask]

subVars == <<base, low2high, subnets>>

\* IP's operators.
Mas(ip, n) == (ip + n) % Espacio
Menos(ip, n) == (ip - n) % Espacio

\* Subnet's constructor: doubles until the hosts and two more fit.
Ajustado(n) ==
  LET doblar[t \in {Dos(k) : k \in 0 .. Ancho}] == IF t < n + 2 THEN doblar[t * 2] ELSE t
  IN doblar[1]

\* calcMask: counts halvings.
calcMask(n) ==
  LET mitades[t \in 0 .. n] == IF t > 1 THEN 1 + mitades[t \div 2] ELSE 0
  IN Ancho - mitades[n]

getBroadcastAddress(s) == Mas(s.ip, Dos(Ancho - s.mask) - 1)
getFirstHost(s) == Mas(s.ip, 1)
getLastHost(s) == Menos(getBroadcastAddress(s), 1)

SubInit == base \in Bases /\ low2high \in BOOLEAN /\ subnets = <<>>

addSubnet(hostCount) ==
  /\ Len(subnets) < MaxSubredes
  /\ subnets' = Append(subnets,
       [ogSize |-> hostCount, adjSize |-> Ajustado(hostCount), ip |-> 0, mask |-> 0])
  /\ UNCHANGED <<base, low2high>>

\* A slip: the smallest first.
AlReves(s) ==
  {[i \in DOMAIN s |-> s[p[i]]] :
     p \in {q \in [DOMAIN s -> DOMAIN s] :
              \A i, j \in DOMAIN s : i < j => q[i] # q[j] /\ s[q[i]].adjSize <= s[q[j]].adjSize}}
\* What std::sort may leave: equal sizes come in any order.
Ordenadas(s) ==
  {[i \in DOMAIN s |-> s[p[i]]] :
     p \in {q \in [DOMAIN s -> DOMAIN s] :
              \A i, j \in DOMAIN s : i < j => q[i] # q[j] /\ s[q[i]].adjSize >= s[q[j]].adjSize}}

\* The sizes of the first n.
Suma(s, n) ==
  LET hasta[k \in 0 .. n] == IF k = 0 THEN 0 ELSE hasta[k - 1] + s[k].adjSize IN hasta[n]

\* assignAddresses: what comes before it, or it and what comes before it off the end.
Direccion(s, i) ==
  IF low2high THEN Mas(base, Suma(s, i - 1))
              ELSE Menos(Mas(base, Suma(s, Len(s))), Suma(s, i))
assignAddresses(s) ==
  [i \in DOMAIN s |-> [s[i] EXCEPT !.ip = Direccion(s, i), !.mask = calcMask(s[i].adjSize)]]

calc ==
  /\ subnets # <<>>
  /\ \E s \in Ordenadas(subnets) : subnets' = assignAddresses(s)
  /\ UNCHANGED <<base, low2high>>

SubNext == (\E h \in Pedidas : addSubnet(h)) \/ calc

SubSpec == SubInit /\ [][SubNext]_subVars

-----------------------------------------------------------------------------
Asignadas == {i \in DOMAIN subnets : subnets[i].mask # 0}
Rango(s) == {Mas(s.ip, k) : k \in 0 .. s.adjSize - 1}

(***************************************************************************)
(* The subnets that have an address, with others added since or not, are   *)
(* pieces of the base network that do not meet: each ends at its broadcast *)
(* address as its mask says, has room for its hosts between the first and  *)
(* the last, and all together take one stretch from the base without a     *)
(* gap.  Assigned from low to high, on a base that the greatest divides,   *)
(* each starts at a multiple of its own size, for which the sort is there. *)
(***************************************************************************)
SubredesBien ==
  /\ \E total \in Direcciones :
       UNION {Rango(subnets[i]) : i \in Asignadas} = {Mas(base, k) : k \in 0 .. total - 1}
  /\ \A i, j \in Asignadas : i # j => Rango(subnets[i]) \cap Rango(subnets[j]) = {}
  /\ \A i \in Asignadas :
       LET s == subnets[i] IN
       /\ getBroadcastAddress(s) = Mas(s.ip, s.adjSize - 1)
       /\ s.ogSize <= Menos(Mas(getLastHost(s), 1), getFirstHost(s))
       /\ s.adjSize < 2 * (s.ogSize + 2)
       /\ low2high /\ (\A j \in Asignadas : base % subnets[j].adjSize = 0)
            => s.ip % s.adjSize = 0
=============================================================================
