-------------------------- MODULE ForkServerProofs --------------------------
(***************************************************************************)
(* The figure server of week 4, for any number of forks, commands, kills   *)
(* and restarts.  It gives each file number once, whatever its directory   *)
(* held at first; a fork shows the answer to the command it sent, as long  *)
(* as no Read cuts a command or an answer; and descriptors last for        *)
(* Limite - 2 sessions.                                                    *)
(***************************************************************************)
EXTENDS ForkServer, FiniteSetTheorems, WellFoundedInduction, TLAPS

\* A finite set of numbers that has any has a greatest one: the fewest
\* members above it.
LEMMA HayMayor ==
  ASSUME NEW A \in SUBSET Nat, IsFiniteSet(A), A # {}
  PROVE  \E m \in A : \A x \in A : m >= x
<1> DEFINE Sobre(m) == {x \in A : x > m}
           T == {Sobre(m) : m \in A}
<1>1. T \subseteq FiniteSubsetsOf(A) /\ T # {}
  <2>1. FiniteSubsetsOf(A) = SUBSET A
    BY FS_FiniteSubsetsOfFinite
  <2>2. T \subseteq SUBSET A /\ T # {}
    OBVIOUS
  <2> HIDE DEF T
  <2> QED BY <2>1, <2>2
<1>2. IsWellFoundedOn(StrictSubsetOrdering(A), FiniteSubsetsOf(A))
  BY FS_StrictSubsetOrderingWellFounded
<1> HIDE DEF T
<1>3. \E U \in T : \A V \in T : <<V, U>> \notin StrictSubsetOrdering(A)
  BY <1>1, <1>2, WFMin
<1> USE DEF T
<1>4. PICK m \in A : \A x \in A : <<Sobre(x), Sobre(m)>> \notin StrictSubsetOrdering(A)
  BY <1>3
<1>5. ASSUME NEW x \in A, x > m PROVE FALSE
  <2>1. x \in Nat /\ m \in Nat /\ \A y \in A : y \in Nat
    OBVIOUS
  <2>2. Sobre(x) \subseteq Sobre(m) /\ x \in Sobre(m) /\ x \notin Sobre(x)
    <3>1. \A y \in A : y > x => y > m
      BY <1>5, <2>1
    <3>2. ~(x > x)
      BY <2>1
    <3> QED BY <1>5, <3>1, <3>2
  <2>3. Sobre(x) \in SUBSET A /\ Sobre(m) \in SUBSET A /\ Sobre(x) # Sobre(m)
    BY <2>2
  <2> HIDE DEF Sobre
  <2> QED BY <1>4, <2>2, <2>3 DEF StrictSubsetOrdering
<1> QED BY <1>5

\* No numbered file is past the counter, also while the server is off.
Contados ==
  /\ file_counter \in Nat
  /\ \A x \in Enteros : x <= file_counter

\* The constructor finds the last of the numbered files.
LEMMA UltimoEsMayor == UltimoNumero \in Nat /\ \A x \in Enteros : x <= UltimoNumero
<1>1. Enteros \in SUBSET Nat /\ IsFiniteSet(Enteros)
  <2>1. Enteros \in SUBSET Numeros
    BY DEF Enteros
  <2>2. IsFiniteSet(Numeros)
    <3>1. 1 \in Int /\ MaxNumero \in Int
      BY ForkServerValido
    <3> QED BY <3>1, FS_Interval DEF Numeros
  <2>3. Numeros \subseteq Nat
    BY ForkServerValido DEF Numeros
  <2> QED BY <2>1, <2>2, <2>3, FS_Subset
<1>2. CASE Enteros = {}
  BY <1>2 DEF UltimoNumero
<1>3. CASE Enteros # {}
  <2>1. \E m \in Enteros : \A x \in Enteros : m >= x
    BY <1>1, <1>3, HayMayor
  <2>2. Max(Enteros) \in Enteros /\ \A x \in Enteros : Max(Enteros) >= x
    BY <2>1 DEF Max
  <2>3. Max(Enteros) \in Nat /\ \A x \in Enteros : x \in Nat
    BY <1>1, <2>2
  <2> QED BY <1>3, <2>2, <2>3 DEF UltimoNumero
<1> QED BY <1>2, <1>3

\* A store takes the number after the counter, which no file has.
LEMMA PasoProcesar ==
  ASSUME Contados, NEW c, Procesar(c)
  PROVE  /\ Contados'
         /\ \A x \in DOMAIN archivos : x \in DOMAIN archivos' /\ archivos'[x] = archivos[x]
<1>1. CASE /\ file_counter < MaxNumero /\ file_counter' = gen_filename
           /\ archivos' \in write_file(gen_filename, c.arg)
  <2> DEFINE n == file_counter + 1
  <2>1. n \in Numeros /\ n \in Nat /\ n > file_counter /\ file_counter' = n
    BY <1>1, ForkServerValido DEF Contados, Numeros, gen_filename
  <2>2. n \notin DOMAIN archivos
    BY <2>1 DEF Contados, Enteros
  <2>3. \/ archivos' = archivos
        \/ archivos' = [x \in DOMAIN archivos \cup {n} |-> IF x = n THEN c.arg ELSE archivos[x]]
    BY <1>1 DEF write_file, gen_filename
  <2>4. /\ DOMAIN archivos' \subseteq DOMAIN archivos \cup {n}
        /\ \A x \in DOMAIN archivos : x \in DOMAIN archivos' /\ archivos'[x] = archivos[x]
    BY <2>2, <2>3
  <2>5. \A x \in Enteros' : x \in Enteros \/ x = n
    BY <2>4 DEF Enteros
  <2>6. \A x \in Enteros : x \in Nat
    BY DEF Enteros, Numeros
  <2> HIDE DEF n
  <2>7. \A x \in Enteros' : x <= n
    BY <2>1, <2>5, <2>6 DEF Contados
  <2> QED BY <2>1, <2>4, <2>7 DEF Contados
<1>2. CASE UNCHANGED <<archivos, file_counter>>
  BY <1>2 DEF Contados, Enteros
<1> QED BY <1>1, <1>2 DEF Procesar

\* Every other step leaves the directory alone, and a restart counts again.
LEMMA PasoContados ==
  ASSUME Contados, [Next]_vars
  PROVE  /\ Contados'
         /\ \A x \in DOMAIN archivos : x \in DOMAIN archivos' /\ archivos'[x] = archivos[x]
<1>1. ASSUME UNCHANGED <<archivos, file_counter>> PROVE Contados'
  BY <1>1 DEF Contados, Enteros
<1>2. ASSUME NEW f \in Forks, NEW k \in 1 .. Len(hacia[f]), Atender(f, k)
      PROVE  \E c : Procesar(c)
  BY <1>2 DEF Atender
<1>3. CASE ServidorArranca
  <2>1. UNCHANGED archivos /\ file_counter' = UltimoNumero
    BY <1>3 DEF ServidorArranca
  <2> QED BY <2>1, UltimoEsMayor DEF Contados, Enteros
<1>4. ASSUME NEW f \in Forks,
             \/ Conectar(f) \/ MandarFin(f) \/ Leer(f) \/ TerminarSesion(f)
             \/ ForkTermina(f) \/ ForkMuere(f) \/ \E c \in Comandos : Mandar(f, c)
      PROVE  UNCHANGED <<archivos, file_counter>>
  BY <1>4 DEF Conectar, MandarFin, Leer, LeerRespuesta, LeerCerrada, TerminarSesion, ForkTermina,
              ForkMuere, Mandar, servidorVars
<1>5. CASE Aceptar \/ AceptarFalla \/ ServidorMuere
  <2>1. UNCHANGED <<archivos, file_counter>>
    BY <1>5 DEF Aceptar, AceptarFalla, ServidorMuere
  <2> QED BY <1>1, <2>1
<1>6. CASE UNCHANGED vars
  BY <1>1, <1>6 DEF vars, servidorVars
<1> QED BY <1>1, <1>2, <1>3, <1>4, <1>5, <1>6, PasoProcesar DEF Next, Servir

\* The counter of the server stays at or past the last numbered file, through
\* stores that fail, kills and restarts.
THEOREM ContadorAlDia == Spec => []Contados
<1>1. Init => Contados
  BY UltimoEsMayor DEF Init, Contados
<1>2. Contados /\ [Next]_vars => Contados'
  BY PasoContados
<1> QED BY <1>1, <1>2, PTL DEF Spec

\* No step overwrites or loses a stored figure: no number is given twice.
THEOREM FigurasParaSiempre == Spec => NuncaSobrescribe
<1>1. Contados /\ [Next]_vars =>
        [\A x \in DOMAIN archivos : x \in DOMAIN archivos' /\ archivos'[x] = archivos[x]]_vars
  BY PasoContados
<1> QED BY <1>1, ContadorAlDia, PTL DEF Spec, NuncaSobrescribe
-----------------------------------------------------------------------------
\* What travels to the server: parts of commands and their ends of line.
Tramos ==
  {FinDeLinea(n) : n \in Nat} \cup {Pieza(n, c) : n \in Nat, c \in Comandos}
  \cup {Resto(n, c) : n \in Nat, c \in Comandos}

\* What travels to a fork.
Partes == {Parte(n, l) : n \in Nat, l \in BOOLEAN}

\* The types of what the answers and the sessions depend on.
Pasos ==
  /\ paso \in [Forks -> {"fuera", "pidiendo", "medio", "esperando"}]
  /\ conexion \in [Forks -> {"no", "en cola", "atendida", "huerfana", "cerrada"}]
Enviados == enviados \in [Forks -> Nat]
Mostradas == mostrada \in [Forks -> Nat \X Nat]
Corrientes ==  hacia \in [Forks -> Seq(Tramos)] /\ desde \in [Forks -> Seq(Partes)]
Tipos == Pasos /\ Enviados /\ Mostradas /\ Corrientes

\* A command travels in one piece, or in a full one and the rest of it.
LEMMA Tramo ==
  /\ \A n \in Nat : FinDeLinea(n) \in Tramos /\ ~EsOrden(FinDeLinea(n))
  /\ \A n \in Nat, c \in Comandos :
       /\ Piezas(n, c) \in Seq(Tramos) /\ Len(Piezas(n, c)) \in 1 .. 2
       /\ \A i \in 1 .. Len(Piezas(n, c)) :
            /\ Piezas(n, c)[i].n = n
            /\ i < Len(Piezas(n, c)) => Piezas(n, c)[i].lleno
  /\ \A t \in Tramos : t.n \in Nat
<1>1. \A n \in Nat : FinDeLinea(n) \in Tramos /\ ~EsOrden(FinDeLinea(n))
  <2>1. \A n \in Nat : FinDeLinea(n) \in Tramos
    BY DEF Tramos
  <2>2. \A n \in Nat : ~EsOrden(FinDeLinea(n))
    BY DEF FinDeLinea, EsOrden
  <2> QED BY <2>1, <2>2
<1>2. ASSUME NEW n \in Nat, NEW c \in Comandos
      PROVE  /\ Piezas(n, c) \in Seq(Tramos) /\ Len(Piezas(n, c)) \in 1 .. 2
             /\ \A i \in 1 .. Len(Piezas(n, c)) :
                  /\ Piezas(n, c)[i].n = n
                  /\ i < Len(Piezas(n, c)) => Piezas(n, c)[i].lleno
  <2> DEFINE p == Pieza(n, c)
             r == Resto(n, c)
  <2>1. p \in Tramos /\ r \in Tramos /\ p.n = n /\ r.n = n /\ p.lleno = c.largo
    <3>1. p \in Tramos /\ r \in Tramos
      BY DEF Tramos
    <3> QED BY <3>1 DEF Pieza, Resto
  <2> HIDE DEF p, r
  <2>2. CASE c.largo
    <3>1. Piezas(n, c) = <<p, r>>
      BY <2>2 DEF Piezas, p, r
    <3>2. /\ Len(<<p, r>>) = 2 /\ <<p, r>>[1] = p /\ <<p, r>>[2] = r /\ <<p, r>> \in Seq(Tramos)
          /\ \A i \in 1 .. 2 : i = 1 \/ i = 2
      BY <2>1
    <3>3. Len(<<p, r>>) \in 1 .. 2
      BY <3>2
    <3>5. p.lleno
      BY <2>1, <2>2, Zenon
    <3>4. \A i \in 1 .. 2 : <<p, r>>[i].n = n /\ (i < 2 => <<p, r>>[i].lleno)
      BY <2>1, <3>2, <3>5
    <3> QED BY <3>1, <3>2, <3>3, <3>4
  <2>3. CASE ~c.largo
    <3>1. Piezas(n, c) = <<p>>
      BY <2>3 DEF Piezas, p
    <3> QED BY <2>1, <3>1
  <2> QED BY <2>2, <2>3
<1>3. ASSUME NEW t \in Tramos PROVE t.n \in Nat
  <2>1. \E n \in Nat : t = FinDeLinea(n) \/ \E c \in Comandos : t = Pieza(n, c) \/ t = Resto(n, c)
    BY DEF Tramos
  <2>2. \A n \in Nat : FinDeLinea(n).n = n
    BY DEF FinDeLinea
  <2>3. \A n \in Nat, c \in Comandos : Pieza(n, c).n = n
    BY DEF Pieza
  <2>4. \A n \in Nat, c \in Comandos : Resto(n, c).n = n
    BY DEF Resto
  <2> QED BY <2>1, <2>2, <2>3, <2>4
<1> QED BY <1>1, <1>2, <1>3

\* Nothing in s is taken for a command.
SinOrdenes(s) == \A i \in 1 .. Len(s) : ~EsOrden(s[i])
\* Nothing in s but the command n is taken for a command, and it is seen as one
\* piece, or the server sees that it has a part of it.
Pendiente(s, n) ==
  \A i \in 1 .. Len(s) : EsOrden(s[i]) =>
    /\ s[i].n = n
    /\ s[i].lleno \/ \A j \in i + 1 .. Len(s) : ~EsOrden(s[j])

\* The answer to command n, and nothing else.
SoloDe(s, n) == s = <<Parte(n, FALSE)>> \/ s = <<Parte(n, TRUE), Parte(n, FALSE)>>

\* The answer to a command is its answer.
LEMMA Contestacion ==
  ASSUME NEW c, c.n \in Nat
  PROVE  SoloDe(Respuesta(c), c.n) /\ Respuesta(c) \in Seq(Partes)
<1> DEFINE n == c.n
           p == Parte(n, FALSE)
           q == Parte(n, TRUE)
<1>1. p \in Partes /\ q \in Partes
  <2>1. \A m \in Nat, l \in BOOLEAN : Parte(m, l) \in Partes
    BY DEF Partes
  <2> QED BY <2>1
<1>2. Respuesta(c) = <<q, p>> \/ Respuesta(c) = <<p>>
  BY DEF Respuesta
<1>3. SoloDe(Respuesta(c), n)
  BY <1>2 DEF SoloDe
<1> HIDE DEF p, q, n
<1>4. <<p>> \in Seq(Partes) /\ <<q, p>> \in Seq(Partes)
  BY <1>1
<1> QED BY <1>2, <1>3, <1>4 DEF n

\* A Read of an answer alone gives that answer, and leaves nothing if it fits.
LEMMA Toma ==
  ASSUME NEW n \in Nat, NEW s \in Seq(Partes), SoloDe(s, n), NEW k \in 1 .. Len(s),
         \A i \in 1 .. k - 1 : ~s[i].lleno, ~s[k].lleno
  PROVE  SubSeq(s, k + 1, Len(s)) = <<>>
<1> DEFINE p == Parte(n, FALSE)
           q == Parte(n, TRUE)
<1>1. ~p.lleno /\ q.lleno
  BY DEF Parte
<1>2. s = <<p>> \/ s = <<q, p>>
  BY DEF SoloDe
<1> HIDE DEF p, q
<1>3. CASE s = <<p>>
  BY <1>3
<1>4. CASE s = <<q, p>>
  <2>1. Len(s) = 2 /\ s[1] = q /\ k \in {1, 2}
    BY <1>4
  <2>2. k # 1 /\ 1 \notin 1 .. k - 1
    BY <1>1, <2>1
  <2> QED BY <2>1, <2>2
<1> QED BY <1>2, <1>3, <1>4

\* The first part of what a Read gives.
LEMMA Primero ==
  /\ \A p \in Partes : p.n \in Nat
  /\ \A n \in Nat : \A s : SoloDe(s, n) => s[1].n = n
<1>1. ASSUME NEW n \in Nat, NEW l \in BOOLEAN PROVE Parte(n, l).n = n
  BY DEF Parte
<1>2. \A p \in Partes : p.n \in Nat
  BY <1>1 DEF Partes
<1>3. ASSUME NEW n \in Nat, NEW s, SoloDe(s, n) PROVE s[1].n = n
  <2> DEFINE p == Parte(n, FALSE)
             q == Parte(n, TRUE)
  <2>1. p.n = n /\ q.n = n
    BY <1>1
  <2>2. s = <<p>> \/ s = <<q, p>>
    BY <1>3 DEF SoloDe
  <2> HIDE DEF p, q
  <2>3. s[1] = p \/ s[1] = q
    BY <2>2
  <2> QED BY <2>1, <2>3
<1> QED BY <1>2, <1>3

\* The streams of a fork.  While no Read has cut a command, at most the last
\* one it sent is under way, or else its answer is.
EnLinea(f) ==
  /\ conexion[f] = "no" => paso[f] = "fuera" /\ hacia[f] = <<>> /\ desde[f] = <<>>
  /\ conexion[f] = "cerrada" => hacia[f] = <<>>
  /\ f \notin cortados =>
       /\ paso[f] = "pidiendo" => desde[f] = <<>> /\ SinOrdenes(hacia[f])
       /\ paso[f] \in {"medio", "esperando"} =>
            \/ desde[f] = <<>> /\ Pendiente(hacia[f], enviados[f])
            \/ SoloDe(desde[f], enviados[f]) /\ SinOrdenes(hacia[f])
       /\ mostrada[f][1] = mostrada[f][2]
Lineas == \A f \in Forks : EnLinea(f)

\* What a step does to a fork it is not about.
Quieta(g) ==
  /\ paso'[g] = paso[g] /\ enviados'[g] = enviados[g] /\ mostrada'[g] = mostrada[g]
  /\ hacia'[g] = hacia[g] /\ desde'[g] = desde[g]
  /\ g \in cortados => g \in cortados'

\* Such a step keeps the streams of that fork in line.
LEMMA Quietud ==
  ASSUME NEW g \in Forks, EnLinea(g), Quieta(g),
         conexion'[g] = conexion[g] \/ conexion'[g] \in {"en cola", "atendida", "huerfana"}
  PROVE  EnLinea(g)'
BY DEF EnLinea, Quieta

\* Nothing is under way in an empty stream.
LEMMA Vacias == SinOrdenes(<<>>) /\ \A n : Pendiente(<<>>, n)
BY DEF SinOrdenes, Pendiente

\* A connection starts with both its streams empty.
LEMMA Pidiendo ==
  ASSUME Tipos, Lineas, NEW f \in Forks, Conectar(f)
  PROVE  Tipos' /\ Lineas'
<1>1. Tipos'
  BY DEF Tipos, Pasos, Enviados, Mostradas, Corrientes, Conectar
<1>2. EnLinea(f)'
  <2>1. conexion[f] = "no" /\ UNCHANGED <<hacia, desde>>
    BY DEF Conectar
  <2>2. hacia'[f] = <<>> /\ desde'[f] = <<>>
    BY <2>1 DEF Lineas, EnLinea
  <2>3. conexion'[f] = "en cola" /\ paso'[f] = "pidiendo"
    BY DEF Conectar, Tipos, Pasos
  <2>4. mostrada'[f][1] = mostrada'[f][2]
    BY DEF Conectar, Tipos, Mostradas
  <2> QED BY <2>2, <2>3, <2>4, Vacias DEF EnLinea
<1>3. ASSUME NEW g \in Forks, g # f PROVE Quieta(g) /\ conexion'[g] = conexion[g]
  BY <1>3 DEF Tipos, Pasos, Enviados, Mostradas, Corrientes, Conectar, Quieta
<1> QED BY <1>1, <1>2, <1>3, Quietud DEF Lineas

\* A fork asks for input with no command of its own under way: the one it sends
\* is the only one.
LEMMA Mandado ==
  ASSUME Tipos, Lineas, NEW f \in Forks, NEW c \in Comandos, Mandar(f, c)
  PROVE  Tipos' /\ Lineas'
<1> DEFINE n == enviados[f] + 1
           p == Piezas(n, c)
<1>1. n \in Nat /\ enviados' = [enviados EXCEPT ![f] = n] /\ paso[f] = "pidiendo"
  <2>1. enviados' = [enviados EXCEPT ![f] = @ + 1] /\ paso[f] = "pidiendo"
    BY DEF Mandar
  <2> QED BY <2>1 DEF Tipos, Enviados
<1>2. p \in Seq(Tramos) /\ Len(p) \in 1 .. 2
      /\ \A i \in 1 .. Len(p) : p[i].n = n /\ (i < Len(p) => p[i].lleno)
  BY <1>1, Tramo
<1>3. hacia' = [hacia EXCEPT ![f] = IF conexion[f] = "cerrada" THEN @ ELSE @ \o p]
  BY DEF Mandar
<1> HIDE DEF p
<1>4. Tipos'
  <2>1. Pasos'
    BY <1>1, <1>2, <1>3 DEF Tipos, Pasos, Mandar
  <2>2. Enviados'
    BY <1>1, <1>2, <1>3 DEF Tipos, Enviados, Mandar
  <2>3. Mostradas'
    BY <1>1, <1>2, <1>3 DEF Tipos, Mostradas, Mandar
  <2>4. Corrientes'
    <3>1. \A g \in Forks : hacia[g] \o p \in Seq(Tramos)
      BY <1>2 DEF Tipos, Corrientes
    <3>2. hacia' \in [Forks -> Seq(Tramos)]
      BY <1>3, <3>1 DEF Tipos, Corrientes
    <3> QED BY <3>2 DEF Tipos, Corrientes, Mandar
  <2> QED BY <2>1, <2>2, <2>3, <2>4 DEF Tipos
<1>5. EnLinea(f)'
  <2>1. /\ paso'[f] = "medio" /\ conexion' = conexion /\ desde' = desde /\ mostrada' = mostrada
        /\ cortados' = cortados /\ enviados'[f] = n /\ conexion[f] # "no"
    BY <1>1 DEF Tipos, Pasos, Enviados, Mostradas, Corrientes, Mandar, Lineas, EnLinea
  <2>2. CASE conexion[f] = "cerrada"
    BY <1>1, <1>3, <2>1, <2>2 DEF Lineas, EnLinea, Pendiente, Tipos
  <2>3. CASE conexion[f] # "cerrada"
    <3> DEFINE s == hacia[f]
    <3>1. hacia'[f] = s \o p /\ s \in Seq(Tramos)
      BY <1>3, <2>3 DEF Tipos, Pasos, Enviados, Mostradas, Corrientes
    <3>2. SUFFICES ASSUME f \notin cortados PROVE Pendiente(hacia'[f], n)
      BY <1>1, <2>1, <2>3 DEF Lineas, EnLinea
    <3>3. SinOrdenes(s)
      BY <1>1, <3>2 DEF Lineas, EnLinea
    <3> HIDE DEF s, n
    <3>4. /\ Len(s \o p) = Len(s) + Len(p) /\ Len(s) \in Nat /\ Len(p) \in 1 .. 2
          /\ \A i \in 1 .. Len(s) : ~EsOrden((s \o p)[i])
          /\ \A i \in Len(s) + 1 .. Len(s) + Len(p) :
               /\ (s \o p)[i].n = n
               /\ i < Len(s) + Len(p) => (s \o p)[i].lleno
      BY <1>2, <3>1, <3>3 DEF SinOrdenes
    <3> QED BY <3>1, <3>4 DEF Pendiente
  <2> QED BY <2>2, <2>3
<1>6. ASSUME NEW g \in Forks, g # f PROVE Quieta(g) /\ conexion'[g] = conexion[g]
  BY <1>1, <1>3, <1>6 DEF Tipos, Pasos, Enviados, Mostradas, Corrientes, Mandar, Quieta
<1> QED BY <1>4, <1>5, <1>6, Quietud DEF Lineas

\* The end of line is not taken for a command.
LEMMA FinMandado ==
  ASSUME Tipos, Lineas, NEW f \in Forks, MandarFin(f)
  PROVE  Tipos' /\ Lineas'
<1> DEFINE t == FinDeLinea(enviados[f])
<1>1. t \in Tramos /\ ~EsOrden(t)
  BY Tramo DEF Tipos, Pasos, Enviados, Mostradas, Corrientes
<1>2. hacia' = [hacia EXCEPT ![f] = IF conexion[f] = "cerrada" THEN @ ELSE Append(@, t)]
  BY DEF MandarFin
<1> HIDE DEF t
<1>3. Tipos'
  <2>1. Pasos'
    BY <1>1, <1>2 DEF Tipos, Pasos, MandarFin
  <2>2. Enviados'
    BY <1>1, <1>2 DEF Tipos, Enviados, MandarFin
  <2>3. Mostradas'
    BY <1>1, <1>2 DEF Tipos, Mostradas, MandarFin
  <2>4. Corrientes'
    BY <1>1, <1>2 DEF Tipos, Corrientes, MandarFin
  <2> QED BY <2>1, <2>2, <2>3, <2>4 DEF Tipos
<1>4. EnLinea(f)'
  <2> DEFINE s == hacia[f]
             u == hacia'[f]
  <2>1. /\ paso[f] = "medio" /\ paso'[f] = "esperando" /\ conexion' = conexion /\ desde' = desde
        /\ mostrada' = mostrada /\ cortados' = cortados /\ enviados' = enviados
    BY DEF Tipos, Pasos, Enviados, Mostradas, Corrientes, MandarFin
  <2>2. /\ SinOrdenes(s) => SinOrdenes(u)
        /\ \A n : Pendiente(s, n) => Pendiente(u, n)
    <3>1. CASE u = s
      BY <3>1
    <3>2. CASE u = Append(s, t)
      <4>1. s \in Seq(Tramos)
        BY DEF Tipos, Pasos, Enviados, Mostradas, Corrientes
      <4> HIDE DEF s, u
      <4>2. /\ Len(u) = Len(s) + 1 /\ Len(s) \in Nat /\ u[Len(s) + 1] = t
            /\ \A i \in 1 .. Len(s) : u[i] = s[i]
        BY <1>1, <3>2, <4>1
      <4> QED BY <1>1, <4>2 DEF SinOrdenes, Pendiente
    <3> QED BY <1>2, <3>1, <3>2 DEF Tipos, Pasos, Enviados, Mostradas, Corrientes
  <2>3. conexion[f] = "cerrada" => u = s
    BY <1>2 DEF Tipos, Pasos, Enviados, Mostradas, Corrientes
  <2> HIDE DEF s, u
  <2> QED BY <2>1, <2>2, <2>3 DEF Lineas, EnLinea, s, u
<1>5. ASSUME NEW g \in Forks, g # f PROVE Quieta(g) /\ conexion'[g] = conexion[g]
  BY <1>2, <1>5 DEF Tipos, Pasos, Enviados, Mostradas, Corrientes, MandarFin, Quieta
<1> QED BY <1>3, <1>4, <1>5, Quietud DEF Lineas

\* A fork that ends leaves nothing, or leaves its streams to the server.
LEMMA Ido ==
  ASSUME Tipos, Lineas, NEW f \in Forks, Irse(f), UNCHANGED <<servidorVars, enviados>>,
         cortados' \in {cortados, cortados \cup {f}},
         \/ UNCHANGED mostrada
         \/ \E m \in Nat \X Nat : /\ mostrada' = [mostrada EXCEPT ![f] = m]
                                  /\ f \notin cortados => m[1] = m[2]
  PROVE  Tipos' /\ Lineas'
<1>1. Tipos'
  <2>1. Pasos'
    BY DEF Tipos, Pasos, Irse
  <2>2. Enviados'
    BY DEF Tipos, Enviados, Irse
  <2>3. Mostradas'
    BY DEF Tipos, Mostradas, Irse
  <2>4. Corrientes'
    BY DEF Tipos, Corrientes, Irse
  <2> QED BY <2>1, <2>2, <2>3, <2>4 DEF Tipos
<1>2. EnLinea(f)'
  BY DEF Tipos, Pasos, Enviados, Mostradas, Corrientes, Irse, Lineas, EnLinea, Suya
<1>3. ASSUME NEW g \in Forks, g # f PROVE Quieta(g) /\ conexion'[g] = conexion[g]
  BY <1>3 DEF Tipos, Pasos, Enviados, Mostradas, Corrientes, Irse, Quieta
<1> QED BY <1>1, <1>2, <1>3, Quietud DEF Lineas

\* One Read of a fork in line takes the answer to its last command, and leaves
\* nothing unless it cuts it.
LEMMA Leido ==
  ASSUME Tipos, Lineas, NEW f \in Forks, Leer(f)
  PROVE  Tipos' /\ Lineas'
<1>1. CASE LeerCerrada(f)
  <2>1. CASE quit[f]
    <3>1. Irse(f) /\ UNCHANGED <<servidorVars, enviados, cortados, mostrada>>
      BY <1>1, <2>1 DEF LeerCerrada
    <3> QED BY <3>1, Ido
  <2>2. CASE ~quit[f]
    <3>1. /\ paso' = [paso EXCEPT ![f] = "pidiendo"] /\ conexion[f] = "cerrada"
          /\ paso[f] = "esperando" /\ desde[f] = <<>>
          /\ UNCHANGED <<conexion, hacia, desde, servidorVars, enviados, mostrada, cortados>>
      BY <1>1, <2>2 DEF LeerCerrada, Seguir
    <3>2. Tipos'
      BY <3>1 DEF Tipos, Pasos, Enviados, Mostradas, Corrientes, servidorVars
    <3>3. EnLinea(f)'
      <4>1. hacia[f] = <<>> /\ conexion[f] = "cerrada"
        BY <3>1 DEF Lineas, EnLinea
      <4> QED BY <3>1, <4>1, Vacias DEF Tipos, Pasos, Lineas, EnLinea
    <3>4. ASSUME NEW g \in Forks, g # f PROVE Quieta(g) /\ conexion'[g] = conexion[g]
      BY <3>1, <3>4 DEF Tipos, Pasos, Enviados, Mostradas, Corrientes, Quieta
    <3> QED BY <3>2, <3>3, <3>4, Quietud DEF Lineas
  <2> QED BY <2>1, <2>2
<1>2. CASE LeerRespuesta(f)
  <2> DEFINE m == <<enviados[f], desde[f][1].n>>
  <2>1. PICK k \in 1 .. Len(desde[f]) :
          /\ \A i \in 1 .. k - 1 : ~desde[f][i].lleno
          /\ cortados' = IF desde[f][k].lleno THEN cortados \cup {f} ELSE cortados
          /\ mostrada' = [mostrada EXCEPT ![f] = m]
          /\ \/ /\ quit[f]
                /\ Irse(f)
             \/ /\ ~quit[f]
                /\ desde' = [desde EXCEPT ![f] = SubSeq(@, k + 1, Len(@))]
                /\ Seguir(f)
    BY <1>2 DEF LeerRespuesta
  <2>2. UNCHANGED <<servidorVars, enviados>> /\ paso[f] = "esperando"
    BY <1>2 DEF LeerRespuesta
  <2>3. desde[f] \in Seq(Partes) /\ Len(desde[f]) >= 1 /\ enviados[f] \in Nat
    BY <2>1 DEF Tipos, Enviados, Corrientes
  <2>4. m \in Nat \X Nat
    <3>1. desde[f][1] \in Partes
      BY <2>3
    <3> QED BY <2>3, <3>1, Primero
  <2>5. f \notin cortados => SinOrdenes(hacia[f]) /\ m[1] = m[2]
    <3>1. SUFFICES ASSUME f \notin cortados PROVE SinOrdenes(hacia[f]) /\ m[1] = m[2]
      OBVIOUS
    <3>2. SoloDe(desde[f], enviados[f]) /\ SinOrdenes(hacia[f])
      <4>1. desde[f] # <<>>
        BY <2>3
      <4> QED BY <2>2, <3>1, <4>1 DEF Lineas, EnLinea
    <3> QED BY <2>3, <3>2, Primero
  <2>8. f \notin cortados' =>
          f \notin cortados /\ SubSeq(desde[f], k + 1, Len(desde[f])) = <<>>
    <3>1. SUFFICES ASSUME f \notin cortados'
          PROVE  f \notin cortados /\ SubSeq(desde[f], k + 1, Len(desde[f])) = <<>>
      OBVIOUS
    <3>2. f \notin cortados /\ ~desde[f][k].lleno
      BY <2>1, <3>1
    <3>3. SoloDe(desde[f], enviados[f])
      <4>1. desde[f] # <<>>
        BY <2>3
      <4> QED BY <2>2, <3>2, <4>1 DEF Lineas, EnLinea
    <3> QED BY <2>1, <2>3, <3>2, <3>3, Toma
  <2>9. cortados' \in {cortados, cortados \cup {f}}
    BY <2>1
  <2> HIDE DEF m
  <2>6. CASE quit[f]
    BY <2>1, <2>2, <2>4, <2>5, <2>6, <2>9, Ido
  <2>7. CASE ~quit[f]
    <3>1. /\ desde' = [desde EXCEPT ![f] = SubSeq(@, k + 1, Len(@))]
          /\ paso' = [paso EXCEPT ![f] = "pidiendo"] /\ UNCHANGED <<conexion, hacia>>
      BY <2>1, <2>7 DEF Seguir
    <3>2. SubSeq(desde[f], k + 1, Len(desde[f])) \in Seq(Partes)
      BY <2>1, <2>3
    <3>3. Tipos'
      BY <2>1, <2>2, <2>4, <3>1, <3>2 DEF Tipos, Pasos, Enviados, Mostradas, Corrientes, servidorVars
    <3>4. EnLinea(f)'
      <4>1. /\ desde'[f] = SubSeq(desde[f], k + 1, Len(desde[f])) /\ paso'[f] = "pidiendo"
            /\ mostrada'[f] = m /\ hacia' = hacia /\ conexion' = conexion
        BY <2>1, <3>1 DEF Tipos, Pasos, Mostradas, Corrientes
      <4>2. conexion[f] # "no"
        BY <2>2 DEF Lineas, EnLinea
      <4>3. conexion[f] = "cerrada" => hacia[f] = <<>>
        BY DEF Lineas, EnLinea
      <4>4. f \notin cortados' => desde'[f] = <<>> /\ SinOrdenes(hacia[f]) /\ m[1] = m[2]
        BY <2>5, <2>8, <4>1
      <4> QED BY <4>1, <4>2, <4>3, <4>4 DEF EnLinea
    <3>5. ASSUME NEW g \in Forks, g # f PROVE Quieta(g) /\ conexion'[g] = conexion[g]
      BY <2>1, <2>2, <2>9, <3>1, <3>5 DEF Tipos, Pasos, Enviados, Mostradas, Corrientes, Quieta
    <3> QED BY <3>3, <3>4, <3>5, Quietud DEF Lineas
  <2> QED BY <2>6, <2>7
<1> QED BY <1>1, <1>2 DEF Leer

\* A set of positions has a first one.
LEMMA Primera ==
  ASSUME NEW k \in Nat, NEW A \in SUBSET (1 .. k), A # {}
  PROVE  Min(A) \in A /\ \A j \in A : Min(A) <= j
<1> DEFINE B == {k - i : i \in A}
<1>1. \A i \in A : i \in Nat /\ i <= k /\ k - i \in Nat
  OBVIOUS
<1>2. IsFiniteSet(0 .. k) /\ B \in SUBSET (0 .. k) /\ B \in SUBSET Nat /\ B # {}
  <2>1. IsFiniteSet(0 .. k)
    <3>1. 0 \in Int /\ k \in Int
      OBVIOUS
    <3> QED BY <3>1, FS_Interval
  <2>2. \A i \in A : k - i \in 0 .. k
    BY <1>1
  <2>3. B \in SUBSET (0 .. k)
    BY <2>2
  <2>4. B # {}
    OBVIOUS
  <2>5. 0 .. k \in SUBSET Nat
    OBVIOUS
  <2> QED BY <2>1, <2>3, <2>4, <2>5
<1>3. PICK m \in B : \A x \in B : m >= x
  BY <1>2, FS_Subset, HayMayor
<1>4. PICK i \in A : m = k - i
  BY <1>3
<1>5. ASSUME NEW j \in A PROVE i <= j
  <2>1. k - i >= k - j /\ i \in Nat /\ j \in Nat
    BY <1>1, <1>3, <1>4
  <2> QED BY <2>1
<1> QED BY <1>5 DEF Min

\* The server closes the connection of f, with t as the last of its answers.
LEMMA Cerrado ==
  ASSUME Tipos, Lineas, NEW f \in Forks, CerrarFork(f), NEW t \in Seq(Partes),
         desde' = [desde EXCEPT ![f] = t], paso[f] = "fuera" => t = <<>>,
         UNCHANGED forkVars, \A g \in Forks \ {f} : g \in cortados => g \in cortados',
         \/ f \in cortados'
         \/ f \notin cortados /\ paso[f] \in {"medio", "esperando"} /\ SoloDe(t, enviados[f])
         \/ paso[f] = "fuera" /\ f \notin cortados
  PROVE  Tipos' /\ Lineas'
<1>1. /\ paso' = paso /\ enviados' = enviados /\ mostrada' = mostrada
      /\ conexion' = [conexion EXCEPT ![f] = Cerrada(f)] /\ hacia' = [hacia EXCEPT ![f] = <<>>]
  BY DEF CerrarFork, forkVars
<1>2. Tipos'
  <2>1. Pasos'
    BY <1>1 DEF Tipos, Pasos, Cerrada
  <2>2. Enviados' /\ Mostradas'
    BY <1>1 DEF Tipos, Enviados, Mostradas
  <2>3. Corrientes'
    <3>1. hacia' \in [Forks -> Seq(Tramos)]
      BY <1>1 DEF Tipos, Corrientes
    <3>2. desde' \in [Forks -> Seq(Partes)]
      BY DEF Tipos, Corrientes
    <3> QED BY <3>1, <3>2 DEF Corrientes
  <2> QED BY <2>1, <2>2, <2>3 DEF Tipos
<1>3. EnLinea(f)'
  <2>1. /\ hacia'[f] = <<>> /\ desde'[f] = t /\ conexion'[f] = Cerrada(f)
        /\ paso[f] \in {"fuera", "pidiendo", "medio", "esperando"}
    BY <1>1 DEF Tipos, Pasos, Corrientes
  <2>2. f \notin cortados' => mostrada[f][1] = mostrada[f][2]
    BY DEF Lineas, EnLinea
  <2> QED BY <1>1, <2>1, <2>2, Vacias DEF EnLinea, Cerrada
<1>4. ASSUME NEW g \in Forks, g # f PROVE Quieta(g) /\ conexion'[g] = conexion[g]
  BY <1>1, <1>4 DEF Tipos, Pasos, Corrientes, Quieta
<1> QED BY <1>2, <1>3, <1>4, Quietud DEF Lineas

\* A Read of the server that cuts nothing takes the whole of the last command
\* and answers that one.
LEMMA Atendido ==
  ASSUME Tipos, Lineas, NEW f \in Forks, NEW k \in 1 .. Len(hacia[f]), Atender(f, k)
  PROVE  Tipos' /\ Lineas'
<1> DEFINE s == hacia[f]
           leido == SubSeq(s, 1, k)
           ordenes == {i \in 1 .. k : EsOrden(leido[i])}
           c == IF ordenes = {} THEN leido[1] ELSE leido[Min(ordenes)]
           cierra == \E i \in 1 .. k : leido[i].cierra
           resto == SubSeq(s, k + 1, Len(s))
           t == IF paso[f] = "fuera" THEN <<>> ELSE desde[f] \o Respuesta(c)
<1>1. /\ desde' = [desde EXCEPT ![f] = IF paso[f] = "fuera" THEN <<>> ELSE @ \o Respuesta(c)]
      /\ cortados' = IF ordenes = {} \/ c.lleno THEN cortados \cup {f} ELSE cortados
      /\ UNCHANGED forkVars
  BY DEF Atender, Contestar
<1>2. /\ cierra => CerrarFork(f)
      /\ ~cierra => /\ hacia' = [hacia EXCEPT ![f] = resto]
                    /\ conexion' = conexion
  BY DEF Atender
<1>3. /\ s \in Seq(Tramos) /\ desde[f] \in Seq(Partes) /\ enviados[f] \in Nat
      /\ paso[f] \in {"fuera", "pidiendo", "medio", "esperando"}
  BY DEF Tipos, Pasos, Enviados, Corrientes
<1>4. k \in Nat /\ k >= 1 /\ k <= Len(s) /\ Len(s) \in Nat
  BY <1>3
<1>5. /\ \A i \in 1 .. k : leido[i] = s[i] /\ s[i] \in Tramos
      /\ resto \in Seq(Tramos) /\ Len(resto) = Len(s) - k
      /\ \A i \in 1 .. Len(resto) : resto[i] = s[k + i]
  BY <1>3, <1>4
<1>6. ordenes # {} => Min(ordenes) \in ordenes
  <2>1. ordenes \in SUBSET (1 .. k)
    OBVIOUS
  <2> HIDE DEF ordenes
  <2> QED BY <1>4, <2>1, Primera
<1>7. c \in Tramos
  <2>1. 1 \in 1 .. k /\ \A i \in 1 .. k : leido[i] \in Tramos
    BY <1>4, <1>5
  <2>2. ordenes # {} => Min(ordenes) \in 1 .. k
    BY <1>6
  <2> HIDE DEF leido, ordenes
  <2> QED BY <2>1, <2>2
<1>8. c.n \in Nat
  BY <1>7, Tramo
<1>9. t \in Seq(Partes) /\ SoloDe(Respuesta(c), c.n)
  <2> HIDE DEF c
  <2>1. Respuesta(c) \in Seq(Partes) /\ SoloDe(Respuesta(c), c.n)
    BY <1>8, Contestacion
  <2> HIDE DEF s
  <2> QED BY <1>3, <2>1
<1>10. f \notin cortados' =>
        /\ f \notin cortados
        /\ paso[f] # "fuera" => /\ SinOrdenes(resto) /\ paso[f] \in {"medio", "esperando"}
                                /\ SoloDe(t, enviados[f])
  <2>1. SUFFICES ASSUME f \notin cortados'
        PROVE  /\ f \notin cortados
               /\ paso[f] # "fuera" => /\ SinOrdenes(resto)
                                       /\ paso[f] \in {"medio", "esperando"}
                                       /\ SoloDe(t, enviados[f])
    OBVIOUS
  <2>2. f \notin cortados /\ ordenes # {} /\ ~c.lleno
    BY <1>1, <2>1
  <2> DEFINE i == Min(ordenes)
  <2>3. i \in 1 .. k /\ EsOrden(s[i]) /\ c = s[i]
    BY <1>5, <1>6, <2>2
  <2>4. SUFFICES ASSUME paso[f] # "fuera"
        PROVE  SinOrdenes(resto) /\ paso[f] \in {"medio", "esperando"} /\ SoloDe(t, enviados[f])
    BY <2>2
  <2> HIDE DEF s, leido, ordenes, c, resto, i
  <2>5. ~SinOrdenes(s)
    BY <1>4, <2>3 DEF SinOrdenes
  <2>6. paso[f] \in {"medio", "esperando"} /\ desde[f] = <<>> /\ Pendiente(s, enviados[f])
    BY <1>3, <2>2, <2>4, <2>5 DEF Lineas, EnLinea, s
  <2>7. c.n = enviados[f] /\ \A j \in i + 1 .. Len(s) : ~EsOrden(s[j])
    BY <1>4, <2>2, <2>3, <2>6 DEF Pendiente
  <2>8. SinOrdenes(resto)
    <3>1. SUFFICES ASSUME NEW j \in 1 .. Len(resto)
          PROVE  ~EsOrden(resto[j])
      BY DEF SinOrdenes
    <3>2. resto[j] = s[k + j] /\ k + j \in i + 1 .. Len(s)
      BY <1>4, <1>5, <2>3
    <3> QED BY <2>7, <3>2
  <2>9. t = Respuesta(c)
    <3>1. t = <<>> \o Respuesta(c)
      BY <2>4, <2>6
    <3>2. Respuesta(c) \in Seq(Partes)
      BY <1>8, Contestacion
    <3> QED BY <3>1, <3>2
  <2> QED BY <1>9, <2>6, <2>7, <2>8, <2>9
<1> HIDE DEF leido, ordenes, c, cierra, resto
<1>11. desde' = [desde EXCEPT ![f] = t]
  BY <1>1 DEF Tipos, Corrientes
<1>12. \A g \in Forks \ {f} : g \in cortados => g \in cortados'
  BY <1>1
<1>13. CASE cierra
  BY <1>1, <1>2, <1>9, <1>10, <1>11, <1>12, <1>13, Cerrado, <1>3
<1>14. CASE ~cierra
  <2>1. hacia' = [hacia EXCEPT ![f] = resto] /\ conexion' = conexion
    BY <1>2, <1>14
  <2> HIDE DEF t
  <2>2. Tipos'
    <3>1. Pasos' /\ Enviados' /\ Mostradas'
      BY <1>1, <2>1 DEF Tipos, Pasos, Enviados, Mostradas, forkVars
    <3>2. hacia' \in [Forks -> Seq(Tramos)] /\ desde' \in [Forks -> Seq(Partes)]
      BY <1>5, <1>9, <1>11, <2>1 DEF Tipos, Corrientes
    <3> QED BY <3>1, <3>2 DEF Tipos, Corrientes
  <2>3. EnLinea(f)'
    <3>1. hacia'[f] = resto /\ desde'[f] = t /\ paso' = paso /\ enviados' = enviados
          /\ mostrada' = mostrada
      BY <1>1, <1>11, <2>1 DEF Tipos, Corrientes, forkVars
    <3>2. conexion[f] # "no" /\ conexion[f] # "cerrada"
      <4>1. hacia[f] # <<>>
        BY <1>3, <1>4
      <4> QED BY <4>1 DEF Lineas, EnLinea
    <3>3. f \notin cortados' => mostrada[f][1] = mostrada[f][2]
      BY <1>10 DEF Lineas, EnLinea
    <3> QED BY <1>10, <2>1, <3>1, <3>2, <3>3 DEF EnLinea
  <2>4. ASSUME NEW g \in Forks, g # f PROVE Quieta(g) /\ conexion'[g] = conexion[g]
    BY <1>1, <1>11, <1>12, <2>1, <2>4 DEF Tipos, Corrientes, Quieta, forkVars
  <2> QED BY <2>2, <2>3, <2>4, Quietud DEF Lineas
<1> QED BY <1>13, <1>14

\* The end of a session whose fork has gone.
LEMMA SesionTerminada ==
  ASSUME Tipos, Lineas, NEW f \in Forks, TerminarSesion(f)
  PROVE  Tipos' /\ Lineas'
<1>1. /\ CerrarFork(f) /\ desde' = [desde EXCEPT ![f] = <<>>] /\ paso[f] = "fuera"
      /\ UNCHANGED <<forkVars, cortados>>
  BY DEF TerminarSesion
<1>2. <<>> \in Seq(Partes)
  OBVIOUS
<1> QED BY <1>1, <1>2, Cerrado

\* Accept changes no stream.
LEMMA Aceptado ==
  ASSUME Tipos, Lineas, cola \in Seq(Forks), Aceptar \/ AceptarFalla
  PROVE  Tipos' /\ Lineas'
<1> DEFINE f == Head(cola)
<1>1. UNCHANGED <<paso, enviados, mostrada, hacia, desde, cortados>>
  BY DEF Aceptar, AceptarFalla, forkVars
<1>2. PICK x \in {"atendida", "huerfana"} : conexion' = [conexion EXCEPT ![f] = x]
  BY DEF Aceptar, AceptarFalla
<1>3. Tipos'
  BY <1>1, <1>2 DEF Tipos, Pasos, Enviados, Mostradas, Corrientes
<1>4. ASSUME NEW g \in Forks
      PROVE  Quieta(g) /\ (conexion'[g] = conexion[g] \/ conexion'[g] \in {"atendida", "huerfana"})
  BY <1>1, <1>2 DEF Quieta, Tipos, Pasos
<1> QED BY <1>3, <1>4, Quietud DEF Lineas

\* The server dies and what was under way to it is lost.
LEMMA Matado ==
  ASSUME Tipos, Lineas, ServidorMuere
  PROVE  Tipos' /\ Lineas'
<1>1. /\ conexion' = [f \in Forks |-> IF conexion[f] = "no" THEN "no" ELSE Cerrada(f)]
      /\ hacia' = [f \in Forks |-> <<>>]
      /\ desde' = [f \in Forks |-> IF paso[f] = "fuera" THEN <<>> ELSE desde[f]]
      /\ UNCHANGED <<paso, enviados, mostrada, cortados>>
  BY DEF ServidorMuere, forkVars
<1>2. Tipos'
  <2>1. Pasos'
    BY <1>1 DEF Tipos, Pasos, Cerrada
  <2>2. Enviados' /\ Mostradas'
    BY <1>1 DEF Tipos, Enviados, Mostradas
  <2>3. hacia' \in [Forks -> Seq(Tramos)]
    BY <1>1
  <2>4. desde' \in [Forks -> Seq(Partes)]
    BY <1>1 DEF Tipos, Corrientes
  <2> QED BY <2>1, <2>2, <2>3, <2>4 DEF Tipos, Corrientes
<1>3. ASSUME NEW f \in Forks PROVE EnLinea(f)'
  <2>1. /\ hacia'[f] = <<>> /\ paso[f] # "fuera" => desde'[f] = desde[f]
        /\ paso[f] = "fuera" => desde'[f] = <<>>
        /\ conexion'[f] = IF conexion[f] = "no" THEN "no" ELSE Cerrada(f)
    BY <1>1
  <2>2. EnLinea(f)
    BY DEF Lineas
  <2> QED BY <1>1, <2>1, <2>2, Vacias DEF EnLinea, Cerrada
<1> QED BY <1>2, <1>3 DEF Lineas

\* Only forks wait to be accepted.
LEMMA PasoCola ==
  ASSUME cola \in Seq(Forks), [Next]_vars
  PROVE  cola' \in Seq(Forks)
<1>1. ASSUME NEW f \in Forks, Conectar(f) PROVE cola' \in Seq(Forks)
  <2>1. cola' = Append(cola, f)
    BY <1>1 DEF Conectar
  <2> QED BY <2>1
<1>2. CASE Aceptar \/ AceptarFalla
  <2>1. cola' = Tail(cola) /\ cola # <<>>
    BY <1>2 DEF Aceptar, AceptarFalla
  <2> QED BY <2>1
<1>3. CASE ServidorMuere
  <2>1. cola' = <<>>
    BY <1>3 DEF ServidorMuere
  <2> QED BY <2>1
<1>4. ASSUME NEW f \in Forks,
             \/ MandarFin(f) \/ Leer(f) \/ Servir(f) \/ ForkTermina(f) \/ ForkMuere(f)
             \/ \E c \in Comandos : Mandar(f, c)
      PROVE  UNCHANGED cola
  BY <1>4 DEF MandarFin, Leer, LeerRespuesta, LeerCerrada, Servir, Atender, TerminarSesion,
              ForkTermina, ForkMuere, Mandar, servidorVars
<1>5. CASE ServidorArranca \/ UNCHANGED vars
  BY <1>5 DEF ServidorArranca, vars, servidorVars
<1> QED BY <1>1, <1>2, <1>3, <1>4, <1>5 DEF Next

\* The inductive invariant of the streams.
EnOrden == Tipos /\ Lineas /\ cola \in Seq(Forks)

\* Every step keeps the streams in line.
LEMMA PasoEnOrden ==
  ASSUME EnOrden, [Next]_vars
  PROVE  EnOrden'
<1> USE DEF EnOrden
<1>1. ASSUME NEW f \in Forks, Conectar(f) PROVE Tipos' /\ Lineas'
  BY <1>1, Pidiendo
<1>2. ASSUME NEW f \in Forks, NEW c \in Comandos, Mandar(f, c) PROVE Tipos' /\ Lineas'
  BY <1>2, Mandado
<1>3. ASSUME NEW f \in Forks, MandarFin(f) PROVE Tipos' /\ Lineas'
  BY <1>3, FinMandado
<1>4. ASSUME NEW f \in Forks, Leer(f) PROVE Tipos' /\ Lineas'
  BY <1>4, Leido
<1>5. ASSUME NEW f \in Forks, ForkTermina(f) \/ ForkMuere(f) PROVE Tipos' /\ Lineas'
  <2>1. Irse(f) /\ UNCHANGED <<servidorVars, enviados, cortados, mostrada>>
    BY <1>5 DEF ForkTermina, ForkMuere
  <2> QED BY <2>1, Ido
<1>6. ASSUME NEW f \in Forks, Servir(f) PROVE Tipos' /\ Lineas'
  BY <1>6, Atendido, SesionTerminada DEF Servir
<1>7. ASSUME Aceptar \/ AceptarFalla PROVE Tipos' /\ Lineas'
  BY <1>7, Aceptado
<1>8. ASSUME ServidorMuere PROVE Tipos' /\ Lineas'
  BY <1>8, Matado
<1>9. ASSUME ServidorArranca \/ UNCHANGED vars PROVE Tipos' /\ Lineas'
  <2>1. UNCHANGED <<paso, conexion, enviados, mostrada, hacia, desde, cortados>>
    BY <1>9 DEF ServidorArranca, vars, servidorVars, forkVars
  <2>2. Tipos'
    BY <2>1 DEF Tipos, Pasos, Enviados, Mostradas, Corrientes
  <2> QED BY <2>1, <2>2 DEF Lineas, EnLinea
<1> QED BY <1>1, <1>2, <1>3, <1>4, <1>5, <1>6, <1>7, <1>8, <1>9, PasoCola DEF Next

\* The streams are in line in every state of the system.
LEMMA EnOrdenSiempre == Spec => []EnOrden
<1>1. Init => EnOrden
  <2> SUFFICES ASSUME Init PROVE EnOrden
    OBVIOUS
  <2> USE DEF Init
  <2>1. Pasos /\ Enviados /\ Corrientes /\ cola \in Seq(Forks)
    BY DEF Pasos, Enviados, Corrientes
  <2>2. Mostradas
    BY DEF Mostradas
  <2>3. ASSUME NEW f \in Forks PROVE EnLinea(f)
    <3>1. /\ conexion[f] = "no" /\ paso[f] = "fuera" /\ hacia[f] = <<>> /\ desde[f] = <<>>
      OBVIOUS
    <3>2. mostrada[f][1] = mostrada[f][2]
      OBVIOUS
    <3> QED BY <3>1, <3>2 DEF EnLinea
  <2> QED BY <2>1, <2>2, <2>3 DEF EnOrden, Tipos, Lineas
<1> QED BY <1>1, PasoEnOrden, PTL DEF Spec

\* The answer a fork shows is that of the command it has just sent, or a part of
\* it, until a Read of its connection takes an end of line alone, a part of a
\* command or the first part of an answer longer than a Read.
THEOREM RespuestaSuya == Spec => []RespuestaPropia
<1>1. EnOrden => RespuestaPropia
  BY DEF EnOrden, Lineas, EnLinea, RespuestaPropia
<1> QED BY <1>1, EnOrdenSiempre, PTL

\* The descriptors: that of Listen, one for each session since the start, and one
\* more for the session under way.  They end at the limit, with one connection left
\* open, and after Limite - 2 sessions.
SinHuerfanas == \A f \in Forks : conexion[f] # "huerfana"
Ocupado == IF atiende = Nadie THEN 0 ELSE 1
Cuenta ==
  /\ sesiones \in Nat /\ descriptores \in Nat /\ running \in BOOLEAN
  /\ running =>
       \/ SinHuerfanas /\ descriptores = 1 + sesiones + Ocupado
       \/ descriptores = Limite /\ sesiones = Limite - 2 /\ atiende = Nadie
  /\ ~running => SinHuerfanas /\ atiende = Nadie

\* Every step keeps the account of the descriptors.
LEMMA PasoCuenta ==
  ASSUME EnOrden, Cuenta, [Next]_vars
  PROVE  Cuenta'
<1>0. conexion \in [Forks -> {"no", "en cola", "atendida", "huerfana", "cerrada"}]
  BY DEF EnOrden, Tipos, Pasos
<1>1. ASSUME UNCHANGED <<running, descriptores, sesiones, atiende>>,
             NEW f \in Forks, NEW x, x # "huerfana",
             conexion' = conexion \/ conexion' = [conexion EXCEPT ![f] = x]
      PROVE  Cuenta'
  <2>1. SinHuerfanas => SinHuerfanas'
    BY <1>0, <1>1 DEF SinHuerfanas
  <2> QED BY <1>1, <2>1 DEF Cuenta, Ocupado
<1>2. ASSUME NEW f \in Forks, CerrarFork(f), running, atiende = f,
             UNCHANGED <<running, sesiones>>
      PROVE  Cuenta'
  <2>1. /\ f # Nadie /\ SinHuerfanas /\ descriptores = 2 + sesiones
        /\ atiende' = Nadie /\ descriptores' = descriptores - 1
    BY <1>2, ForkServerValido DEF Cuenta, Ocupado, CerrarFork
  <2>2. SinHuerfanas'
    BY <1>0, <1>2, <2>1 DEF SinHuerfanas, CerrarFork, Cerrada
  <2> QED BY <1>2, <2>1, <2>2 DEF Cuenta, Ocupado
<1>3. ASSUME NEW f \in Forks, NEW c,
             Conectar(f) \/ MandarFin(f) \/ Leer(f) \/ ForkTermina(f) \/ ForkMuere(f) \/ Mandar(f, c)
      PROVE  Cuenta'
  <2>1. UNCHANGED <<running, descriptores, sesiones, atiende>>
    BY <1>3 DEF Conectar, MandarFin, Leer, LeerRespuesta, LeerCerrada, ForkTermina, ForkMuere,
                Mandar, servidorVars
  <2>2. \/ conexion' = conexion
        \/ \E x : x # "huerfana" /\ conexion' = [conexion EXCEPT ![f] = x]
        \/ conexion' = [conexion EXCEPT ![f] = conexion[f]]
    <3>1. Irse(f) => \/ conexion' = [conexion EXCEPT ![f] = "no"]
                     \/ conexion' = [conexion EXCEPT ![f] = conexion[f]]
      BY DEF Irse
    <3> QED BY <1>3, <3>1 DEF Conectar, MandarFin, Leer, LeerRespuesta, LeerCerrada, ForkTermina,
                ForkMuere, Mandar, Seguir
  <2>3. conexion' = [conexion EXCEPT ![f] = conexion[f]] => conexion' = conexion
    BY <1>0
  <2> QED BY <1>1, <2>1, <2>2, <2>3
<1>4. ASSUME NEW f \in Forks, Servir(f) PROVE Cuenta'
  <2>1. CASE TerminarSesion(f)
    BY <1>2, <2>1 DEF TerminarSesion
  <2>2. ASSUME NEW k \in 1 .. Len(hacia[f]), Atender(f, k) PROVE Cuenta'
    <3>1. /\ running /\ atiende = f /\ UNCHANGED <<running, sesiones>>
          /\ CerrarFork(f) \/ UNCHANGED <<atiende, descriptores, conexion>>
      BY <2>2 DEF Atender
    <3> QED BY <1>1, <1>2, <3>1
  <2> QED BY <1>4, <2>1, <2>2 DEF Servir
<1>5. CASE Aceptar
  <2>1. /\ running /\ atiende = Nadie /\ running' = running
        /\ descriptores + 2 <= Limite /\ descriptores' = descriptores + 2
        /\ sesiones' = sesiones + 1 /\ atiende' = Head(cola)
        /\ conexion' = [conexion EXCEPT ![Head(cola)] = "atendida"]
    BY <1>5 DEF Aceptar
  <2>2. Head(cola) \in Forks
    BY <1>5 DEF Aceptar, EnOrden
  <2>3. atiende' # Nadie
    BY <2>1, <2>2, ForkServerValido
  <2>4. SinHuerfanas /\ descriptores = 1 + sesiones
    BY <2>1, ForkServerValido DEF Cuenta, Ocupado
  <2>5. SinHuerfanas'
    BY <1>0, <2>1, <2>4 DEF SinHuerfanas
  <2> QED BY <2>1, <2>3, <2>4, <2>5 DEF Cuenta, Ocupado
<1>6. CASE AceptarFalla
  <2>1. /\ running /\ atiende = Nadie /\ running' = running /\ atiende' = Nadie
        /\ descriptores + 1 = Limite /\ descriptores' = Limite /\ sesiones' = sesiones
    BY <1>6 DEF AceptarFalla
  <2> QED BY <2>1, ForkServerValido DEF Cuenta, Ocupado
<1>7. CASE ServidorMuere
  <2>1. /\ running' = FALSE /\ atiende' = Nadie /\ descriptores' = 0 /\ sesiones' = sesiones
        /\ conexion' = [f \in Forks |-> IF conexion[f] = "no" THEN "no" ELSE Cerrada(f)]
    BY <1>7 DEF ServidorMuere
  <2>2. SinHuerfanas'
    BY <2>1 DEF SinHuerfanas, Cerrada
  <2> QED BY <2>1, <2>2 DEF Cuenta
<1>8. CASE ServidorArranca
  <2>1. /\ ~running /\ running' = TRUE /\ descriptores' = 1 /\ sesiones' = 0
        /\ UNCHANGED <<atiende, conexion>>
    BY <1>8 DEF ServidorArranca
  <2> QED BY <2>1 DEF Cuenta, SinHuerfanas, Ocupado
<1>9. CASE UNCHANGED vars
  BY <1>9 DEF vars, servidorVars, Cuenta, SinHuerfanas, Ocupado
<1> QED BY <1>3, <1>4, <1>5, <1>6, <1>7, <1>8, <1>9 DEF Next

\* No connection is left without anybody to serve it before Limite - 2 sessions
\* have been accepted since the server started.
THEOREM SinSesionesPerdidas == Spec => []SesionesPosibles
<1>1. Init => Cuenta
  BY DEF Init, Cuenta, SinHuerfanas, Ocupado
<1>2. Cuenta => SesionesPosibles
  BY ForkServerValido DEF Cuenta, SinHuerfanas, SesionesPosibles
<1> QED BY <1>1, <1>2, PasoCuenta, EnOrdenSiempre, PTL DEF Spec
=============================================================================
