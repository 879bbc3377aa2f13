---------------------------- MODULE MCSimulacion ----------------------------
(***************************************************************************)
(* The program of main.cpp, which joins before it stops, and programs that *)
(* end the simulation as its comments say, in the right order, in an order *)
(* that loses answers and in one that stops a single thread in time.       *)
(***************************************************************************)
EXTENDS Simulacion

CONSTANTS c1, c2, c3, triangle, duck, dibujo, pato, vacio

MCClientes == {c1, c2, c3}
MCFiguras == {triangle, duck}
MCCuerpos == {dibujo, pato, vacio}

Parar(h) == <<"stop", h>>
Esperar(h) == <<"waitToFinish", h>>

\* main.cpp:28-47.
MainCpp == <<
  Envio(c1, <<"PING">>), Envio(c2, <<"GET", triangle>>),
  Envio(c3, <<"ADD", duck, pato>>), Envio(c3, <<"GET", duck>>),
  Envio(c1, <<"LIST">>), Envio(c2, <<"STATS">>),
  Esperar("servidor"), Esperar("tenedor"), Parar("servidor"), Parar("tenedor")>>

\* The other commands, and the end in order.
Ordenado == <<
  Envio(c1, <<"ADD", triangle, pato>>), Envio(c2, <<"GET", triangle>>),
  Envio(c1, <<"DEL", triangle>>), Envio(c2, <<"DEL", triangle>>),
  Envio(c1, <<"STATS">>),
  Parar("servidor"), Esperar("servidor"), Parar("tenedor"), Esperar("tenedor")>>

Raros == <<
  Envio(c2, <<"ADD">>), Envio(c1, <<"ADD", duck, vacio>>), Envio(c2, <<"GET", duck>>),
  Envio(c1, <<"LIST">>), Envio(c1, <<"OTRO">>),
  Parar("servidor"), Esperar("servidor"), Parar("tenedor"), Esperar("tenedor")>>

\* The Tenedor's sentinel may overtake the last answers.
Apurado == <<
  Envio(c1, <<"PING">>), Envio(c2, <<"GET", duck>>), Parar("servidor"),
  Envio(c1, <<"LIST">>), Parar("tenedor"), Esperar("servidor"), Esperar("tenedor")>>

\* Only the first of the two joins is of a thread that was stopped.
UnoSinParar == <<
  Envio(c2, <<"LIST">>), Parar("servidor"), Esperar("servidor"), Esperar("tenedor"),
  Parar("tenedor")>>

MCProgramas == {MainCpp, Ordenado, Raros, Apurado, UnoSinParar}
=============================================================================
