# Verification of Networks-OS

TLA+ models of the programs in this repository, TLC configurations that check
them on small instances, and TLAPS proofs of the facts that matter most for
every size. The models follow the source, file by file; definitions carry the
names of the functions and members they stand for. `PROJECT.json` maps each
definition to its lines.

`tlc -workers 2 -config X.cfg M` runs a check of the table below, `tlapm M.tla`
checks the proofs of a module.

## 1. The system

The repository holds the classwork of three courses. The programs with logic of
their own belong to one system, a store of ASCII-art figures, that grows from
week to week: first a simulation with threads and queues (`06:20250902`), then a
file system in one file (`08:20250912`, `20:20251028/FileSystem`), then a storage
server on top of it (`20:20251028/Server`), and in the last version
(`27:20251128`) the Tenedor, a coordinator in front of several storage servers.
All paths below are under `src/IP/classwork/` unless they say otherwise.

| component | state | operations | talks to |
|---|---|---|---|
| **FileSystem** (`27:20251128/Server/FileSystem.cc`, and its twin with tests in `20:20251028/FileSystem`) | directory of 8 inodes (4 direct blocks, two indirect lists of 64), bitmap of 4096 blocks, `nFiles`; on disk: directory, bitmap, inode metadata, data blocks | constructor, `crearInodo`, `escribir`, `agregar`, `leer`, `eliminar`, `renombrar`, `reemplazar`, `guardarDirectorio`, `guardarBitmap`, destructor | its disk file |
| **Storage server** (`27:20251128/Server/SSLServer.cc`) | a FileSystem shared by all workers, `g_ForkIP`, `stopRequested` | Submit, Request, Delete, List; one detached thread per connection; CONNECT and QUIT by UDP | FileSystem (calls), cache (one TCP exchange), Tenedor |
| **Cache server** | not in the repository | answers a POST of the storage server | storage server |
| **Tenedor** (`27:20251128/Server/Tenedor.cc`) | `servers`, `figureLocation`, `currentServerIndex`, under `serversMutex` | `handleList`, `handleGet`, `handleAdd`, `handleDelete`, `handleUDPSignaling`; one detached thread per client | clients and servers (TCP), servers (UDP) |
| **TSQ** (`06:20250902/simulation/common/tsq.hpp`, `Semaphore.cpp`) | queue under a mutex, semaphore | `enqueue`, `emplace`, `dequeue`, `try_dequeue`, `unsafe_size` | its callers |
| **Simulation** (`06:20250902/simulation`: `Servidor`, `Tenedor`, `Client`, `main`) | figures and request count of the Servidor, registered clients of the Tenedor, two TSQ | submit, `handle`, deliver, `stop`, `waitToFinish` | each other, through the queues and sentinels |
| **Sockets** (`VSocket`, `Socket`, `SSLSocket`, in most directories) | a descriptor, an SSL object | connect, bind, accept, read, write | operating system, OpenSSL |
| **Fork and figure server of week 4** (`04:20250826/fork.cpp`, `server.cpp`) | server: a directory of numbered files and the last number; fork: its connection | fork: request, submit, list, info, quit; server: fetch, store, fetch-list, fetch-info, close | each other, one connection and one text per command |
| **Server of week 20** (`20:20251028/Server`) | an earlier FileSystem (directory of a fixed number of inodes, bitmap in memory only, a unit it blanks when it starts) shared by detached threads | Submit, Request, Delete, List | its clients |
| **Client of week 20** (`20:20251028/cliente`) | none | a menu, one request per connection | that server |
| **Login server and client** (`09:20250916`) | one OpenSSL context; per client a thread and an SSL | accept, handshake, one message, one answer | each other, over TLS |
| **File system of week 8** (`08:20250912/FileSystem`) | as that of week 20 | the same without `eliminar`, `modificar`, `reemplazar` | its test |
| **Subnetting** (`src/Networks/extra_credit`) | a base network and a list of subnets | add a subnet, assign addresses | |
| **Diffie-Hellman** (`src/Networks/extra_credit`) | modulus, generator, keys | key generation, shared secret | two objects of main |
| **Socket exercises** (`01`, `02`, `03`, `07`), `src/OS/HW01-File_System` | none | echo or print a message; HW01 is a sketch that does not compile | |

What is hard, and what makes each component correct:

- **FileSystem.** Long sequences of legal calls: first-fit allocation, deletion
  that moves the last file into the hole, replacement that deletes and creates,
  saves that reach only a part of the bitmap, metadata that outgrow their block.
  Correct when no block belongs to two files, no block leaks, the directory has
  no holes, a restart gives back what was there, and each file reads as what was
  last written to it.
- **Tenedor.** Many threads, servers that stop in the middle of an exchange, UDP
  that loses, repeats and reorders. Correct when the register agrees with the
  servers, the round robin is fair, and every client is answered.
- **TSQ.** A push and its signal are two steps. Correct when no consumer sleeps
  while an element waits and no consumer finds an empty queue after its wait.
- **Simulation.** The sentinel may overtake answers. Correct when each client
  gets the answers to its own requests, in order, and the program ends without
  losing any.
- **Storage server.** Detached workers on one FileSystem without a lock, a cache
  that is not told of changes, texts delimited by an empty line one of the peers
  never sends, exceptions nobody catches. Correct when the file system stays
  sound, an answer is a text its figure had, no descriptor is lost, and whoever
  sends a whole request is answered.
- **Crash of the file system.** A call is several writes: blocks, bitmap, the
  block of names, the lists of blocks. Correct when a crash between two of them
  harms no file but the one in hand, and that one in a known way.
- **Week 4.** Correct when each answer is that of its command and no file number
  is given twice. A command is whatever one read returns, the fork writes it in
  two pieces, and takes of an answer what one read returns.
- **Week 9** (the login server). Correct when one client's end does not end the
  others' sessions, and a session that ended leaves the server what it had. Both
  are false: any exception ends the process, and threads are never joined, so
  that each session costs one. What is checked is that nothing else ends it.
- **Week 20** (server and client). Threads on the earlier file system without a
  lock, requests of which the server reads only what came with the headers, which
  may be a Delete without its figure. Correct when no request reaches another's
  figure and every client is let go; the first with one exception.
- **Subnetting, Diffie-Hellman.** Arithmetic with addresses that wrap, and with
  products reduced at every step.

`PROJECT.json` lists each of these hazards at its line, with the properties that
cover it or the reason none does.


## 2. Modules

| module | what it is | models |
|---|---|---|
| `FileSystem` | one operator per method, one action per call | `FileSystem.cc`, `FileSystem.h` |
| `FileSystemUso` | which calls the tests (`UsoNext`) and the server (`ServidorNext`) make; the properties | test `main.cpp`, `SSLServer.cc` |
| `FileSystemLimites` | the sizes under which the invariants hold; the inductive invariant | |
| `FileStore` | abstract: a bounded map from names to texts | the promises of `FileSystem.h` |
| `FileSystemCrash`, `MCFileSystemCrash` | the writes of each call, and crashes between them | `20:20251028/FileSystem/FileSystem.cpp` |
| `FileSystemProofs`, `FileSystemCrashProofs` | theorems | |
| `MCFileSystem`, `MCFileSystemReal` | instances for TLC | |
| `Sockets` | descriptors and OpenSSL contexts of the socket objects | `VSocket.cc`, `Socket.cc`, `SSLSocket.cc` |
| `StorageServer`, `MCStorageServer`, `StorageServerProofs` | main and its detached threads over `FileSystemUso` and `Sockets`; the cache; theorems | `SSLServer.cc` |
| `Tenedor`, `MCTenedor` | the coordinator, its clients, its servers and the network | `Tenedor.cc`; servers from `SSLServer.cc` |
| `Indice` | abstract: where each figure is | what the Tenedor is for |
| `TenedorProofs` | theorems | |
| `TSQ` | the queue, for any set of threads; theorems in `SimulacionProofs` | `tsq.hpp`, `Semaphore` |
| `Simulacion`, `MCSimulacion`, `SimulacionProofs` | three threads, two instances of `TSQ`, the programs main runs; theorems about both | `Servidor`, `Tenedor`, `Client`, `main.cpp` |
| `ForkServer`, `MCForkServer`, `ForkServerProofs` | forks and server on a stream of pieces, with what is longer than a Read; theorems | `04:20250826/fork.cpp`, `server.cpp`, `Socket.cc` |
| `FileSystem20` | the earlier file system as functions of its state | `20:20251028/Server/FileSystem.cpp` |
| `Servidor20`, `MCServidor20` | server and clients of week 20 over `FileSystem20`; theorems in `RecursionProofs` | `20:20251028/Server/SSLServer.cc`, `cliente/Client.cc` |
| `Acceso`, `AccesoProofs` | the login server and its clients; theorems | `09:20250916` |
| `Subredes` | the subnetting program; theorems in `RecursionProofs` | `extra_credit/subnetting` |
| `DiffieHellman`, `MCDiffieHellman` | the key exchange; theorems in `RecursionProofs` | `extra_credit`, `diffieHellman.cpp` and its main |
| `RecursionProofs` | theorems about the three programs that compute by recursion | `Servidor20`, `DiffieHellman`, `Subredes` |

A definition preceded by a comment that begins *A slip* is a wrong variant of a
definition below it. No specification uses it; replacing the definition by its
slip shows that the properties notice.

### FileSystem

`fs` is the object and its disk in one record: `directorio`, `bitmap`, `nFiles`
in memory, `dDirectorio`, `dBitmap`, `datos`, `legible` on disk. The direct and
the two indirect lists of an inode are one sequence, since `asignarBloque` fills
them in order. Each method is an operator from a state to the state (or set of
states) its call leaves, so the methods compose as in the code: `reemplazar` is
`escribir` of `crearInodo` of `eliminar`. The operators keep the early returns,
the saves and their order. A data block is kept as its characters before the
first NUL, which is what `leer` and `agregar` look at.

In `FileSystemUso` the saves of one call are one step and a crash is between two
calls (`ReinicioAbrupto`). Where metadata spill over data blocks, or data over
metadata, the model says so (`Solape`, `legible`), and a restart on unreadable
metadata may find anything.

### FileSystemCrash

The memory changes at once, as nobody else sees it before the call returns, and
the writes the call makes (data blocks, the bitmap, the block of names, the
lists of blocks) wait in `pendientes` in the order of its code. A write takes
effect on its own, and `Corte` may come between any two, after which
the constructor loads what is there. `guardarDirectorio` writes names and lists
apart, so a crash between them leaves the new names over the old lists
(`NombresSobreListas`), the one place where a file not named by the call can be
hurt; `OtrosIntactos` says that it is the only one. After a crash that leaves
the metadata unsound the program can do anything, and the model stops there. A
crash while the constructor formats a new disk is not modelled.
`ImplementaLlamadas` ties this module to `FileSystemUso`:
without a crash the writes of a request add up to its calls.

### Sockets and StorageServer

A socket object has its class and its descriptor; `accept` and `socket` take the
lowest one free. The objects are deleted through `VSocket` pointers and
`~VSocket` is not virtual, so `delete` frees nothing but what `Close` freed
before: `contextos` counts the OpenSSL contexts that stay.

Each connection has a thread, whose place in `SSLServer.cc` is its `pc`. A call of
the file system has a beginning and an end (`Entrar`, `Volver`). Two that overlap
are a data race, whatever they do, unless both only look at the directory:
`proceso` is then `"indefinido"` and nothing more is followed. Without overlap
the calls of several threads still come in any order, between the two calls of a
Submit too. No thread catches an exception, so one that is thrown ends the
process, which happens for a figure that is neither in the cache nor on the
disk; so does a client that resets its connection or sends a length that is no
number (`LeerFalla`) or leaves before its answer (`ResponderFalla`). A request
that ends before its figure acts on the empty name, which the file system finds
in every slot not in use: a Submit gives such a slot blocks and no name, a Delete
removes the last file (`entremedio` notes both), and a Delete on an empty
directory writes before it (`BorrarFuera`). The cache is outside the repository:
a process that holds what it was given or forgets it, stops and starts.

### TSQ and Simulacion

What runs under the queue's mutex is one step; the wait and the signal of the
semaphore, outside it, are steps of their own. `paso` says where each thread is
between the two. `front()` of an empty queue is undefined in C++: the model
stops the thread there, and `NuncaVacia` says whether one can come that far.
`Simulacion` uses the operators of `TSQ` on its own `reqQ` and `respQ`, and the
property `ColasBloqueantes` says that what it does with each is a behaviour of
`TSQ!SpecBloqueante`, with `PasoReq` and `PasoResp` as the mapping of the
threads. Main is a program of calls; the real one and four variants are in
`MCSimulacion`. The real one joins the threads before it sends their sentinels,
and waits there for ever: `FinDeMain` says so of it and of every program with a
join that comes too early, and that the others end. `CierreSinPerdidas` and
`TodasEntregadas` speak of programs that stop and join in order; of the real one,
which never ends, they say nothing, while `RespuestasEnOrden` does.

### Tenedor

`pc` follows a client's thread: `mutex` (before the lock), `conectar`, `leyendo`,
then `contestado` or `cortado` (the server ended the connection), `responder`.
A handler that needs no server is one step under the mutex; one that does keeps
the mutex from `AtenderConServidor` to `Registrar` or `Excepcion`, as the
`lock_guard` at the head of each handler does. A read that meets the end of the
file and a read that throws are both outcomes of `cortado`. UDP signals are a
queue per server in `red`; reading one and applying it under the mutex is one
step, since the one UDP thread holds no state anyone else sees between the two.
Servers are of two kinds. Those in `Conformes` follow `Protocolo_Intragrupal.pdf`:
they answer what they are asked or refuse it, and signal their end; nothing in
the repository implements them. The others are `SSLServer.cc` as it is: it signals
its start, reads on until an empty line that no message of the Tenedor has and
so never answers, and ends without a signal (`Callado`, `Colgado`). A handler that
asks one keeps the mutex until the server ends. Any server may crash; datagrams
are lost, repeated and reordered. An address never heard of is like an inactive server
without figures: no handler tells them apart.

### ForkServer

What is written travels in pieces: a command, its end of line, an answer, and the
rest of a command or an answer longer than a Read (4095 bytes). One `Read` takes
one or more of the pieces that have come, whole, and none after a full one; so
the stream is cut between the two writes of a command and at full Reads, not at
any byte. A fetch of a large file (`Grandes`) and a list of many names
(`EnUnaLista`) are answers of two pieces: the fork shows the first, and the
second is there for its next command.
The server serves one connection at a time; the others wait in its backlog, or
are orphans when it has no descriptor for them. Both ends may be killed, and the
server starts again on the files it left.

### Servidor20

`FileSystem20` gives the methods as functions; a file ends at the first NUL of
its last block. The server reads until it sees the end of the headers, with what
came in the same reads, and takes that for the whole request, which may end in
its text, in or before the name of its figure, or before its action (`Leido`); it
closes with bytes unread when there was more, which resets the connection
(`cortada`) and may take the answer with it. The empty name is that of every slot
not in use, so a Delete without a figure drops the last file of the directory,
and its blocks with it: `perdidos`, no variable of the code, keeps account of
them. On an empty directory it clears what is before the first slot
(`EliminarNada`), and nothing more is followed. A Submit without a figure has no
text, as both are read from one stream, and changes nothing. Buffers without an end yield a text
followed by anything (`SinFin`). Overlapping calls are a race, as in
`StorageServer`. The constructor blanks the unit, so a restart loses every
figure.

### Acceso

A client is one run of `SSLClient.cc` and may be killed at any point. `Accept`,
the SSL of the new socket and the start of its thread are one step: between them
main holds nothing that anyone else sees. What a thread throws (a handshake or
an answer to a client that is gone) ends the process with the sessions of the
others. Threads are not joined: `hilos` counts them, those that returned too, and
`std::thread` throws in main when there are `MaxHilos` (`HiloFalla`). `accept`
takes its descriptor before it waits, so a full table ends the server with or
without a connection (`WaitForConnectionFalla`).

### Subredes and DiffieHellman

`Subredes` has the list of subnets as state, added one by one and computed at
any time. Addresses wrap at `Espacio`, two to the power of `Ancho`. `std::sort`
leaves equal sizes in any order, and so does the model. The sizes asked for are
those whose power of two is an `int` and that fit in the address space together,
which the program takes for granted. `DiffieHellman` translates `modPow` as the
recursive function its loop computes, and checks it against repeated
multiplication.

## 3. What is checked

Runs that pass:

| run | module, cfg | bounds | shows |
|---|---|---|---|
| archivos | `MCFileSystem` | 3 data blocks of 2 characters, 3 slots, 3 short names and one too long, texts of 0, 1 and 3 characters, inodes of 1 direct and 2 indirect blocks | types; no shared blocks (`SinEnlacesCruzados`), no leaks (`BitmapExacto`), a compact directory (`DirectorioCompacto`), no gaps within files (`SinHuecos`), nothing lost by a restart (`RecargaFiel`), each file reads as the abstract store says (`ImplementaAlmacen`) |
| cortes | `MCFileSystemCrash`, `FileSystemCrash.cfg` | 3 names, 2 slots, 3 data blocks, texts of 1 and 3 characters, 1 crash | after a crash the directory is compact (`DirectorioTrasCorte`), other files are intact except in the one known case (`OtrosIntactos`), the file in hand reads as before or after (`NombradoLegible`), growing or renaming leaves no used block free whose mark the disk keeps (`MarcadosGuardados`); without one the writes are the calls (`ImplementaLlamadas`) |
| tsq | `TSQ` | 2 producers, 2 consumers, 1 poller, 5 permits | each element has its permit (`PermisosCubren`) |
| simulacion | `MCSimulacion` | 5 programs of at most 10 calls, 3 clients, 2 figures | answers in order and right (`RespuestasEnOrden`), an orderly end loses nothing (`CierreSinPerdidas`, `TodasEntregadas`), a program that stops before it joins ends and main.cpp, which does not, waits for ever (`FinDeMain`), both queues are used as `TSQ` says (`ColasBloqueantes`) |
| tenedor | `MCTenedor`, `Tenedor.cfg` | 2 servers, one that follows the protocol and one that is `SSLServer.cc`, 2 figures, 2 threads, 2 requests, 2 starts, any one anomaly | the register is exact while signals come in order (`IndiceExacto`), implements `Indice` (`ImplementaIndice`), round robin is even (`Reparto`), everyone is answered unless a handler waits for ever for `SSLServer.cc` (`TodosRespondidos`) |
| almacenamiento | `MCStorageServer`, `StorageServer.cfg` | 2 threads, 3 figures and none, 2 slots, 2 requests, 4 descriptors, texts of 1 and 2 characters of which 1 goes to the cache | no descriptor is lost or shared and contexts grow by one per Request at most (`DescriptoresJustos`); without overlap the file system stays sound unless a Delete comes within a Submit or one of them without its figure (`SanoSalvoEntremedio`); what a Request answers was the figure's text at the time, or once, if cached (`RespuestaFechada`); whole requests are answered (`Contestados`) |
| semana4 | `MCForkServer`, `ForkServer.cfg` | 2 forks, 3 commands, 3 sessions, 1 death, 4 descriptors, a store longer than a Read, a list that is too from the third file on | an answer is that of its command, or a part of it, until a read takes a part of a command or of an answer (`RespuestaPropia`); a session costs one descriptor (`SesionesPosibles`); no stored figure is overwritten (`NuncaSobrescribe`); who is served is let go (`ForkContestado`) |
| servidor20 | `MCServidor20`, `Servidor20.cfg` | 2 clients, 3 figures, 2 slots, a unit of 3 blocks of 2 characters, 3 connections, 2 lives, requests cut in the text, the figure or before either | the unit is sound however calls interleave (`UnidadSana`); no request but its Delete, or one without a figure if it is the last, reaches a figure (`SoloCrece`); every client is let go (`ClienteSuelto`) |
| acceso | `Acceso` | 3 clients, 3 descriptors, 2 threads, 2 lives | the server ends for three causes only (`CaidaConCausa`); who waits is let go (`ClienteSuelto`) |
| subredes | `Subredes` | addresses of 8 bits instead of 32; bases 64, 240 and 40; up to 4 subnets of 0, 2, 3, 6, 13 or 14 hosts | subnets are disjoint, without gaps, with room, and aligned when assigned upwards (`SubredesBien`) |
| intercambio | `MCDiffieHellman`, `DiffieHellman.cfg` | primes 23, 47 and 7, all private keys | both secrets are the one power (`SecretosIguales`) |

Why these bounds: three data blocks and three slots are the least where the
disk fills before the directory and the directory before the disk, where a file
has direct and indirect blocks, where deletion moves a slot and where freed
blocks interleave with used ones. In *cortes* three names on two slots make an
`eliminar` move a file and a Submit find the directory full, and one crash
followed by any requests shows what it left. Two requests and two starts are
the least where one request changes what another finds, a server leaves while
another serves, and one server starts twice. In *almacenamiento* two threads
have at most a client and a cache each, which with the listener are five
sockets for four descriptors: the table fills. In *semana4* the third session
of one life of the server finds no descriptor. In *servidor20* a text of three
characters takes two blocks and two Submits fill an inode; the pato cut in
its name is the oso. In *acceso* the third client finds no room for its thread.
The base 240 is aligned for the largest subnet and the addresses wrap after its
first 16, the four largest subnets take 64; from the other two bases nothing
wraps, and 40 is aligned for 8 addresses only.

Counters that are cut: `Tope`, `MaxPedidos`, `MaxArranques`, `MaxAnomalias`,
`MaxLlamadas`, `MaxCortes`, `MaxComandos`, `MaxSesiones`, `MaxMuertes`,
`MaxConexiones`, `MaxVidas`, `MaxSubredes`. `MaxNumero` is as many files as the
commands of a run can number, two each, and cuts nothing. `MaxHilos` is no bound
of the model but a limit of the process, as `Limite` and `Descriptores` are. The names of the cfgs of
*archivos* (other than the one the long name is cut to) and *cortes* are
interchangeable, hence their symmetry; neither checks liveness.

Deadlock is not checked where a run may stop: programs and keys end
(`simulacion`, `intercambio`), and so do the requests, sessions and lives that
the bounds allow in the rest. In *archivos* and *subredes* some call is always
possible, so deadlock is checked and means little.

### Fairness

- `Simulacion`: weak fairness of each of the three threads, that is, the
  operating system runs a thread that can go on. Each queue has one consumer, so
  a permit stays until that consumer takes it and weak fairness suffices.
- `Tenedor`: weak fairness of each client's thread and of the UDP thread, and of
  the answer of a server in `Conformes` that is running. Nothing is assumed of
  `SSLServer.cc`, which does not answer. A `std::mutex` is not fair: that a thread is not starved by others
  follows from the bound on requests, and with unbounded clients would be an
  assumption on the library.
- `StorageServer`, `Servidor20`: every thread that can go on does; a cache that
  is up answers; a client of week 20 reads what has come. `PuedeSeguir` writes out
  when a thread can go on, and the condition is *if it can from some time on, it
  moves again and again*, which is weak fairness of its steps.
- `ForkServer`: a fork writes its end of line and reads its answer, the server
  serves what has come. `Acceso`: main accepts, threads go on, a client goes on
  where it needs no keyboard.
- Nothing is assumed of starts, ends, kills, crashes, restarts, of people typing,
  and of the network.

### A run that finds the code at odds with its documentation

*bitmap_corto* (`MCFileSystemReal`, `BloquesMarcados`): the bitmap is one byte per
block in memory, and the room it is given on disk, two blocks of 256 bytes, is
what 4096 bits need; written a byte per entry it holds the first 512, so the
marks of blocks from 512 on are gone after a restart (`FileSystem.cc:321`,
`:202`). `MCFileSystemReal` computes the sizes as the constructor does, on a disk
with more blocks than a block has bytes.

### Seen while modelling

Read off the code and kept by the models where they reach it; no run is about
these. File system and storage server of week 27:

- Submit goes on after `crearInodo` refused a name of 16 characters or more; a
  Delete of that name then removes another file (`SSLServer.cc:362`,
  `FileSystem.cc:847`).
- The metadata of large files outgrow their block and overwrite data
  (`FileSystem.cc:753`); a text beyond 132 blocks keeps blocks whose marks are
  cleared (`:660`).
- `reemplazar` is documented to use other blocks and gets the same ones (`:866`).
- A Delete between the two calls of a Submit breaks the compact directory
  (`SanoSalvoEntremedio` excludes it by name), and so does a Submit without a
  figure; a Delete without one removes the last file, on an empty directory it
  writes before it (`FileSystem.cc:847`).
- A Content-Length that is no number ends the server (`SSLServer.cc:83`, `:273`).
- A Request of a figure neither cached nor stored throws in a detached thread
  and ends the server (`SSLServer.cc:129`); week 20 has the same (`:78`).
- The context each Request opens for the cache is never freed
  (`SSLServer.cc:358`); accepted clients are closed and never deleted.
- QUIT is never sent: the interrupted accept throws before it (`:587`).
  `processIntraGroupCommand` (467-508) has no caller.
- The messages of the Tenedor have no empty line and the storage server reads
  until one (`:261`, against the comment at 575): neither side goes on until the
  other closes, and the Tenedor keeps its mutex meanwhile. *tenedor* has such a
  server.

Tenedor: CONNECT after a crash empties a server's figures and leaves their
locations (`Tenedor.cc:385`); ADD answers 200 whatever the server answered
(`:246`); the catch blocks leak `serverConn` (`:187`, `:250`, `:292`).

Simulation: `try_dequeue` leaves the permit of the element it takes
(`tsq.hpp:75`), and has no caller; main joins before it sends the sentinels and
waits for ever, though its comments say it closes in order (`main.cpp:42`).

Earlier weeks: a request of week 20 longer than its first reads is cut and its
connection reset, and what is left of it may be a Delete without a figure, which
removes the last one and leaks its blocks (`FileSystem.cpp:228`, `:374`); the
client's `sprintf` lacks an argument (`Client.cc:181`,
`:191`, `:215`); `leerFigura` returns a buffer without an end (`Client.cc:43`,
`SSLServer.cc:151`); the constructor always blanks the unit though
`FileSystem.h:105` says it opens an existing one; `eliminar` calls `~INodo()` by
hand (`FileSystem.cpp:402`). `Accept` of week 4 overwrites a descriptor
(`Socket.cc:139`), and its forks read at most 4095 bytes of an answer and show the
rest to the next command (`fork.cpp:41`). The SSL objects of week 9 are never
freed and its threads never joined, until one more cannot start and the server
ends (`SSLServer.cc:75`).

Extra credit: subnets assigned downwards may be unaligned (in the program's
second example D gets 172.16.70.64/21); sizes above 2^30 hosts overflow
`adjSize`; `base * base` overflows for moduli above about 3.03e9
(`diffieHellman.cpp:21`).

## 4. What is proved

For every value of the constants that the assumptions admit.

**FileSystemProofs.** `Inductivo`: `UsoSpec => []InvFileSystem`, and from it
`Tipos`, `EnlacesSeparados`, `BitmapSinFugas`, `DirectorioSinHuecos`,
`ArchivosSinHuecos` and `RecargaSinPerdidas`. Assumptions: `ConstantesValidas`,
`NombresValidos`, `TextosValidos` (types of the constants) and the three of
`FileSystemLimites`: texts of callers fit in an inode, the metadata of a
directory full of the largest files fits its block, and the saved part of the
bitmap covers the disk or at least every block first-fit can reach. The
program's own constants satisfy them for files of up to 6 blocks; the server
admits files of 132096 characters, and the run *bitmap_corto* shows what happens
then.

The invariant `Bueno(fs)` is `MemoriaBuena` (types, no crossed links, exact
bitmap, compact directory, and `Bajos`: every block in use has its bit saved)
and `EnDisco` (directory, bitmap and metadata on disk are those in memory).
No property is inductive alone: exactness of the bitmap needs the separation of
links (freeing one file's blocks must not free another's) and both need the
directory's names to be distinct; that a restart keeps them needs `EnDisco` and
`Bajos`. `Bajos` is the heart: `Alcance` proves by a counting argument that when
all the data blocks up to b are in use or about to be, b is at most
`firstDataBlock + (TDIRECTORIO + 1) * MaxFile`, so first-fit never reaches a
block whose bit is not saved. There is a lemma per method, from a good state to
good states, and `PasoBueno` collects them.

`ArchivosSinHuecos` carries `Corridos` along (every block of a file but the last
is full, and the last is not empty unless the file is). It is inductive
together with the invariant only: that a write to one file's blocks leaves the
others' texts as they are is the separation of links again (`BloquesPropios`,
`Conservado`), and what `escribir` puts into its blocks is counted in
`TrozosLlenos`.

`ImplementaElStore` (`ImplementaAlmacen`) is the refinement: under the map from
the names in the directory to what `leer` returns of each, every call is a step
of `FileStore` or a stutter. Two facts carry it. Between calls the object is
sound and without gaps, so a text is exactly what the blocks spell (`Contiene`);
and a call that keeps the blocks and characters of a file keeps its text
(`TextoIntacto`), which separation of links gives for every file a call does not
name. Then there is a lemma per call: `crearInodo` adds an empty text only below
`TDIRECTORIO` files, `escribir` gives the text or, on a full disk, nothing,
`agregar` puts one character at its end or nothing, `eliminar` takes the name
away while the last file moves slots, `renombrar` gives the text another name,
`reemplazar` leaves the new text or an empty one. A restart is a stutter by
`RecargaFiel`, which is why a client of the class cannot tell that it came.

**FileSystemCrashProofs.** For any disk, any requests and any number of crashes;
assumptions as for `FileSystemProofs`. No soundness of what a crash left is
assumed but what `Sano`, the guard of the model, demands of the metadata that
later requests start from.

A call changes the memory to that of the state t it returns when it is atomic,
and its pending writes P put on the disk what t holds. `Cerca(s, t, P)` says so:
the memory of s is that of t; what of the disk P will not write (blocks, bitmap,
lists) is already that of t; and in P each write carries what t holds, with the
lists right after the names. `Arrancable` is what holds at every instant,
between two writes of any call too: the reserved blocks are marked, and the names
on the disk fill the first slots, each once. The invariant `InvCorte` is that the
state is `Arrancable`; that when idle the directory of the disk is that of the
memory; and that during a request there is a t which the calls so far, each
atomic, may return (`Alcanza`) with `Cerca(fs, t, pendientes)`. `PasoGrabado`
shows that one write keeps it with one write less pending, `Grabado` that with
none left the state is t, and `Iniciada`, through a lemma per call, that a call
begins close to what it promises; `Cargado` that a restart leads back to an idle
state. The blocks a crash leaves marked and unused are allowed: what fails is
only that some space is lost. So

- `TrasCorteCompacto` (`DirectorioTrasCorte`): wherever the process dies the
  names come back compact, `nFiles` right, as `eliminar` needs;
- `LlamadasImplementadas` (`ImplementaLlamadas`): until a crash, and again after
  it, requests are the atomic calls of `FileSystemUso`, in spite of the different
  order of the writes in each call;
- `OtrosTrasCorte` (`OtrosIntactos`): a crash leaves the files that the call does
  not name as they were, but in the one case the property names;
- `NombradoTrasCorte` (`NombradoLegible`): the file in hand reads as before or as
  the new text, or keeps the beginning it had.

The last two say what a restart reads, for which it is not enough to know where
the call leads: t says nothing of a block whose write is still pending. So
`InvOtros` adds the state u the call in progress began in, good and with the
files of others as they were before the request (`Intacto`), and `AMedias`
places the disk between u and t: a block holds its content of u or that of t,
and the lists are those of u while their write is pending and those of t after.
`PasoOtros` shows that each write keeps it. What a crash finds of a file then
comes from the block lists of u or of t, and each text from its blocks:

- of a file not named, the list is the same in u and t and no block of it is
  written (the separation of links), except where the names moved and the lists
  did not, which is the exception of `OtrosIntactos` (`ListaTrasCorte`);
- `escribir` writes new blocks first and the lists last (`AlFinal`): before the
  lists the old list leads to blocks nobody wrote, after them everything is
  that of t (`IntactoTrasCorte`);
- `agregar` may find its last block with one character more under the old list,
  or a new block only the new list reaches. `TextoPrefijo` shows that what
  `leer` makes of a list of blocks that goes on where the other ends, each with
  at least its characters, goes on where the other text ends (`AgregarTrasCorte`).

`MarcasTrasCorte` is about the bitmap after a crash in `agregar` or `renombrar`:
no block whose entry the disk keeps is in a file and free. The invariant
`InvMarcas` says that the bitmap on the disk is that of the memory unless its
write is pending, that in these calls it has at least the marks of before, and
that its write comes before that of the lists (`MarcasAntes`), so the lists a
restart reads name blocks that were marked already. `MarcadosGuardados` speaks of
the saved entries only, and this is all that holds of the program, which saves 512 entries for 4096 blocks: a crash in a call may leave
blocks marked that no file uses, and after enough of them first-fit reaches
blocks past the saved part, of which a restart knows nothing. In *cortes* the
whole bitmap is saved.

**StorageServerProofs.** For any number of threads, requests and descriptors.
Assumptions: those of `FileSystemProofs`; that there are descriptors and a socket
object for main and two for every thread; and `StorageServerValido`: the names of
requests fit their entry and the texts an inode.

- `SanoEnServicio`: in whatever order the threads' calls come, the file system
  is `Bueno`, and the figure of every Submit between its two calls is there or
  nothing more fits, until a Delete comes between the two calls of a Submit or one
  of them comes without its figure. The
  second half is needed because `escribir` of a figure that is not there is the
  case the lemmas of the file system do not cover.
  `ArchivosDeTodosSanos` (`SanoSalvoEntremedio`) is the part in memory.
- `DescriptoresDeTodos` (`DescriptoresJustos`): the invariant says exactly which
  objects hold a descriptor (`Debidos`: main's, those of threads with a client and
  of threads with the cache), that the table and the objects agree (`Tabla`), and
  that contexts and the requests yet to reach the cache (`PorPedir`) are together
  no more than the requests read.
- `RespuestasFechadas` (`RespuestaFechada`): every text in the cache is the
  beginning of one the figure once had (`Comienzos`), and `vistos` of a thread with
  a request holds the text its figure has now.

**SimulacionProofs.** For any clients, figures and programs of main.
`OrdenSiempre` is the invariant. `RespuestasEnOrden` speaks of what was given only;
to be inductive it has to say what is on its way. The requests of the program are
numbered, and `EnFila(q, m, d)` says that the messages in q, but for sentinels,
are those of the numbers from d on: with the requests taken for d it holds of
`reqQ` (`PedidosEnOrden`), with the answers taken for d of `respQ`
(`RespuestasEnFila`). `AlmacenAlDia` says that the figures of the Servidor are
what the requests before the one it serves made of them, so that the answer it
computes is the one expected. The counts are tied to each other, so a client's
answers are exactly those of its requests with the first numbers (`Entregas`). For
the end, `Cierre` says that nothing but sentinels follows a sentinel when main
stops and joins the Servidor and then the Tenedor; in the other programs answers
may follow one, and that case is left out of the invariant as it is of the
property. From it `TiposSimulacion`, `CadaRespuestaEnOrden`
(`RespuestasEnOrden`), `NadaSePierde` (`CierreSinPerdidas`). `UsanColasBloqueantes`
(`ColasBloqueantes`) maps every step of the three threads to one of `TSQ` for each
queue, so the theorems about the queue hold of both.

Of the queue alone, for any threads: `SinSenalPerdida` says that with
`try_dequeue` and whatever the bound, the permits given, about to be given and
in the hands of consumers are never fewer than the elements. `CuentaExacta`:
with blocking calls only they are exactly as many, and `FrenteNuncaVacio`: a
consumer that came through the wait finds an element. Both rest on one lemma per
step that says how it changes the two counts; the invariant adds to the types
that the sets of threads between two steps are finite, since nothing says the
set of threads is. The simulation uses blocking calls only (`ColasBloqueantes`),
so the theorem applies to both of its queues.

**TenedorProofs.** For any servers, figures, threads and bounds.

- `LoHalladoVale` is the foundation: the types, and that while a thread holds the
  mutex for an exchange the server it chose stays in the register and active,
  and the figure it looked up stays where it was found, whatever signals arrive
  meanwhile. `TiposTenedor` follows.
- `RegistroConcorde`: without anomalies, the signals under way to the Tenedor
  alternate (`SenalesEnOrden`), starting with the opposite of what it thinks of
  the server and ending with what the server is; and the locations and the
  servers' lists are one relation. The second half alone is not inductive: a
  CONNECT empties a list, which is harmless only because the server was
  inactive, which is the first half. `IndiceSinContradiccion` (`IndiceExacto`)
  is what it says of the register, and `TenedorImplementaIndice` proves the
  refinement: initial state to initial state, each step to a step of `Indice` or
  a stutter, until an anomaly.
- `RepartoParejo`: anomalies or not, figures sent out since the active servers
  changed differ by one at most. The invariant, `Ronda`, says that each server
  has q of them, or q + 1 when its place in the order of the map lies between
  the one the round began at and the turn; the facts about places are in
  `Rangos`, proved for any finite set of naturals.

**ForkServerProofs.** `ContadorAlDia`: `file_counter` is at or past every numbered
file, through failed stores, kills and restarts.
`FigurasParaSiempre`: therefore no file is ever overwritten (`NuncaSobrescribe`).
`RespuestaSuya` (`RespuestaPropia`): the invariant `EnOrden` says for each fork what
its two streams hold at each of its steps (`EnLinea`): with no command
and no answer cut, either the command under way is still to be read and no answer
waits, or its answer waits, in one piece or two, and no command is to be read.
Without the exceptions it is false: what is left of a command is read as the next
one, and what is left of an answer is shown for the next command. `SinSesionesPerdidas` (`SesionesPosibles`): `Cuenta` is the account of
the descriptors, one for Listen, one lost per session since the start and one for
the session under way, until the table is full after `Limite - 2` sessions.

**AccesoProofs.** `DescriptoresDeSesiones`: while the server lives its descriptors
are one of its own and one per session under way, and no client is twice in the
queue. `CaidasConCausa`: hence `CaidaConCausa`, with its three causes: a client
killed in its session, sessions open that take every descriptor, and as many
threads started as there is room for, those of ended sessions with them.

**RecursionProofs.** What a recursive function computes for every argument takes
an induction. The library's induction theorems have an operator as a parameter,
which the provers here cannot instantiate, so `Induccion` states it of sets: a set
of numbers with 0 and the successor of each of its elements is `Nat`. It follows
from `Minimo20`, that a set of numbers has a least one, which rests on the
library's fact that the finite subsets of a set are well-founded. A recursive
definition is a `CHOOSE` of a function that satisfies its equation; each is shown
to exist (`Aplanado`, `HayRecursion`, `ModPowEsPot`) and then to have the values the
proofs use.

- *Week 20.* `Inductivo20`, for any clients, figures and texts; assumptions
  `FileSystem20Valido` and `Servidor20Valido`, the types of the constants. The
  invariant has the file system (`Bueno20`) and the types of `pedido` and
  `hilo`, as nothing else bounds what a call is made with. `Bueno20` adds to the
  parts of `UnidadSana` (no name twice and no block twice, a bitmap exact but for
  the blocks in `perdidos`, free blocks blank, every block of a file but the last
  full) the types, the sizes, that no file has the empty name,
  and that each file has at least a block, which are what `agregar` relies on to
  find where a text ends. `UnidadSiempreSana` (`UnidadSana`) and `SoloUnDelete`
  (`SoloCrece`) follow; a Delete without a figure is a case of `eliminar` of its
  own, where the last slot goes and no block is freed. `escribir` is a chain of `agregar`, one for each
  character (`Escrituras`), each of which leaves the others' texts alone and
  makes that of the figure longer or, on a full disk, changes nothing;
  `EscribeBien` is the induction along it.
- *Diffie-Hellman.* `ModPowEsPot`: squaring and multiplying with the rest taken
  at every product is the power, for any base, exponent and modulus.
  `SecretosSiempreIguales` (`SecretosIguales`) is then that powers of powers
  commute (`Conmutan`). `InvDiffie` says of each object that its keys and its
  secret are the powers they stand for. Assumption `DiffieValido`: two objects,
  moduli above 4, which the range of the private keys supposes. Numbers are
  unbounded: the overflow of section 3 is outside.
- *Subnets.* `InductivoSubredes`, for any base, order, list of requests and
  width of an address; assumption `SubredesValido` (above). `InvSubredes` says
  that those with an address are the first m of the list, the greatest first,
  each with the mask of its size and at its place from the base (`Lugar`: the
  sum of the sizes before it, or the total less the sum up to it), that the
  others have none, and that sizes are those of `Ajustado`. `SubredesBien` alone
  is not inductive: it says nothing of where the next `calc` starts from.
  `AjustadoBien` and `MascaraBien` show that the doubling of the constructor and
  the halving of `calcMask` meet at the same power of two, whatever the number
  of hosts; `SumaCabe` that together they fit in the address space, so that the
  stretch does not run into itself; `SinHuecos` and `Lugares` that the places
  cover it once. For the alignment, each size divides those before it in the
  sorted list (`TallasDividen`), hence their sum, and the address space, so
  wrapping does no harm (`Alineadas`). From it `SubredesSiempreBien`
  (`SubredesBien`).

Only model-checked:

- all liveness, which is out of the prover's reach under fairness:
  `TodasEntregadas`, `FinDeMain`, `TodosRespondidos`, `Contestados`, `ForkContestado`
  and the two `ClienteSuelto`;
- `BloquesMarcados`, which the program violates.

Every other property of the runs is a theorem.

## 5. Not modelled

- Texts: bodies of figures, formats of answers, XML and HTML are atoms or left
  out. Requests longer than one read of the Tenedor (256 bytes) are left out, and
  so is the cut of texts at 1023 bytes in the simulation.
- `leer` with a limit is an operator of the model and is used by the
  properties; it changes no state and is no action. `unsafe_size`, listing and
  printing likewise.
- CONNECT within `StorageServer`: the signals are in `Tenedor`. The framing of the
  messages between the two (above) is not composed.
- Datagram sockets, IPv6 and certificates, beyond what the signals do.
- The exception paths of the Tenedor's accept loop, which end the program, and the
  overflow of `currentServerIndex`, an `int` that only grows.
- Clients of week 20 that are killed while they wait; a client that shuts its
  connection before the end of the headers is one whose request has no action.
- Of week 8, that its constructor does not blank the unit; its other methods are
  those of week 20.
- The exercises `01`, `02`, `03` and `07`, which echo or print a message, and
  `src/OS/HW01-File_System`, which does not compile.
- Data without program: Packet Tracer files, captures, certificates, documents.

## 6. Plan

Done, most important first: the file system with its uses, its abstract store,
its crashes and the proof of its invariant; TSQ with its proofs; the simulation
composed of two queues, with its proofs; the Tenedor with its abstract register
and the proof that it implements it; the storage server over file system and sockets; week 4,
week 9 and week 20 with their clients; the two programs of extra credit; the
proof of every safety property the runs check.

Left: `Tenedor` composed with `StorageServer`, with the framing of their messages.
