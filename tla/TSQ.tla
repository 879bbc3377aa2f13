-------------------------------- MODULE TSQ ---------------------------------
(***************************************************************************)
(* The queue of the simulation, common/tsq.hpp: a mutex around a FIFO      *)
(* queue and a semaphore that counts what there is to consume.  What runs  *)
(* under the mutex is one step; the semaphore is signalled or waited for   *)
(* outside it, in a step of its own.                                       *)
(***************************************************************************)
EXTENDS Naturals, Sequences, FiniteSets

CONSTANTS
  Productores, Consumidores,  \* threads that enqueue, and that dequeue
  Sondeadores,                \* threads that only call try_dequeue
  Elementos,                  \* what is queued
  Tope                        \* bound: the most permits explored

ASSUME TSQValida ==
  /\ Productores \cap Consumidores = {}
  /\ Tope \in Nat

VARIABLES
  cola,   \* queue_ and the value of canConsume_
  paso    \* where each thread is: "fuera", "senal" after the push of enqueue,
          \* "frente" after the wait of dequeue

tsqVars == <<cola, paso>>

Hilos == Productores \cup Consumidores
ColaVacia == [queue_ |-> <<>>, canConsume_ |-> 0]

\* Permits of the semaphore: given, about to be given, and in the hands of a
\* consumer.
Senalando == {h \in Hilos : paso[h] = "senal"}
Sacando == {h \in Hilos : paso[h] = "frente"}
Permisos == cola.canConsume_ + Cardinality(Senalando) + Cardinality(Sacando)

Meter(q, e) == [q EXCEPT !.queue_ = Append(@, e)]
\* A slip: the signal is given only to a queue that was empty.
SenalarPrimero(q) == IF Len(q.queue_) = 1 THEN [q EXCEPT !.canConsume_ = @ + 1] ELSE q
Senalar(q) == [q EXCEPT !.canConsume_ = @ + 1]
Tomar(q) == [q EXCEPT !.canConsume_ = @ - 1]
Sacar(q) == [q EXCEPT !.queue_ = Tail(@)]

TSQInit == cola = ColaVacia /\ paso = [h \in Hilos |-> "fuera"]

\* enqueue and emplace: push under the mutex, then signal.
EnqueuePush(h, e) ==
  /\ paso[h] = "fuera"
  /\ cola' = Meter(cola, e)
  /\ paso' = [paso EXCEPT ![h] = "senal"]

EnqueueSignal(h) ==
  /\ paso[h] = "senal"
  /\ cola' = Senalar(cola)
  /\ paso' = [paso EXCEPT ![h] = "fuera"]

\* A slip: the wait does not look at the value.
DequeueWaitCiego(h) ==
  /\ paso[h] = "fuera"
  /\ cola' = Tomar(cola)
  /\ paso' = [paso EXCEPT ![h] = "frente"]

\* dequeue: wait on the semaphore, then front and pop under the mutex.  The
\* front of an empty queue is undefined: the thread gets no further.
DequeueWait(h) ==
  /\ paso[h] = "fuera"
  /\ cola.canConsume_ > 0
  /\ cola' = Tomar(cola)
  /\ paso' = [paso EXCEPT ![h] = "frente"]

DequeuePop(h) ==
  /\ paso[h] = "frente"
  /\ cola.queue_ # <<>>
  /\ cola' = Sacar(cola)
  /\ paso' = [paso EXCEPT ![h] = "fuera"]

\* try_dequeue: under the mutex, and the semaphore is not touched.
TryDequeue(h) ==
  /\ cola.queue_ # <<>>
  /\ cola' = Sacar(cola)
  /\ UNCHANGED paso

Encolar == \E h \in Productores, e \in Elementos : EnqueuePush(h, e)

Resto ==
  \/ \E h \in Productores : EnqueueSignal(h)
  \/ \E h \in Consumidores : DequeueWait(h) \/ DequeuePop(h)

NextBloqueante == Encolar \/ Resto

\* With try_dequeue too, and at most Tope permits for TLC.
TSQNext ==
  \/ Permisos < Tope /\ Encolar
  \/ Resto
  \/ \E h \in Sondeadores : TryDequeue(h)

TSQSpec == TSQInit /\ [][TSQNext]_tsqVars

\* Producers and consumers that block, and no other use of the queue.
SpecBloqueante == TSQInit /\ [][NextBloqueante]_tsqVars
-----------------------------------------------------------------------------
\* The queue holds elements, the semaphore never goes below zero, and only a
\* producer signals and only a consumer takes the front.
TSQTypeOK ==
  /\ cola \in [queue_ : Seq(Elementos), canConsume_ : Nat]
  /\ paso \in [Hilos -> {"fuera", "senal", "frente"}]
  /\ \A h \in Hilos : /\ paso[h] = "senal" => h \in Productores
                      /\ paso[h] = "frente" => h \in Consumidores

\* No wakeup is lost: each element in the queue has its permit, try_dequeue
\* or not, so a consumer asleep on the semaphore never leaves one behind.
PermisosCubren == Len(cola.queue_) <= Permisos

\* A consumer that came through the wait finds an element: the semaphore
\* waits until there is something to consume (tsq.hpp:66).
NuncaVacia == Sacando # {} => cola.queue_ # <<>>
=============================================================================
