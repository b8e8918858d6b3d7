------------------------------- MODULE Server -------------------------------
(***************************************************************************)
(* The connection queue of operating-systems/assignment_1/server.c and the *)
(* threads that share it: one producer thread that accepts connections and *)
(* puts them in s_g_queue, and the consumer threads that take them out.    *)
(* Every step between two operations on queue_access_mutex, non_empty_queue*)
(* or non_full_queue is an action of its own, so that the mutual exclusion *)
(* and the wake-ups are the code's and not the model's.                    *)
(*                                                                         *)
(* A connection is the number of its accept(): the first is 1, the second  *)
(* 2.  What a consumer does with a connection between taking it and        *)
(* closing it (server.c:262-281) is one step here; module Session models   *)
(* it.                                                                     *)
(***************************************************************************)
EXTENDS Integers, FiniteSets

CONSTANTS Producer,                 \* the thread of producerThreadHandler
          Consumers,                \* the threads of consumerThreadHandler
          NoThread,                 \* owner of a mutex that is free
          MAX_PENDING_CONNECTIONS,  \* slots of s_g_queue
          MaxConnections,           \* bound: how many connections ever arrive
          SpuriousWakeups           \* may pthread_cond_wait return unsignalled?

ASSUME ThreadAssumption ==
    /\ Producer \notin Consumers
    /\ NoThread \notin Consumers \cup {Producer}

ASSUME SizeAssumption ==
    /\ MAX_PENDING_CONNECTIONS \in Nat \ {0}
    /\ MaxConnections \in Nat
    /\ SpuriousWakeups \in BOOLEAN

Threads == Consumers \cup {Producer}
Slots == 0 .. MAX_PENDING_CONNECTIONS - 1
Connections == 1 .. MaxConnections

VARIABLES
    pc,                  \* where each thread is
    queue_access_mutex,  \* the thread that holds it, or NoThread
    clients,             \* Queue.clients: the ring; 0 is a slot never written
    head, tail,          \* Queue.head, Queue.tail
    currentSize,         \* Queue.currentSize
    clientSocketFd,      \* the producer's local: the connection in its hand
    clientInfo,          \* each consumer's local: the connection in its hand
    accepted,            \* number of accept() calls that returned a connection
    closed,              \* connections whose descriptor has been closed
    exited               \* has exit(EXIT_FAILURE) been called?

queueVars == <<clients, head, tail, currentSize>>
vars == <<pc, queue_access_mutex, queueVars, clientSocketFd, clientInfo,
          accepted, closed, exited>>

ProducerPc == {"accept", "lock", "insert", "wait_non_full", "woken_non_full",
               "reinsert", "signal", "unlock"}
ConsumerPc == {"lock", "pop", "wait_non_empty", "woken_non_empty", "retry",
               "signal", "unlock", "process"}

TypeOK ==
    /\ pc \in [Threads -> ProducerPc \cup ConsumerPc]
    /\ pc[Producer] \in ProducerPc
    /\ \A c \in Consumers : pc[c] \in ConsumerPc
    /\ queue_access_mutex \in Threads \cup {NoThread}
    /\ clients \in [Slots -> Connections \cup {0}]
    /\ head \in Slots
    /\ tail \in Slots
    /\ currentSize \in 0 .. MAX_PENDING_CONNECTIONS
    /\ clientSocketFd \in Connections \cup {-1}
    /\ clientInfo \in [Consumers -> Connections \cup {0}]
    /\ accepted \in 0 .. MaxConnections
    /\ closed \in SUBSET Connections
    /\ exited \in BOOLEAN

Init ==
    /\ pc = [t \in Threads |-> IF t = Producer THEN "accept" ELSE "lock"]
    /\ queue_access_mutex = NoThread
    /\ clients = [s \in Slots |-> 0]
    /\ head = 0
    /\ tail = 0
    /\ currentSize = 0
    /\ clientSocketFd = -1
    /\ clientInfo = [c \in Consumers |-> 0]
    /\ accepted = 0
    /\ closed = {}
    /\ exited = FALSE
-----------------------------------------------------------------------------
(* The pthread operations, for a thread t that goes from one place of its  *)
(* code to another.                                                        *)

Goto(t, place) == pc' = [pc EXCEPT ![t] = place]

\* A plausible slip: taking the mutex without waiting for its owner.
Acquire_Barge(t, from, to) ==
    /\ ~exited
    /\ pc[t] = from
    /\ queue_access_mutex' = t
    /\ Goto(t, to)
    /\ UNCHANGED <<queueVars, clientSocketFd, clientInfo, accepted, closed, exited>>

\* pthread_mutex_lock, and the end of pthread_cond_wait, which takes the
\* mutex again.
Acquire(t, from, to) ==
    /\ ~exited
    /\ pc[t] = from
    /\ queue_access_mutex = NoThread
    /\ queue_access_mutex' = t
    /\ Goto(t, to)
    /\ UNCHANGED <<queueVars, clientSocketFd, clientInfo, accepted, closed, exited>>

\* pthread_mutex_unlock
Release(t, from, to) ==
    /\ ~exited
    /\ pc[t] = from
    /\ queue_access_mutex' = NoThread
    /\ Goto(t, to)
    /\ UNCHANGED <<queueVars, clientSocketFd, clientInfo, accepted, closed, exited>>

\* The start of pthread_cond_wait: t gives up the mutex and sleeps, at once.
CondWait(t, place) ==
    /\ queue_access_mutex' = NoThread
    /\ Goto(t, place)

\* pthread_cond_broadcast by t, which goes on to "unlock": every sleeper on
\* the condition is woken and will compete for the mutex.
Broadcast(t, asleep, woken) ==
    pc' = [u \in Threads |-> IF u = t THEN "unlock"
                             ELSE IF pc[u] = asleep THEN woken
                             ELSE pc[u]]

\* POSIX lets pthread_cond_wait return although nobody signalled.
SpuriousWake(t) ==
    /\ SpuriousWakeups
    /\ ~exited
    /\ \/ pc[t] = "wait_non_full"  /\ Goto(t, "woken_non_full")
       \/ pc[t] = "wait_non_empty" /\ Goto(t, "woken_non_empty")
    /\ UNCHANGED <<queue_access_mutex, queueVars, clientSocketFd, clientInfo,
                   accepted, closed, exited>>
-----------------------------------------------------------------------------
(* The operations of struct Queue.                                         *)

QueueFull == currentSize = MAX_PENDING_CONNECTIONS
QueueEmpty == currentSize = 0

\* A plausible slip: the tail does not wrap around.
queueInsert_NoWrap(value) ==
    /\ ~QueueFull
    /\ clients' = [clients EXCEPT ![tail] = value]
    /\ tail' = tail + 1
    /\ currentSize' = currentSize + 1
    /\ UNCHANGED head

\* A plausible slip: a full queue is not refused.
queueInsert_Overwrite(value) ==
    /\ clients' = [clients EXCEPT ![tail] = value]
    /\ tail' = (tail + 1) % MAX_PENDING_CONNECTIONS
    /\ currentSize' = currentSize + 1
    /\ UNCHANGED head

queueInsert(value) ==
    /\ ~QueueFull
    /\ clients' = [clients EXCEPT ![tail] = value]
    /\ tail' = (tail + 1) % MAX_PENDING_CONNECTIONS
    /\ currentSize' = currentSize + 1
    /\ UNCHANGED head

queuePop(c) ==
    /\ ~QueueEmpty
    /\ clientInfo' = [clientInfo EXCEPT ![c] = clients[head]]
    /\ head' = (head + 1) % MAX_PENDING_CONNECTIONS
    /\ currentSize' = currentSize - 1
    /\ UNCHANGED <<clients, tail>>
-----------------------------------------------------------------------------
(* producerThreadHandler                                                   *)

Accept ==
    /\ ~exited
    /\ pc[Producer] = "accept"
    /\ accepted < MaxConnections
    /\ accepted' = accepted + 1
    /\ clientSocketFd' = accepted + 1
    /\ Goto(Producer, "lock")
    /\ UNCHANGED <<queue_access_mutex, queueVars, clientInfo, closed, exited>>

ProducerLock == Acquire(Producer, "lock", "insert")

\* A plausible slip: on a full queue the producer tries again at once.
ProducerInsert_Spins ==
    /\ ~exited
    /\ pc[Producer] = "insert"
    /\ \/ /\ queueInsert(clientSocketFd)
          /\ Goto(Producer, "signal")
       \/ /\ QueueFull
          /\ Goto(Producer, "reinsert")
          /\ UNCHANGED queueVars
    /\ UNCHANGED <<queue_access_mutex, clientSocketFd, clientInfo, accepted, closed,
                   exited>>

\* The first queueInsert; on a full queue the producer goes to sleep.
ProducerInsert ==
    /\ ~exited
    /\ pc[Producer] = "insert"
    /\ \/ /\ queueInsert(clientSocketFd)
          /\ Goto(Producer, "signal")
          /\ UNCHANGED queue_access_mutex
       \/ /\ QueueFull
          /\ CondWait(Producer, "wait_non_full")
          /\ UNCHANGED queueVars
    /\ UNCHANGED <<clientSocketFd, clientInfo, accepted, closed, exited>>

ProducerWake == Acquire(Producer, "woken_non_full", "reinsert")

\* The second queueInsert, after the sleep: a queue still full ends the
\* process; success skips the broadcast of non_empty_queue.
ProducerReinsert ==
    /\ ~exited
    /\ pc[Producer] = "reinsert"
    /\ \/ /\ queueInsert(clientSocketFd)
          /\ Goto(Producer, "unlock")
          /\ UNCHANGED exited
       \/ /\ QueueFull
          /\ exited' = TRUE
          /\ UNCHANGED <<pc, queueVars>>
    /\ UNCHANGED <<queue_access_mutex, clientSocketFd, clientInfo, accepted, closed>>

\* A plausible slip: the size is compared as it was before the insertion.
ProducerSignal_Before ==
    /\ ~exited
    /\ pc[Producer] = "signal"
    /\ IF currentSize = 0
       THEN Broadcast(Producer, "wait_non_empty", "woken_non_empty")
       ELSE Goto(Producer, "unlock")
    /\ UNCHANGED <<queue_access_mutex, queueVars, clientSocketFd, clientInfo,
                   accepted, closed, exited>>

\* Only the insertion into an empty queue is announced.
ProducerSignal ==
    /\ ~exited
    /\ pc[Producer] = "signal"
    /\ IF currentSize = 1
       THEN Broadcast(Producer, "wait_non_empty", "woken_non_empty")
       ELSE Goto(Producer, "unlock")
    /\ UNCHANGED <<queue_access_mutex, queueVars, clientSocketFd, clientInfo,
                   accepted, closed, exited>>

ProducerUnlock == Release(Producer, "unlock", "accept")

ProducerStep ==
    \/ ProducerLock \/ ProducerInsert \/ ProducerWake \/ ProducerReinsert
    \/ ProducerSignal \/ ProducerUnlock
-----------------------------------------------------------------------------
(* consumerThreadHandler                                                   *)

ConsumerLock(c) == Acquire(c, "lock", "pop")

ConsumerPop(c) ==
    /\ ~exited
    /\ pc[c] = "pop"
    /\ \/ /\ queuePop(c)
          /\ Goto(c, "signal")
          /\ UNCHANGED queue_access_mutex
       \/ /\ QueueEmpty
          /\ CondWait(c, "wait_non_empty")
          /\ UNCHANGED <<queueVars, clientInfo>>
    /\ UNCHANGED <<clientSocketFd, accepted, closed, exited>>

ConsumerWake(c) == Acquire(c, "woken_non_empty", "retry")

\* A plausible slip: continue is forgotten.
ConsumerRetry_FallsThrough(c) == Release(c, "retry", "process")

\* Unlock and continue: the woken consumer starts its loop again.
ConsumerRetry(c) == Release(c, "retry", "lock")

\* A plausible slip: the size is compared as it was before the removal.
ConsumerSignal_Before(c) ==
    /\ ~exited
    /\ pc[c] = "signal"
    /\ IF currentSize = MAX_PENDING_CONNECTIONS
       THEN Broadcast(c, "wait_non_full", "woken_non_full")
       ELSE Goto(c, "unlock")
    /\ UNCHANGED <<queue_access_mutex, queueVars, clientSocketFd, clientInfo,
                   accepted, closed, exited>>

\* Only the first removal from a full queue is announced.
ConsumerSignal(c) ==
    /\ ~exited
    /\ pc[c] = "signal"
    /\ IF currentSize = MAX_PENDING_CONNECTIONS - 1
       THEN Broadcast(c, "wait_non_full", "woken_non_full")
       ELSE Goto(c, "unlock")
    /\ UNCHANGED <<queue_access_mutex, queueVars, clientSocketFd, clientInfo,
                   accepted, closed, exited>>

\* A plausible slip: the unlock before the session is forgotten.
ConsumerUnlock_Forgotten(c) ==
    /\ ~exited
    /\ pc[c] = "unlock"
    /\ Goto(c, "process")
    /\ UNCHANGED <<queue_access_mutex, queueVars, clientSocketFd, clientInfo,
                   accepted, closed, exited>>

ConsumerUnlock(c) == Release(c, "unlock", "process")

\* The end of processRequests and close(clientInfo.fd).
ConsumerClose(c) ==
    /\ ~exited
    /\ pc[c] = "process"
    /\ closed' = closed \cup {clientInfo[c]}
    /\ Goto(c, "lock")
    /\ UNCHANGED <<queue_access_mutex, queueVars, clientSocketFd, clientInfo,
                   accepted, exited>>

ConsumerStep(c) ==
    \/ ConsumerLock(c) \/ ConsumerPop(c) \/ ConsumerWake(c) \/ ConsumerRetry(c)
    \/ ConsumerSignal(c) \/ ConsumerUnlock(c) \/ ConsumerClose(c)
-----------------------------------------------------------------------------
Next ==
    \/ Accept
    \/ ProducerStep
    \/ \E c \in Consumers : ConsumerStep(c)
    \/ \E t \in Threads : SpuriousWake(t)

Spec == Init /\ [][Next]_vars

\* Every thread that can run is eventually run, and a client ends its
\* session; whether another client connects is not the server's to decide.
FairSpec ==
    /\ Spec
    /\ WF_vars(ProducerStep)
    /\ \A c \in Consumers : WF_vars(ConsumerStep(c))
-----------------------------------------------------------------------------
(* What the properties speak of.                                           *)

\* The producer has accepted a connection and not yet queued it.
HoldingPc == {"lock", "insert", "wait_non_full", "woken_non_full", "reinsert"}
InHand == IF pc[Producer] \in HoldingPc THEN 1 ELSE 0

\* How many connections the consumers have taken out of the queue so far.
Taken == accepted - currentSize - InHand

\* Consumers that have taken a connection and not yet closed it.
Busy == {c \in Consumers : pc[c] \in {"signal", "unlock", "process"}}

\* Between locking and unlocking queue_access_mutex.
InCriticalSection(t) ==
    IF t = Producer
    THEN pc[t] \in {"insert", "reinsert", "signal", "unlock"}
    ELSE pc[t] \in {"pop", "retry", "signal", "unlock"}

\* The k-th slot from the head, counting from 0.
SlotAt(k) == (head + k) % MAX_PENDING_CONNECTIONS

\* No two threads are ever inside the queue's critical section, and a free
\* mutex means nobody is: cond_wait and the two unlock paths of the producer
\* (server.c:216-234) and of the consumer (server.c:249-260) all pair up.
MutualExclusion ==
    \A t \in Threads : InCriticalSection(t) <=> queue_access_mutex = t

\* The ring holds exactly the connections accepted and not yet taken, oldest
\* at the head: no insertion overwrites a waiting connection, no wrap-around
\* skips or repeats one, and connections leave in the order they arrived.
QueueIsBacklog ==
    \A k \in 0 .. currentSize - 1 : clients[SlotAt(k)] = Taken + k + 1

\* Every connection taken is in the hand of exactly one consumer or closed,
\* never both: no connection is served twice, closed while it is served, or
\* dropped on the way from the queue to close().
EachTakenOnce ==
    /\ \A c, d \in Busy : clientInfo[c] = clientInfo[d] => c = d
    /\ \A c \in Busy : clientInfo[c] \notin closed
    /\ closed \cup {clientInfo[c] : c \in Busy} = 1 .. Taken

\* The producer sleeps only on a queue that is still full, or that has just
\* been made non-full by a consumer about to announce it: its wake-up is
\* never lost, although only the removal from a full queue broadcasts
\* (server.c:256).
ProducerSleepsOnFullQueue ==
    pc[Producer] = "wait_non_full" =>
        \/ QueueFull
        \/ /\ currentSize = MAX_PENDING_CONNECTIONS - 1
           /\ \E c \in Consumers : pc[c] = "signal"

\* The exit in server.c:221-224 needs a wake-up that nobody signalled: after
\* a real one the producer always finds room, because it alone inserts.
ExitOnlyAfterSpuriousWakeup == exited => SpuriousWakeups

\* While no more connections have arrived than the queue can hold, a
\* consumer sleeps only on an empty queue, or on one whose first connection
\* the producer is about to announce: broadcasting only when the size
\* becomes 1 (server.c:230) loses no wake-up.
LightLoadWakesConsumers ==
    accepted <= MAX_PENDING_CONNECTIONS =>
        \A c \in Consumers : pc[c] = "wait_non_empty" =>
            QueueEmpty \/ pc[Producer] = "signal"

Standstill ==
    /\ pc[Producer] = "wait_non_full"
    /\ \A c \in Consumers : pc[c] = "wait_non_empty"

\* The producer never waits for room while every consumer waits for work.
NoStandstill == ~Standstill

\* Every connection that is accepted is served and closed, unless more come
\* than the queue can hold: until then neither a consumer's sleep nor the
\* producer's rare broadcasts (server.c:230, 251) keep one waiting for ever.
EveryConnectionServed ==
    \A i \in Connections :
        accepted >= i ~> i \in closed \/ accepted > MAX_PENDING_CONNECTIONS

\* A producer that sleeps on a full queue is woken, queues its connection and
\* accepts again (server.c:219-227), unless the threads have come to the
\* standstill: the one way in which the server stops working.
ProducerResumes ==
    pc[Producer] = "wait_non_full" ~> pc[Producer] = "accept" \/ Standstill
=============================================================================
