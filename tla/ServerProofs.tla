---------------------------- MODULE ServerProofs ----------------------------
(* Proofs that the properties of Server hold for every number of consumer  *)
(* threads, every queue size and every number of connections, and that the *)
(* threads and the ring implement the waiting line of Dispatch.            *)
EXTENDS ServerRefinement, SequenceTheorems, TLAPS

\* One step of the ring: adding one to an index stays in the ring and wraps
\* only at its last slot.
LEMMA RingStep ==
    ASSUME NEW i \in Slots
    PROVE  /\ (i + 1) % MAX_PENDING_CONNECTIONS \in Slots
           /\ (i + 1) % MAX_PENDING_CONNECTIONS =
                  IF i + 1 = MAX_PENDING_CONNECTIONS THEN 0 ELSE i + 1
  BY SizeAssumption DEF Slots

\* A position at most one turn ahead of a slot, as a slot.
LEMMA RingPosition ==
    ASSUME NEW i \in Slots, NEW k \in 0 .. MAX_PENDING_CONNECTIONS
    PROVE  /\ (i + k) % MAX_PENDING_CONNECTIONS \in Slots
           /\ (i + k) % MAX_PENDING_CONNECTIONS =
                  IF i + k < MAX_PENDING_CONNECTIONS
                  THEN i + k ELSE i + k - MAX_PENDING_CONNECTIONS
  BY SizeAssumption DEF Slots

\* Stepping over a position's slot, and counting positions from the next slot.
LEMMA RingShift ==
    ASSUME NEW i \in Slots, NEW k \in 0 .. MAX_PENDING_CONNECTIONS - 1
    PROVE  /\ (((i + k) % MAX_PENDING_CONNECTIONS) + 1) % MAX_PENDING_CONNECTIONS
                  = (i + (k + 1)) % MAX_PENDING_CONNECTIONS
           /\ (((i + 1) % MAX_PENDING_CONNECTIONS) + k) % MAX_PENDING_CONNECTIONS
                  = (i + (k + 1)) % MAX_PENDING_CONNECTIONS
  <1>1. k \in 0 .. MAX_PENDING_CONNECTIONS /\ k + 1 \in 0 .. MAX_PENDING_CONNECTIONS
    BY SizeAssumption
  <1>2. (i + k) % MAX_PENDING_CONNECTIONS \in Slots
    BY <1>1, RingPosition
  <1>3. (i + 1) % MAX_PENDING_CONNECTIONS \in Slots
    BY RingStep
  <1>4. (i + (k + 1)) % MAX_PENDING_CONNECTIONS =
            IF i + (k + 1) < MAX_PENDING_CONNECTIONS
            THEN i + (k + 1) ELSE i + (k + 1) - MAX_PENDING_CONNECTIONS
    BY <1>1, RingPosition
  <1>5. (((i + k) % MAX_PENDING_CONNECTIONS) + 1) % MAX_PENDING_CONNECTIONS
            = (i + (k + 1)) % MAX_PENDING_CONNECTIONS
    <2>1. (i + k) % MAX_PENDING_CONNECTIONS =
              IF i + k < MAX_PENDING_CONNECTIONS
              THEN i + k ELSE i + k - MAX_PENDING_CONNECTIONS
      BY <1>1, RingPosition
    <2> DEFINE p == (i + k) % MAX_PENDING_CONNECTIONS
    <2>2. (p + 1) % MAX_PENDING_CONNECTIONS =
              IF p + 1 = MAX_PENDING_CONNECTIONS THEN 0 ELSE p + 1
      BY <1>2, RingStep
    <2>3. QED
      BY <1>1, <1>4, <2>1, <2>2, SizeAssumption DEF Slots
  <1>6. (((i + 1) % MAX_PENDING_CONNECTIONS) + k) % MAX_PENDING_CONNECTIONS
            = (i + (k + 1)) % MAX_PENDING_CONNECTIONS
    <2>1. (i + 1) % MAX_PENDING_CONNECTIONS =
              IF i + 1 = MAX_PENDING_CONNECTIONS THEN 0 ELSE i + 1
      BY RingStep
    <2> DEFINE p == (i + 1) % MAX_PENDING_CONNECTIONS
    <2>2. (p + k) % MAX_PENDING_CONNECTIONS =
              IF p + k < MAX_PENDING_CONNECTIONS
              THEN p + k ELSE p + k - MAX_PENDING_CONNECTIONS
      BY <1>1, <1>3, RingPosition
    <2>3. QED
      BY <1>1, <1>4, <2>1, <2>2, SizeAssumption DEF Slots
  <1>7. QED
    BY <1>5, <1>6

\* Different positions within one turn are different slots.
LEMMA RingDistinct ==
    ASSUME NEW i \in Slots,
           NEW k \in 0 .. MAX_PENDING_CONNECTIONS - 1,
           NEW j \in 0 .. k - 1
    PROVE  (i + j) % MAX_PENDING_CONNECTIONS # (i + k) % MAX_PENDING_CONNECTIONS
  <1>1. j \in 0 .. MAX_PENDING_CONNECTIONS /\ k \in 0 .. MAX_PENDING_CONNECTIONS
    BY SizeAssumption
  <1>2. (i + j) % MAX_PENDING_CONNECTIONS =
            IF i + j < MAX_PENDING_CONNECTIONS
            THEN i + j ELSE i + j - MAX_PENDING_CONNECTIONS
    BY <1>1, RingPosition
  <1>3. (i + k) % MAX_PENDING_CONNECTIONS =
            IF i + k < MAX_PENDING_CONNECTIONS
            THEN i + k ELSE i + k - MAX_PENDING_CONNECTIONS
    BY <1>1, RingPosition
  <1>4. QED
    BY <1>2, <1>3, SizeAssumption DEF Slots
-----------------------------------------------------------------------------
(* The inductive invariant, in layers: each is preserved by a step because *)
(* the ones before it hold.                                                *)

\* TypeOK, but a consumer might still close the connection 0; and what the
\* producer holds is the connection it accepted last.
Shape ==
    /\ pc \in [Threads -> ProducerPc \cup ConsumerPc]
    /\ pc[Producer] \in ProducerPc
    /\ \A c \in Consumers : pc[c] \in ConsumerPc
    /\ queue_access_mutex \in Threads \cup {NoThread}
    /\ clients \in [Slots -> Connections \cup {0}]
    /\ head \in Slots
    /\ tail \in Slots
    /\ currentSize \in 0 .. MAX_PENDING_CONNECTIONS
    /\ clientSocketFd \in Connections \cup {-1}
    /\ clientInfo \in [Consumers -> Connections \cup {0}]
    /\ accepted \in 0 .. MaxConnections
    /\ closed \in SUBSET (Connections \cup {0})
    /\ exited \in BOOLEAN
    /\ pc[Producer] \in HoldingPc => clientSocketFd = accepted /\ accepted > 0

\* The tail is the slot behind the last waiting connection, and no more
\* connections wait than have been accepted.
Aligned ==
    /\ tail = SlotAt(currentSize)
    /\ Taken >= 0

\* A producer woken from its sleep finds room, unless nobody woke it.
WokenFindsRoom ==
    /\ pc[Producer] \in {"woken_non_full", "reinsert"} => ~QueueFull \/ SpuriousWakeups
    /\ ExitOnlyAfterSpuriousWakeup

\* As long as no more connections have come than fit, the producer never
\* meets a full queue, and sleepers see an empty one or one being announced.
LightLoad ==
    accepted <= MAX_PENDING_CONNECTIONS =>
        /\ pc[Producer] \notin {"wait_non_full", "woken_non_full", "reinsert"}
        /\ \A c \in Consumers : pc[c] = "wait_non_empty" =>
              QueueEmpty \/ (pc[Producer] = "signal" /\ currentSize = 1)

\* The inductive invariant.
IInv ==
    /\ Shape
    /\ MutualExclusion
    /\ Aligned
    /\ QueueIsBacklog
    /\ EachTakenOnce
    /\ ProducerSleepsOnFullQueue
    /\ WokenFindsRoom
    /\ LightLoad
-----------------------------------------------------------------------------
\* The inductive invariant holds when the queue is empty, the mutex free and
\* every thread at the start of its loop.
LEMMA InitIInv == Init => IInv
  <1> SUFFICES ASSUME Init PROVE IInv
    OBVIOUS
  <1> USE ThreadAssumption, SizeAssumption DEF Init
  <1>1. pc[Producer] = "accept" /\ \A c \in Consumers : pc[c] = "lock"
    BY DEF Threads
  <1>2. Shape
    <2>1. pc \in [Threads -> ProducerPc \cup ConsumerPc]
      BY DEF ProducerPc, ConsumerPc
    <2>2. 0 \in Slots /\ accepted \in 0 .. MaxConnections
      BY DEF Slots
    <2>3. /\ clients \in [Slots -> Connections \cup {0}]
          /\ clientInfo \in [Consumers -> Connections \cup {0}]
      OBVIOUS
    <2>4. /\ pc[Producer] \in ProducerPc
          /\ \A c \in Consumers : pc[c] \in ConsumerPc
          /\ pc[Producer] \notin HoldingPc
      BY <1>1 DEF ProducerPc, ConsumerPc, HoldingPc
    <2>5. currentSize \in 0 .. MAX_PENDING_CONNECTIONS
      OBVIOUS
    <2>6. QED
      BY <2>1, <2>2, <2>3, <2>4, <2>5 DEF Shape
  <1>3. MutualExclusion
    BY <1>1 DEF MutualExclusion, InCriticalSection, Threads
  <1>4. Taken = 0 /\ Busy = {}
    <2>1. InHand = 0
      BY <1>1 DEF InHand, HoldingPc
    <2>2. QED
      BY <1>1, <2>1 DEF Taken, Busy
  <1>5. Aligned
    BY <1>4, RingPosition DEF Aligned, SlotAt, Slots
  <1>6. QueueIsBacklog /\ EachTakenOnce
    BY <1>4 DEF QueueIsBacklog, EachTakenOnce
  <1>7. ProducerSleepsOnFullQueue /\ WokenFindsRoom /\ LightLoad
    BY <1>1 DEF ProducerSleepsOnFullQueue, WokenFindsRoom, LightLoad,
                ExitOnlyAfterSpuriousWakeup
  <1>8. QED
    BY <1>2, <1>3, <1>5, <1>6, <1>7 DEF IInv

\* Every step keeps the types, and the connection in the producer's hand is
\* the one accepted last.
LEMMA ShapeStep == Shape /\ [Next]_vars => Shape'
  <1> SUFFICES ASSUME Shape, [Next]_vars PROVE Shape'
    OBVIOUS
  <1> USE ThreadAssumption, SizeAssumption
          DEF Shape, Threads, ProducerPc, ConsumerPc, HoldingPc, queueVars, Goto
  <1>1. CASE Accept
    BY <1>1 DEF Accept, Connections
  <1>2. CASE ProducerLock \/ ProducerWake
    BY <1>2 DEF ProducerLock, ProducerWake, Acquire
  <1>3. CASE ProducerInsert
    BY <1>3, RingStep DEF ProducerInsert, queueInsert, QueueFull, CondWait
  <1>4. CASE ProducerReinsert
    <2>1. CASE queueInsert(clientSocketFd)
      BY <1>4, <2>1, RingStep DEF ProducerReinsert, queueInsert, QueueFull
    <2>2. CASE QueueFull
      BY <1>4, <2>2 DEF ProducerReinsert, queueInsert, QueueFull
    <2>3. QED
      BY <1>4, <2>1, <2>2 DEF ProducerReinsert
  <1>5. CASE ProducerSignal
    BY <1>5 DEF ProducerSignal, Broadcast
  <1>6. CASE ProducerUnlock
    BY <1>6 DEF ProducerUnlock, Release
  <1>7. ASSUME NEW c \in Consumers, ConsumerLock(c) \/ ConsumerWake(c)
        PROVE  Shape'
    BY <1>7 DEF ConsumerLock, ConsumerWake, Acquire
  <1>8. ASSUME NEW c \in Consumers, ConsumerPop(c)
        PROVE  Shape'
    BY <1>8, RingStep DEF ConsumerPop, queuePop, QueueEmpty, CondWait
  <1>9. ASSUME NEW c \in Consumers, ConsumerRetry(c) \/ ConsumerUnlock(c)
        PROVE  Shape'
    BY <1>9 DEF ConsumerRetry, ConsumerUnlock, Release
  <1>10. ASSUME NEW c \in Consumers, ConsumerSignal(c)
         PROVE  Shape'
    BY <1>10 DEF ConsumerSignal, Broadcast
  <1>11. ASSUME NEW c \in Consumers, ConsumerClose(c)
         PROVE  Shape'
    BY <1>11 DEF ConsumerClose
  <1>12. ASSUME NEW t \in Threads, SpuriousWake(t)
         PROVE  Shape'
    BY <1>12 DEF SpuriousWake
  <1>13. CASE UNCHANGED vars
    BY <1>13 DEF vars
  <1>14. QED
    BY <1>1, <1>2, <1>3, <1>4, <1>5, <1>6, <1>7, <1>8, <1>9, <1>10, <1>11,
       <1>12, <1>13
       DEF Next, ProducerStep, ConsumerStep

\* No step brings a second thread into the critical section: lock and the end
\* of cond_wait need a free mutex, unlock and cond_wait give it up.
LEMMA MutexStep == Shape /\ MutualExclusion /\ [Next]_vars => MutualExclusion'
  <1> SUFFICES ASSUME Shape, MutualExclusion, [Next]_vars
               PROVE  MutualExclusion'
    OBVIOUS
  <1> USE ThreadAssumption
          DEF Shape, MutualExclusion, InCriticalSection, Threads, Goto
  <1>1. CASE Accept
    BY <1>1 DEF Accept
  <1>2. CASE ProducerLock \/ ProducerWake
    BY <1>2 DEF ProducerLock, ProducerWake, Acquire
  <1>3. CASE ProducerInsert
    BY <1>3 DEF ProducerInsert, CondWait
  <1>4. CASE ProducerReinsert
    BY <1>4 DEF ProducerReinsert
  <1>5. CASE ProducerSignal
    BY <1>5 DEF ProducerSignal, Broadcast
  <1>6. CASE ProducerUnlock
    BY <1>6 DEF ProducerUnlock, Release
  <1>7. ASSUME NEW c \in Consumers, ConsumerLock(c) \/ ConsumerWake(c)
        PROVE  MutualExclusion'
    BY <1>7 DEF ConsumerLock, ConsumerWake, Acquire
  <1>8. ASSUME NEW c \in Consumers, ConsumerPop(c)
        PROVE  MutualExclusion'
    BY <1>8 DEF ConsumerPop, CondWait
  <1>9. ASSUME NEW c \in Consumers, ConsumerRetry(c) \/ ConsumerUnlock(c)
        PROVE  MutualExclusion'
    BY <1>9 DEF ConsumerRetry, ConsumerUnlock, Release
  <1>10. ASSUME NEW c \in Consumers, ConsumerSignal(c)
         PROVE  MutualExclusion'
    BY <1>10 DEF ConsumerSignal, Broadcast
  <1>11. ASSUME NEW c \in Consumers, ConsumerClose(c)
         PROVE  MutualExclusion'
    BY <1>11 DEF ConsumerClose
  <1>12. ASSUME NEW t \in Threads, SpuriousWake(t)
         PROVE  MutualExclusion'
    BY <1>12 DEF SpuriousWake
  <1>13. CASE UNCHANGED vars
    BY <1>13 DEF vars
  <1>14. QED
    BY <1>1, <1>2, <1>3, <1>4, <1>5, <1>6, <1>7, <1>8, <1>9, <1>10, <1>11,
       <1>12, <1>13
       DEF Next, ProducerStep, ConsumerStep
-----------------------------------------------------------------------------
(* Four kinds of step move a connection; the others are quiet: they leave  *)
(* the queue and everyone's connections alone.                             *)

\* Nothing moves.
Quiet ==
    /\ UNCHANGED <<queueVars, clientInfo, accepted, closed>>
    /\ InHand' = InHand
    /\ Busy' = Busy

\* accept() puts a connection into the producer's hand.
Arrives ==
    /\ UNCHANGED <<queueVars, clientInfo, closed>>
    /\ accepted' = accepted + 1
    /\ InHand = 0 /\ InHand' = 1
    /\ Busy' = Busy

\* The connection in the hand goes into the queue.
Enqueued ==
    /\ queueInsert(accepted)
    /\ UNCHANGED <<clientInfo, accepted, closed>>
    /\ InHand = 1 /\ InHand' = 0
    /\ Busy' = Busy

\* c takes the oldest connection.
Dequeued(c) ==
    /\ queuePop(c)
    /\ UNCHANGED <<accepted, closed>>
    /\ InHand' = InHand
    /\ c \notin Busy /\ Busy' = Busy \cup {c}

\* c closes its connection.
Closes(c) ==
    /\ UNCHANGED <<queueVars, clientInfo, accepted>>
    /\ InHand' = InHand
    /\ closed' = closed \cup {clientInfo[c]}
    /\ c \in Busy /\ Busy' = Busy \ {c}

\* Every step of a thread is one of the five kinds above.
LEMMA StepKinds ==
    ASSUME Shape, [Next]_vars
    PROVE  \/ Quiet
           \/ Arrives
           \/ Enqueued
           \/ \E c \in Consumers : Dequeued(c)
           \/ \E c \in Consumers : Closes(c)
  <1> USE ThreadAssumption
          DEF Shape, Threads, Quiet, InHand, HoldingPc, Busy, queueVars, Goto
  <1>1. CASE ProducerLock \/ ProducerWake
    BY <1>1 DEF ProducerLock, ProducerWake, Acquire
  <1>2. CASE ProducerInsert
    BY <1>2 DEF ProducerInsert, CondWait, Enqueued, queueInsert
  <1>3. CASE ProducerReinsert
    BY <1>3 DEF ProducerReinsert, Enqueued, queueInsert
  <1>4. CASE ProducerSignal
    BY <1>4 DEF ProducerSignal, Broadcast
  <1>5. CASE ProducerUnlock
    BY <1>5 DEF ProducerUnlock, Release
  <1>6. ASSUME NEW c \in Consumers, ConsumerLock(c) \/ ConsumerWake(c)
        PROVE  Quiet
    BY <1>6 DEF ConsumerLock, ConsumerWake, Acquire
  <1>7. ASSUME NEW c \in Consumers, ConsumerPop(c)
        PROVE  Quiet \/ Dequeued(c)
    BY <1>7 DEF ConsumerPop, CondWait, Dequeued
  <1>8. ASSUME NEW c \in Consumers, ConsumerRetry(c) \/ ConsumerUnlock(c)
        PROVE  Quiet
    BY <1>8 DEF ConsumerRetry, ConsumerUnlock, Release
  <1>9. ASSUME NEW c \in Consumers, ConsumerSignal(c)
        PROVE  Quiet
    BY <1>9 DEF ConsumerSignal, Broadcast
  <1>10. ASSUME NEW c \in Consumers, ConsumerClose(c)
         PROVE  Closes(c)
    BY <1>10 DEF ConsumerClose, Closes
  <1>11. ASSUME NEW t \in Threads, SpuriousWake(t)
         PROVE  Quiet
    BY <1>11 DEF SpuriousWake
  <1>12. CASE Accept
    BY <1>12 DEF Accept, Arrives
  <1>13. CASE UNCHANGED vars
    BY <1>13 DEF vars
  <1>14. QED
    BY <1>1, <1>2, <1>3, <1>4, <1>5, <1>6, <1>7, <1>8, <1>9, <1>10, <1>11,
       <1>12, <1>13
       DEF Next, ProducerStep, ConsumerStep

\* Insertion and removal keep the tail at the slot behind the backlog.
LEMMA AlignedStep == Shape /\ Aligned /\ [Next]_vars => Aligned'
  <1> SUFFICES ASSUME Shape, Aligned, [Next]_vars
               PROVE  Aligned'
    OBVIOUS
  <1> USE SizeAssumption DEF Shape, Aligned, Taken
  <1>0. InHand \in {0, 1}
    BY DEF InHand
  <1>1. CASE Quiet
    BY <1>1 DEF Quiet, queueVars, SlotAt
  <1>2. CASE Arrives
    BY <1>2 DEF Arrives, queueVars, SlotAt
  <1>3. CASE Enqueued
    <2>1. currentSize + 1 \in 0 .. MAX_PENDING_CONNECTIONS
      BY <1>3 DEF Enqueued, queueInsert, QueueFull
    <2>2. tail' = SlotAt(currentSize)'
      <3>1. currentSize \in 0 .. MAX_PENDING_CONNECTIONS - 1
        BY <2>1
      <3>2. (tail + 1) % MAX_PENDING_CONNECTIONS
                = (head + (currentSize + 1)) % MAX_PENDING_CONNECTIONS
        BY <3>1, RingShift DEF SlotAt
      <3>3. QED
        BY <1>3, <3>2 DEF Enqueued, queueInsert, SlotAt
    <2>3. Taken' >= 0
      BY <1>3 DEF Enqueued, queueInsert
    <2>4. QED
      BY <2>2, <2>3
  <1>4. ASSUME NEW c \in Consumers, Dequeued(c)
        PROVE  Aligned'
    <2>1. currentSize - 1 \in 0 .. MAX_PENDING_CONNECTIONS
      BY <1>4 DEF Dequeued, queuePop, QueueEmpty
    <2>2. currentSize - 1 \in 0 .. MAX_PENDING_CONNECTIONS - 1
      BY <2>1
    <2>3. (head + ((currentSize - 1) + 1)) % MAX_PENDING_CONNECTIONS = tail
      BY <2>1 DEF SlotAt
    <2>4. tail' = SlotAt(currentSize)'
      BY <1>4, <2>2, <2>3, RingShift DEF Dequeued, queuePop, SlotAt
    <2>5. Taken' >= 0
      BY <1>0, <1>4 DEF Dequeued, queuePop
    <2>6. QED
      BY <2>4, <2>5
  <1>5. ASSUME NEW c \in Consumers, Closes(c)
        PROVE  Aligned'
    BY <1>5 DEF Closes, queueVars, SlotAt
  <1>6. QED
    BY <1>1, <1>2, <1>3, <1>4, <1>5, StepKinds

\* The ring goes on holding the backlog in order: an insertion writes the slot
\* behind it, a removal gives up its first.
LEMMA BacklogStep ==
    Shape /\ Aligned /\ QueueIsBacklog /\ [Next]_vars => QueueIsBacklog'
  <1> SUFFICES ASSUME Shape, Aligned, QueueIsBacklog, [Next]_vars
               PROVE  QueueIsBacklog'
    OBVIOUS
  <1> USE SizeAssumption DEF Shape, Aligned, QueueIsBacklog, Taken
  <1>0. InHand \in {0, 1}
    BY DEF InHand
  <1>1. CASE Quiet
    BY <1>1 DEF Quiet, queueVars, SlotAt
  <1>2. CASE Arrives
    BY <1>2 DEF Arrives, queueVars, SlotAt
  <1>3. CASE Enqueued
    <2> SUFFICES ASSUME NEW k \in 0 .. currentSize
                 PROVE  clients'[SlotAt(k)] = Taken + k + 1
      <3>1. Taken' = Taken /\ currentSize' - 1 = currentSize /\ head' = head
        BY <1>3 DEF Enqueued, queueInsert
      <3>2. QED
        BY <3>1 DEF SlotAt
    <2>1. SlotAt(k) \in Slots /\ currentSize < MAX_PENDING_CONNECTIONS
      BY <1>3, RingPosition DEF Enqueued, queueInsert, QueueFull, SlotAt
    <2>2. CASE k = currentSize
      BY <1>3, <2>1, <2>2 DEF Enqueued, queueInsert
    <2>3. CASE k < currentSize
      <3>1. SlotAt(k) # SlotAt(currentSize)
        <4>1. currentSize \in 0 .. MAX_PENDING_CONNECTIONS - 1
              /\ k \in 0 .. currentSize - 1
          BY <2>1, <2>3
        <4>2. QED
          BY <4>1, RingDistinct DEF SlotAt
      <3>2. clients'[SlotAt(k)] = clients[SlotAt(k)]
        BY <1>3, <2>1, <3>1 DEF Enqueued, queueInsert
      <3>3. QED
        BY <2>3, <3>2
    <2>4. QED
      BY <2>2, <2>3
  <1>4. ASSUME NEW c \in Consumers, Dequeued(c)
        PROVE  QueueIsBacklog'
    <2> SUFFICES ASSUME NEW k \in 0 .. currentSize - 2
                 PROVE  clients'[SlotAt(k)'] = Taken' + k + 1
      BY <1>4 DEF Dequeued, queuePop, SlotAt
    <2>1. SlotAt(k)' = SlotAt(k + 1)
      <3>1. k \in 0 .. MAX_PENDING_CONNECTIONS - 1
        OBVIOUS
      <3>2. QED
        BY <1>4, <3>1, RingShift DEF Dequeued, queuePop, SlotAt
    <2>2. clients[SlotAt(k + 1)] = Taken + (k + 1) + 1
      OBVIOUS
    <2>3. Taken' = Taken + 1 /\ clients' = clients
      BY <1>0, <1>4 DEF Dequeued, queuePop
    <2>4. QED
      BY <1>0, <2>1, <2>2, <2>3
  <1>5. ASSUME NEW c \in Consumers, Closes(c)
        PROVE  QueueIsBacklog'
    BY <1>5 DEF Closes, queueVars, SlotAt
  <1>6. QED
    BY <1>1, <1>2, <1>3, <1>4, <1>5, StepKinds

\* A removal hands out a connection nobody had, and a close finishes one that
\* its consumer had.
LEMMA TakenOnceStep ==
    Shape /\ Aligned /\ QueueIsBacklog /\ EachTakenOnce /\ [Next]_vars
        => EachTakenOnce'
  <1> SUFFICES ASSUME Shape, Aligned, QueueIsBacklog, EachTakenOnce, [Next]_vars
               PROVE  EachTakenOnce'
    OBVIOUS
  <1>0. /\ InHand \in {0, 1}
        /\ Busy \subseteq Consumers
        /\ Taken \in Nat
    BY SizeAssumption DEF InHand, Busy, Aligned, Taken, Shape
  <1>1. CASE Quiet
    BY <1>1 DEF Quiet, queueVars, EachTakenOnce, Taken
  <1>2. CASE Arrives
    <2>1. Taken' = Taken
      BY <1>2 DEF Arrives, queueVars, Taken, Shape
    <2>2. QED
      BY <1>2, <2>1 DEF Arrives, EachTakenOnce
  <1>3. CASE Enqueued
    <2>1. Taken' = Taken
      BY <1>3 DEF Enqueued, queueInsert, Taken, Shape
    <2>2. QED
      BY <1>3, <2>1 DEF Enqueued, EachTakenOnce
  <1>4. ASSUME NEW c \in Consumers, Dequeued(c)
        PROVE  EachTakenOnce'
    <2>1. Taken' = Taken + 1
      BY <1>0, <1>4 DEF Dequeued, queuePop, Taken, Shape
    <2>2. clientInfo'[c] = Taken + 1
      <3>1. SlotAt(0) = head
        BY SizeAssumption DEF SlotAt, Shape, Slots
      <3>2. 0 \in 0 .. currentSize - 1
        BY <1>4, SizeAssumption DEF Dequeued, queuePop, QueueEmpty, Shape
      <3>3. clients[head] = Taken + 1
        BY <1>0, <3>1, <3>2 DEF QueueIsBacklog
      <3>4. QED
        BY <1>4, <3>3 DEF Dequeued, queuePop, Shape
    <2>3. \A d \in Consumers \ {c} : clientInfo'[d] = clientInfo[d]
      BY <1>4 DEF Dequeued, queuePop, Shape
    <2>4. closed' = closed /\ Busy' = Busy \cup {c} /\ c \notin Busy
      BY <1>4 DEF Dequeued
    <2>5. \A d \in Busy : clientInfo[d] \in 1 .. Taken /\ clientInfo[d] # Taken + 1
      BY <1>0 DEF EachTakenOnce
    <2>6. Taken + 1 \notin closed
      BY <1>0 DEF EachTakenOnce
    <2>7. \A d, e \in Busy' : clientInfo'[d] = clientInfo'[e] => d = e
      BY <1>0, <2>2, <2>3, <2>4, <2>5 DEF EachTakenOnce
    <2>8. \A d \in Busy' : clientInfo'[d] \notin closed'
      BY <1>0, <2>2, <2>3, <2>4, <2>6 DEF EachTakenOnce
    <2>9. closed' \cup {clientInfo'[d] : d \in Busy'} = 1 .. Taken'
      <3>1. {clientInfo'[d] : d \in Busy'} = {clientInfo[d] : d \in Busy} \cup {Taken + 1}
        BY <1>0, <2>2, <2>3, <2>4
      <3>2. 1 .. Taken + 1 = (1 .. Taken) \cup {Taken + 1}
        BY <1>0
      <3>3. QED
        BY <2>1, <2>4, <3>1, <3>2 DEF EachTakenOnce
    <2>10. QED
      BY <2>7, <2>8, <2>9 DEF EachTakenOnce
  <1>5. ASSUME NEW c \in Consumers, Closes(c)
        PROVE  EachTakenOnce'
    <2>1. Taken' = Taken
      BY <1>5 DEF Closes, queueVars, Taken
    <2>2. QED
      BY <1>0, <1>5, <2>1 DEF Closes, EachTakenOnce
  <1>6. QED
    BY <1>1, <1>2, <1>3, <1>4, <1>5, StepKinds
-----------------------------------------------------------------------------
(* The wake-ups.                                                           *)

\* No removal leaves the producer asleep without a broadcast to come.
LEMMA ProducerSleepsStep ==
    /\ Shape /\ MutualExclusion /\ ProducerSleepsOnFullQueue /\ [Next]_vars
    => ProducerSleepsOnFullQueue'
  <1> SUFFICES ASSUME Shape, MutualExclusion, ProducerSleepsOnFullQueue, [Next]_vars,
                      pc'[Producer] = "wait_non_full"
               PROVE  ProducerSleepsOnFullQueue'
    BY DEF ProducerSleepsOnFullQueue
  <1> USE ThreadAssumption, SizeAssumption
          DEF ProducerSleepsOnFullQueue, QueueFull, Threads, Shape, Goto, queueVars
  <1>1. CASE Accept \/ ProducerLock \/ ProducerWake \/ ProducerUnlock
    BY <1>1 DEF Accept, ProducerLock, ProducerWake, ProducerUnlock, Acquire, Release
  <1>2. CASE ProducerInsert
    BY <1>2 DEF ProducerInsert, CondWait
  <1>3. CASE ProducerReinsert \/ ProducerSignal
    BY <1>3 DEF ProducerReinsert, ProducerSignal, Broadcast
  <1>4. ASSUME NEW c \in Consumers, ConsumerLock(c) \/ ConsumerWake(c)
        PROVE  ProducerSleepsOnFullQueue'
    BY <1>4 DEF ConsumerLock, ConsumerWake, Acquire
  <1>5. ASSUME NEW c \in Consumers, ConsumerPop(c)
        PROVE  ProducerSleepsOnFullQueue'
    <2>1. \A d \in Consumers : pc[d] # "signal"
      BY <1>5 DEF ConsumerPop, MutualExclusion, InCriticalSection
    <2>2. QueueFull
      BY <1>5, <2>1 DEF ConsumerPop, CondWait
    <2>3. QED
      BY <1>5, <2>2 DEF ConsumerPop, queuePop, QueueEmpty, CondWait
  <1>6. ASSUME NEW c \in Consumers, ConsumerRetry(c) \/ ConsumerUnlock(c)
        PROVE  ProducerSleepsOnFullQueue'
    BY <1>6 DEF ConsumerRetry, ConsumerUnlock, Release
  <1>7. ASSUME NEW c \in Consumers, ConsumerSignal(c)
        PROVE  ProducerSleepsOnFullQueue'
    <2>1. \A d \in Consumers : pc[d] = "signal" => d = c
      BY <1>7 DEF ConsumerSignal, MutualExclusion, InCriticalSection
    <2>2. currentSize # MAX_PENDING_CONNECTIONS - 1
      BY <1>7 DEF ConsumerSignal, Broadcast
    <2>3. QED
      BY <1>7, <2>1, <2>2 DEF ConsumerSignal
  <1>8. ASSUME NEW c \in Consumers, ConsumerClose(c)
        PROVE  ProducerSleepsOnFullQueue'
    BY <1>8 DEF ConsumerClose
  <1>9. ASSUME NEW t \in Threads, SpuriousWake(t)
        PROVE  ProducerSleepsOnFullQueue'
    BY <1>9 DEF SpuriousWake
  <1>10. CASE UNCHANGED vars
    BY <1>10 DEF vars
  <1>11. QED
    BY <1>1, <1>2, <1>3, <1>4, <1>5, <1>6, <1>7, <1>8, <1>9, <1>10
       DEF Next, ProducerStep, ConsumerStep

\* Nobody but the producer inserts, so the room it was woken for is still there.
LEMMA WokenFindsRoomStep ==
    Shape /\ WokenFindsRoom /\ [Next]_vars => WokenFindsRoom'
  <1> SUFFICES ASSUME Shape, WokenFindsRoom, [Next]_vars
               PROVE  WokenFindsRoom'
    OBVIOUS
  <1> USE ThreadAssumption, SizeAssumption
          DEF WokenFindsRoom, ExitOnlyAfterSpuriousWakeup, QueueFull, Threads,
              Shape, Goto, queueVars
  <1>1. CASE Accept \/ ProducerLock \/ ProducerWake \/ ProducerUnlock
    BY <1>1 DEF Accept, ProducerLock, ProducerWake, ProducerUnlock, Acquire, Release
  <1>2. CASE ProducerInsert
    BY <1>2 DEF ProducerInsert, CondWait
  <1>3. CASE ProducerReinsert \/ ProducerSignal
    BY <1>3 DEF ProducerReinsert, ProducerSignal, Broadcast
  <1>4. ASSUME NEW c \in Consumers, ConsumerLock(c) \/ ConsumerWake(c)
        PROVE  WokenFindsRoom'
    BY <1>4 DEF ConsumerLock, ConsumerWake, Acquire
  <1>5. ASSUME NEW c \in Consumers, ConsumerPop(c)
        PROVE  WokenFindsRoom'
    BY <1>5 DEF ConsumerPop, queuePop, QueueEmpty, CondWait
  <1>6. ASSUME NEW c \in Consumers, ConsumerRetry(c) \/ ConsumerUnlock(c)
        PROVE  WokenFindsRoom'
    BY <1>6 DEF ConsumerRetry, ConsumerUnlock, Release
  <1>7. ASSUME NEW c \in Consumers, ConsumerSignal(c)
        PROVE  WokenFindsRoom'
    BY <1>7 DEF ConsumerSignal, Broadcast
  <1>8. ASSUME NEW c \in Consumers, ConsumerClose(c)
        PROVE  WokenFindsRoom'
    BY <1>8 DEF ConsumerClose
  <1>9. ASSUME NEW t \in Threads, SpuriousWake(t)
        PROVE  WokenFindsRoom'
    BY <1>9 DEF SpuriousWake
  <1>10. CASE UNCHANGED vars
    BY <1>10 DEF vars
  <1>11. QED
    BY <1>1, <1>2, <1>3, <1>4, <1>5, <1>6, <1>7, <1>8, <1>9, <1>10
       DEF Next, ProducerStep, ConsumerStep

\* As long as the connections fit, no insertion leaves a consumer asleep
\* without a broadcast to come.
LEMMA LightLoadStep ==
    Shape /\ MutualExclusion /\ Aligned /\ LightLoad /\ [Next]_vars => LightLoad'
  <1> SUFFICES ASSUME Shape, MutualExclusion, Aligned, LightLoad, [Next]_vars,
                      accepted' <= MAX_PENDING_CONNECTIONS
               PROVE  LightLoad'
    BY DEF LightLoad
  <1> USE ThreadAssumption, SizeAssumption
          DEF LightLoad, QueueFull, QueueEmpty, Threads, Shape, Goto, queueVars
  <1>1. CASE Accept
    BY <1>1 DEF Accept
  <1>2. CASE ProducerLock \/ ProducerWake \/ ProducerUnlock
    BY <1>2 DEF ProducerLock, ProducerWake, ProducerUnlock, Acquire, Release
  <1>3. CASE ProducerInsert
    <2>1. ~QueueFull
      BY <1>3 DEF ProducerInsert, Aligned, Taken, InHand, HoldingPc
    <2>2. QED
      BY <1>3, <2>1 DEF ProducerInsert, queueInsert
  <1>4. CASE ProducerReinsert
    BY <1>4 DEF ProducerReinsert
  <1>5. CASE ProducerSignal
    BY <1>5 DEF ProducerSignal, Broadcast
  <1>6. ASSUME NEW c \in Consumers, ConsumerLock(c) \/ ConsumerWake(c)
        PROVE  LightLoad'
    BY <1>6 DEF ConsumerLock, ConsumerWake, Acquire
  <1>7. ASSUME NEW c \in Consumers, ConsumerPop(c)
        PROVE  LightLoad'
    <2>1. pc[Producer] # "signal"
      BY <1>7 DEF ConsumerPop, MutualExclusion, InCriticalSection
    <2>2. QED
      BY <1>7, <2>1 DEF ConsumerPop, queuePop, CondWait
  <1>8. ASSUME NEW c \in Consumers, ConsumerRetry(c) \/ ConsumerUnlock(c)
        PROVE  LightLoad'
    BY <1>8 DEF ConsumerRetry, ConsumerUnlock, Release
  <1>9. ASSUME NEW c \in Consumers, ConsumerSignal(c)
        PROVE  LightLoad'
    BY <1>9 DEF ConsumerSignal, Broadcast
  <1>10. ASSUME NEW c \in Consumers, ConsumerClose(c)
        PROVE  LightLoad'
    BY <1>10 DEF ConsumerClose
  <1>11. ASSUME NEW t \in Threads, SpuriousWake(t)
        PROVE  LightLoad'
    BY <1>11 DEF SpuriousWake
  <1>12. CASE UNCHANGED vars
    BY <1>12 DEF vars
  <1>13. QED
    BY <1>1, <1>2, <1>3, <1>4, <1>5, <1>6, <1>7, <1>8, <1>9, <1>10, <1>11, <1>12
       DEF Next, ProducerStep, ConsumerStep
-----------------------------------------------------------------------------
(* The results.                                                            *)

\* The invariant holds in every state of every run of the server's threads.
THEOREM Invariance == Spec => []IInv
  <1>1. IInv /\ [Next]_vars => IInv'
    BY ShapeStep, MutexStep, AlignedStep, BacklogStep, TakenOnceStep,
       ProducerSleepsStep, WokenFindsRoomStep, LightLoadStep
       DEF IInv
  <1>2. QED
    BY InitIInv, <1>1, PTL DEF Spec

\* Every variable of the queue and its threads keeps its type: the ring's
\* indices stay inside it and only descriptors that accept() returned are
\* ever closed (server.c:169-202, 281).
THEOREM TypeCorrect == Spec => []TypeOK
  <1>1. IInv => TypeOK
    <2> SUFFICES ASSUME IInv PROVE TypeOK
      OBVIOUS
    <2>1. Taken \in Nat /\ Taken <= MaxConnections
      BY SizeAssumption DEF IInv, Shape, Aligned, Taken, InHand
    <2>2. closed \subseteq Connections
      BY <2>1, SizeAssumption DEF IInv, EachTakenOnce, Connections
    <2>3. QED
      BY <2>2 DEF IInv, Shape, TypeOK
  <1>2. QED
    BY Invariance, <1>1, PTL

\* Whatever the number of threads, at most one is inside a critical section
\* of queue_access_mutex (server.c:216-234, 249-260).
THEOREM MutuallyExclusive == Spec => []MutualExclusion
  BY Invariance, PTL DEF IInv

\* Whatever the size of the ring and the number of connections, it holds
\* exactly the accepted connections not yet taken, in order of arrival
\* (server.c:169-202).
THEOREM FirstInFirstOut == Spec => []QueueIsBacklog
  BY Invariance, PTL DEF IInv

\* Every connection goes to one consumer and is closed at most once
\* (server.c:240-285).
THEOREM NothingTwice == Spec => []EachTakenOnce
  BY Invariance, PTL DEF IInv

\* The producer's wake-up is never lost, for any queue size and number of
\* consumers, spurious wake-ups included (server.c:218-220, 256-258).
THEOREM ProducerNeverForgotten == Spec => []ProducerSleepsOnFullQueue
  BY Invariance, PTL DEF IInv

\* Without spurious wake-ups the server never exits at server.c:221-224.
THEOREM ExitNeedsSpuriousWakeup == Spec => []ExitOnlyAfterSpuriousWakeup
  BY Invariance, PTL DEF IInv, WokenFindsRoom

\* Up to as many connections as the queue has slots, no consumer sleeps
\* through an insertion (server.c:230-231, 250-254).
THEOREM LightLoadNoLostWakeup == Spec => []LightLoadWakesConsumers
  <1>1. IInv => LightLoadWakesConsumers
    BY DEF IInv, LightLoad, LightLoadWakesConsumers
  <1>2. QED
    BY Invariance, <1>1, PTL
-----------------------------------------------------------------------------
(* The waiting line.                                                       *)

\* The waiting line is a sequence of the currentSize slots from the head.
LineIsRing ==
    /\ Line \in Seq(Connections \cup {0})
    /\ Len(Line) = currentSize
    /\ \A k \in 1 .. currentSize : Line[k] = clients[SlotAt(k - 1)]

\* It is, in every state of the right shape.
LEMMA LineIsSeq == Shape => LineIsRing
  <1> SUFFICES ASSUME Shape PROVE LineIsRing
    OBVIOUS
  <1>1. currentSize \in Nat /\ currentSize <= MAX_PENDING_CONNECTIONS
    BY SizeAssumption DEF Shape
  <1>2. ASSUME NEW k \in 1 .. currentSize
        PROVE  clients[SlotAt(k - 1)] \in Connections \cup {0}
    <2>1. k - 1 \in 0 .. MAX_PENDING_CONNECTIONS
      BY <1>1, SizeAssumption
    <2>2. SlotAt(k - 1) \in Slots
      BY <2>1, RingPosition DEF Shape, SlotAt
    <2>3. QED
      BY <2>2 DEF Shape
  <1>3. Line \in Seq(Connections \cup {0})
    BY <1>1, <1>2, IsASeq DEF Line
  <1>4. DOMAIN Line = 1 .. currentSize
    BY DEF Line
  <1>5. Len(Line) = currentSize
    BY <1>1, <1>3, <1>4, LenProperties
  <1>6. QED
    BY <1>3, <1>5 DEF Line, LineIsRing

\* And in the state after every step that keeps the shape.
LEMMA LineStaysSeq == Shape' => LineIsRing'
  BY LineIsSeq, PTL

\* A quiet step changes nothing that Dispatch sees.
LEMMA QuietStutters == Quiet => UNCHANGED D!vars
  BY DEF Quiet, queueVars, D!vars, Line, Serving, SlotAt, InHand

\* Nor does an arrival: the connection is still in the producer's hand.
LEMMA ArrivalStutters ==
    ASSUME Shape, Arrives
    PROVE  UNCHANGED D!vars
  BY DEF Shape, Arrives, queueVars, D!vars, Line, Serving, SlotAt

\* A successful queueInsert appends to the line.
LEMMA EnqueuedAdmits ==
    ASSUME Shape, Aligned, Shape', Enqueued
    PROVE  D!Admit
  <1> DEFINE S == Connections \cup {0}
  <1>1. /\ accepted \in S /\ accepted <= MaxConnections
        /\ currentSize \in Nat /\ currentSize < MAX_PENDING_CONNECTIONS
    BY SizeAssumption DEF Shape, Enqueued, queueInsert, QueueFull, Connections
  <1>2. /\ Line \in Seq(S)
        /\ Len(Line) = currentSize
        /\ \A k \in 1 .. currentSize : Line[k] = clients[SlotAt(k - 1)]
    BY LineIsSeq DEF LineIsRing
  <1>3. /\ Line' \in Seq(S)
        /\ Len(Line') = currentSize + 1
        /\ \A k \in 1 .. currentSize + 1 : Line'[k] = clients'[SlotAt(k - 1)]
    <2>1. currentSize' = currentSize + 1 /\ head' = head
      BY DEF Enqueued, queueInsert
    <2>2. /\ Line' \in Seq(S)
          /\ Len(Line') = currentSize'
          /\ \A k \in 1 .. currentSize' : Line'[k] = clients'[SlotAt(k - 1)']
      BY LineStaysSeq DEF LineIsRing
    <2>3. QED
      BY <2>1, <2>2 DEF SlotAt
  <1>4. /\ Append(Line, accepted) \in Seq(S)
        /\ Len(Append(Line, accepted)) = currentSize + 1
        /\ \A k \in 1 .. currentSize : Append(Line, accepted)[k] = Line[k]
        /\ Append(Line, accepted)[currentSize + 1] = accepted
    BY <1>1, <1>2, AppendProperties
  <1>5. ASSUME NEW k \in 1 .. currentSize + 1
        PROVE  Line'[k] = Append(Line, accepted)[k]
    <2>1. clients' = [clients EXCEPT ![SlotAt(currentSize)] = accepted]
      BY DEF Enqueued, queueInsert, Aligned
    <2>2. CASE k = currentSize + 1
      <3>1. SlotAt(currentSize) \in Slots
        BY DEF Shape, Aligned
      <3>2. QED
        BY <1>1, <1>3, <1>4, <2>1, <2>2, <3>1 DEF Shape
    <2>3. CASE k # currentSize + 1
      <3>1. k - 1 \in 0 .. currentSize - 1 /\ currentSize \in 0 .. MAX_PENDING_CONNECTIONS - 1
        BY <1>1, <2>3, SizeAssumption
      <3>2. SlotAt(k - 1) # SlotAt(currentSize)
        BY <3>1, RingDistinct DEF Shape, SlotAt
      <3>3. SlotAt(k - 1) \in Slots
        <4>1. k - 1 \in 0 .. MAX_PENDING_CONNECTIONS
          BY <1>1, <3>1, SizeAssumption
        <4>2. QED
          BY <4>1, RingPosition DEF Shape, SlotAt
      <3>4. clients'[SlotAt(k - 1)] = clients[SlotAt(k - 1)]
        BY <2>1, <3>2, <3>3 DEF Shape
      <3>5. k \in 1 .. currentSize
        BY <1>1, <2>3
      <3>6. QED
        BY <1>2, <1>3, <1>4, <3>4, <3>5
    <2>4. QED
      BY <2>2, <2>3
  <1>6. Line' = Append(Line, accepted)
    BY <1>3, <1>4, <1>5, SeqEqual
  <1>7. /\ accepted - InHand < MaxConnections
        /\ (accepted - InHand)' = (accepted - InHand) + 1
        /\ (accepted - InHand) + 1 = accepted
    BY <1>1, SizeAssumption DEF Enqueued, Shape
  <1>8. UNCHANGED <<Serving, closed>>
    BY DEF Enqueued, Serving
  <1>9. QED
    BY <1>1, <1>2, <1>6, <1>7, <1>8 DEF D!Admit

\* A successful queuePop hands the head of the line to a free consumer.
LEMMA DequeuedTakes ==
    ASSUME Shape, Shape', NEW c \in Consumers, Dequeued(c)
    PROVE  D!Take(c)
  <1> DEFINE S == Connections \cup {0}
  <1>1. /\ currentSize \in Nat \ {0}
        /\ currentSize' = currentSize - 1
        /\ currentSize <= MAX_PENDING_CONNECTIONS
    BY SizeAssumption DEF Shape, Dequeued, queuePop, QueueEmpty
  <1>2. /\ Line \in Seq(S)
        /\ Len(Line) = currentSize
        /\ \A k \in 1 .. currentSize : Line[k] = clients[SlotAt(k - 1)]
    BY LineIsSeq DEF LineIsRing
  <1>3. Line # <<>>
    BY <1>1, <1>2, EmptySeq
  <1>4. /\ Line' \in Seq(S)
        /\ Len(Line') = currentSize - 1
        /\ \A k \in 1 .. currentSize - 1 : Line'[k] = clients[SlotAt(k)]
    <2>1. /\ Line' \in Seq(S)
          /\ Len(Line') = currentSize'
          /\ \A k \in 1 .. currentSize' : Line'[k] = clients'[SlotAt(k - 1)']
      BY LineStaysSeq DEF LineIsRing
    <2>2. ASSUME NEW k \in 1 .. currentSize - 1
          PROVE  SlotAt(k - 1)' = SlotAt(k)
      <3>1. k - 1 \in 0 .. MAX_PENDING_CONNECTIONS - 1 /\ (k - 1) + 1 = k
        BY <1>1, SizeAssumption
      <3>2. (((head + 1) % MAX_PENDING_CONNECTIONS) + (k - 1))
                    % MAX_PENDING_CONNECTIONS
                = (head + ((k - 1) + 1)) % MAX_PENDING_CONNECTIONS
        BY <3>1, RingShift DEF Shape
      <3>3. QED
        BY <3>1, <3>2 DEF Dequeued, queuePop, SlotAt
    <2>3. clients' = clients
      BY DEF Dequeued, queuePop
    <2>4. QED
      BY <1>1, <2>1, <2>2, <2>3
  <1>5. /\ Tail(Line) \in Seq(S)
        /\ Len(Tail(Line)) = currentSize - 1
        /\ \A k \in 1 .. currentSize - 1 : Tail(Line)[k] = Line[k + 1]
    BY <1>2, <1>3, HeadTailProperties
  <1>6. Line' = Tail(Line)
    <2>1. ASSUME NEW k \in 1 .. currentSize - 1
          PROVE  Line'[k] = Tail(Line)[k]
      <3>1. k + 1 \in 1 .. currentSize /\ (k + 1) - 1 = k
        BY <1>1
      <3>2. QED
        BY <1>2, <1>4, <1>5, <3>1
    <2>2. QED
      BY <1>4, <1>5, <2>1, SeqEqual
  <1>7. Head(Line) = clients[head]
    <2>1. 1 \in 1 .. currentSize
      BY <1>1
    <2>2. Line[1] = clients[SlotAt(0)]
      <3>1. Line[1] = clients[SlotAt(1 - 1)]
        BY <1>2, <2>1
      <3>2. 1 - 1 = 0
        OBVIOUS
      <3>3. QED
        BY <3>1, <3>2
    <2>3. SlotAt(0) = head
      <3>1. head \in Slots
        BY DEF Shape
      <3>2. QED
        BY <3>1, SizeAssumption DEF SlotAt, Slots
    <2>4. Head(Line) = Line[1]
      BY <1>2, <1>3
    <2>5. QED
      BY <2>2, <2>3, <2>4
  <1>8. Serving[c] = 0 /\ Serving' = [Serving EXCEPT ![c] = Head(Line)]
    BY <1>7 DEF Dequeued, queuePop, Serving, Shape
  <1>9. UNCHANGED <<accepted - InHand, closed>>
    BY DEF Dequeued
  <1>10. QED
    BY <1>3, <1>6, <1>8, <1>9 DEF D!Take

\* Closing a connection finishes it.
LEMMA ClosesFinishes ==
    ASSUME Shape, Aligned, EachTakenOnce, NEW c \in Consumers, Closes(c)
    PROVE  D!Finish(c)
  <1>1. clientInfo[c] # 0
    <2>1. Taken \in Nat
      BY SizeAssumption DEF Shape, Aligned, Taken, InHand
    <2>2. clientInfo[c] \in 1 .. Taken
      BY DEF EachTakenOnce, Closes
    <2>3. QED
      BY <2>1, <2>2
  <1>2. Serving[c] = clientInfo[c]
    BY DEF Serving, Closes
  <1>3. Serving' = [Serving EXCEPT ![c] = 0]
    BY DEF Serving, Closes
  <1>4. UNCHANGED <<accepted - InHand, Line>>
    BY DEF Closes, queueVars, Line, SlotAt
  <1>5. QED
    BY <1>1, <1>2, <1>3, <1>4 DEF D!Finish, Closes

\* Every behaviour of the threads of server.c:204-285, whatever their number,
\* the size of the ring and the wake-ups, is a behaviour of the waiting line.
THEOREM QueueImplementsDispatch == Spec => ImplementsDispatch
  <1>1. Init => D!Init
    <2> SUFFICES ASSUME Init PROVE D!Init
      OBVIOUS
    <2>1. IInv
      BY InitIInv
    <2>2. pc[Producer] = "accept" /\ \A c \in Consumers : pc[c] = "lock"
      BY ThreadAssumption DEF Init, Threads
    <2>3. accepted - InHand = 0
      <3>1. InHand = 0
        BY <2>2 DEF InHand, HoldingPc
      <3>2. QED
        BY <3>1 DEF Init
    <2>4. Line = <<>>
      <3>1. Line \in Seq(Connections \cup {0}) /\ Len(Line) = 0
        BY <2>1, LineIsSeq DEF IInv, Init, LineIsRing
      <3>2. QED
        BY <3>1, EmptySeq
    <2>5. Serving = [c \in Consumers |-> 0]
      BY <2>2 DEF Serving, Busy
    <2>6. QED
      BY <2>3, <2>4, <2>5 DEF D!Init, Init
  <1>2. IInv /\ IInv' /\ [Next]_vars => [D!Next]_(D!vars)
    <2> SUFFICES ASSUME IInv, IInv', [Next]_vars PROVE [D!Next]_(D!vars)
      OBVIOUS
    <2> USE DEF IInv
    <2>1. CASE Quiet
      BY <2>1, QuietStutters
    <2>2. CASE Arrives
      BY <2>2, ArrivalStutters
    <2>3. CASE Enqueued
      BY <2>3, EnqueuedAdmits DEF D!Next
    <2>4. ASSUME NEW c \in Consumers, Dequeued(c)
          PROVE  D!Next
      BY <2>4, DequeuedTakes DEF D!Next
    <2>5. ASSUME NEW c \in Consumers, Closes(c)
          PROVE  D!Next
      BY <2>5, ClosesFinishes DEF D!Next
    <2>6. QED
      BY <2>1, <2>2, <2>3, <2>4, <2>5, StepKinds
  <1>3. QED
    BY <1>1, <1>2, Invariance, PTL DEF Spec, ImplementsDispatch, D!Spec
=============================================================================
