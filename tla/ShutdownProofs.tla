--------------------------- MODULE ShutdownProofs ---------------------------
(* Proofs that the statistics are exact and reported consistently, and     *)
(* that the server ends in order, for every number of consumer threads,    *)
(* sessions, answers and signals.                                          *)
EXTENDS Shutdown, FiniteSetTheorems, TLAPS

(* The inductive invariant, in layers: each is preserved by a step because *)
(* the ones before it hold.                                                *)

ConsumerPc == {"queue", "lock", "load", "store", "unlock", "serve", "KISSDB"} \cup Messages

\* What TypeOK says of every variable but answers.
Shape ==
    /\ pc \in [Threads -> {"malloc", "KISSDB_open", "create_producer",
                           "create_consumers", "unborn", "join", "accept"} \cup ConsumerPc]
    /\ adding \in [Consumers -> Counters]
    /\ loaded \in [Consumers -> Nat]
    /\ handler \in [Threads -> {"none", "lock", "read", "print", "unlock", "kill",
                                "close", "destroy", "exit"}]
    /\ statistics_access_mutex \in Threads \cup {NoThread, Destroyed}
    /\ stdout \in Consumers \cup {NoThread}
    /\ counter \in [Counters -> Nat]
    /\ db \in {"NULL", "allocated", "open", "closed"}
    /\ process \in {"running", "exited", "failed", "terminated", "crashed"}
    /\ dying \in BOOLEAN
    /\ signals \in 0 .. MaxSignals
    /\ report \in [Threads -> [Counters -> Nat \cup {-1}]]
    /\ sessions \in 0 .. MaxSessions
    /\ answers \in Nat

\* How far main() has come: who exists by then, and what is the database.
Started ==
    /\ pc[Main] \in {"malloc", "KISSDB_open", "create_producer",
                     "create_consumers", "join"}
    /\ pc[Producer] = IF pc[Main] \in {"create_consumers", "join"}
                      THEN "accept" ELSE "unborn"
    /\ \A c \in Consumers :
          /\ pc[c] \in ConsumerPc \cup {"unborn"}
          /\ pc[Main] = "join" => pc[c] # "unborn"
          /\ pc[Main] \in {"malloc", "KISSDB_open", "create_producer"} => pc[c] = "unborn"
    /\ pc[Main] \in {"create_producer", "create_consumers", "join"}
          => db \in {"open", "closed"}

\* What the handler has read: nothing before it has the mutex, then what the
\* counters are, and all of them once it prints.
Reading ==
    \A t \in Threads :
        /\ handler[t] \in {"none", "lock"} => report[t] = Unread
        /\ handler[t] = "read" =>
              /\ ~Reported(t)
              /\ Protected => \A k \in Counters : report[t][k] \in {-1, counter[k]}
        /\ handler[t] \in {"print", "unlock", "kill", "close", "destroy", "exit"}
              => Reported(t)

\* doCleanUp goes beyond the SIGTERM in the main thread only.
Ending ==
    /\ dying => handler[Main] \in {"close", "destroy", "exit"}
    /\ \A t \in Threads : handler[t] \in {"close", "destroy", "exit"} => t = Main /\ dying
    /\ db = "closed" <=> handler[Main] \in {"destroy", "exit"}

\* The mutex excludes; and a thread that its handler interrupted in between
\* is not, in the handler, in between a second time.
Exclusive ==
    /\ StatisticsExclusive
    /\ Protected => \A t \in Threads :
          handler[t] \in {"read", "print", "unlock"}
              => pc[t] \notin {"load", "store", "unlock"}

\* What has been read of a counter is still its value when it is written.
LoadedIsFresh ==
    Protected => \A c \in Consumers : pc[c] = "store" => loaded[c] = counter[adding[c]]

\* Requests at the database, or unknown to it, are answers to come.
Asking == {d \in Consumers : pc[d] \in {"KISSDB", "unknown"}}
AnswersBounded == answers + Cardinality(Asking) <= MaxAnswers

\* Consumers with a session whose waiting time has been added, and whose
\* service time has not.
InSession ==
    {c \in Consumers :
        \/ pc[c] \in {"serve", "KISSDB"} \cup Messages
        \/ pc[c] \in {"lock", "load", "store"} /\ adding[c] # "total_waiting_time"
        \/ pc[c] = "unlock" /\ adding[c] # "total_service_time"}

\* Both times of a session are added once, and no request counts before the
\* first waiting time.
Balanced ==
    Protected =>
        /\ counter["total_waiting_time"]
              = counter["total_service_time"] + Cardinality(InSession)
        /\ counter["completed_requests"] > 0 => counter["total_waiting_time"] > 0

\* The inductive invariant.
IInv ==
    /\ Shape
    /\ Started
    /\ Exclusive
    /\ Reading
    /\ Ending
    /\ EndsInOrder
    /\ LoadedIsFresh
    /\ AnswersBounded
    /\ NothingLost
    /\ Balanced
    /\ ReportIsConsistent
-----------------------------------------------------------------------------
\* The sets of counters and threads, element by element.
LEMMA Named ==
    /\ "total_waiting_time" \in Counters
    /\ "total_service_time" \in Counters
    /\ "completed_requests" \in Counters
    /\ Main \in Threads /\ Producer \in Threads /\ Consumers \subseteq Threads
    /\ NoThread \notin Threads
    /\ Destroyed \notin Threads \cup {NoThread}
  BY ShutdownAssumption DEF Counters, Threads

\* Every step keeps the types.
LEMMA ShapeStep == Shape /\ [Next]_vars => Shape'
  <1> SUFFICES ASSUME Shape, [Next]_vars PROVE Shape'
    OBVIOUS
  <1> USE Named, ShutdownAssumption
          DEF Shape, Threads, ConsumerPc, Messages, At, InHandler, Goto, HandlerGoto,
              StartAdding, Lock, Unlock
  <1>1. CASE MainStep
    BY <1>1 DEF MainStep, AllocateDb, OpenDb, CreateThreads
  <1>2. ASSUME NEW c \in Consumers,
               TakeSession(c) \/ LockStatistics(c) \/ Load(c)
        PROVE  Shape'
    BY <1>2 DEF TakeSession, LockStatistics, Load
  <1>15. ASSUME NEW c \in Consumers, UnlockStatistics(c)
         PROVE  Shape'
    <2>1. \/ pc' = [pc EXCEPT ![c] = "queue"]
          \/ pc' = [pc EXCEPT ![c] = "serve"]
      BY <1>15 DEF UnlockStatistics
    <2>2. /\ adding' = [adding EXCEPT ![c] = "completed_requests"]
          /\ statistics_access_mutex' \in {Destroyed, NoThread}
          /\ UNCHANGED <<loaded, handler, stdout, counter, db, process, dying, signals,
                         report, sessions, answers>>
      BY <1>15 DEF UnlockStatistics
    <2>3. QED
      BY <2>1, <2>2
  <1>3. ASSUME NEW c \in Consumers, Store(c)
        PROVE  Shape'
    BY <1>3 DEF Store
  <1>4. ASSUME NEW c \in Consumers, StartRequest(c)
        PROVE  Shape'
    <2>1. /\ \/ pc' = [pc EXCEPT ![c] = "KISSDB"]
             \/ pc' = [pc EXCEPT ![c] = "unknown"]
          /\ UNCHANGED <<adding, loaded, handler, statistics_access_mutex, stdout,
                         counter, db, process, dying, signals, report, sessions, answers>>
      BY <1>4 DEF StartRequest
    <2>2. QED
      BY <2>1
  <1>13. ASSUME NEW c \in Consumers, FailSession(c) \/ StartPrinting(c) \/ EndSession(c)
         PROVE  Shape'
    BY <1>13 DEF FailSession, StartPrinting, EndSession
  <1>11. ASSUME NEW c \in Consumers, AnswerRequest(c) \/ EndPrinting(c)
         PROVE  Shape'
    <2>1. UNCHANGED <<loaded, handler, statistics_access_mutex, counter, db, dying,
                      signals, report, sessions>>
      BY <1>11 DEF AnswerRequest, EndPrinting
    <2>2. /\ process' \in {process, "crashed"}
          /\ answers' \in {answers, answers + 1}
          /\ stdout' \in {stdout, NoThread}
      BY <1>11 DEF AnswerRequest, EndPrinting, Respond
    <2>3. \E place \in ConsumerPc : pc' \in {pc, [pc EXCEPT ![c] = place]}
      BY <1>11 DEF AnswerRequest, EndPrinting, Respond
    <2>4. \E k \in Counters : adding' \in {adding, [adding EXCEPT ![c] = k]}
      BY <1>11 DEF AnswerRequest, EndPrinting, Respond
    <2>5. adding' \in [Consumers -> Counters]
      BY <2>4
    <2>6. QED
      BY <2>1, <2>2, <2>3, <2>5
  <1>5. CASE PressCtrlZ
    BY <1>5 DEF PressCtrlZ
  <1>6. ASSUME NEW t \in Threads, HandlerLock(t) \/ HandlerUnlock(t)
        PROVE  Shape'
    BY <1>6 DEF HandlerLock, HandlerUnlock
  <1>7. ASSUME NEW t \in Threads, ReadStatistics(t)
        PROVE  Shape'
    <2>1. PICK k \in Counters : report' = [report EXCEPT ![t][k] = counter[k]]
      BY <1>7 DEF ReadStatistics
    <2>2. report' \in [Threads -> [Counters -> Nat \cup {-1}]]
      BY <2>1
    <2>3. /\ \E place \in {"read", "print"} : handler' = [handler EXCEPT ![t] = place]
          /\ UNCHANGED <<pc, adding, loaded, statistics_access_mutex, stdout, counter,
                         db, process, dying, signals, sessions, answers>>
      BY <1>7 DEF ReadStatistics
    <2>4. QED
      BY <2>2, <2>3
  <1>14. ASSUME NEW t \in Threads, PrintStatistics(t)
         PROVE  Shape'
    BY <1>14 DEF PrintStatistics
  <1>8. ASSUME NEW t \in Threads, KillThreads(t)
        PROVE  Shape'
    BY <1>8 DEF KillThreads
  <1>9. ASSUME NEW t \in Threads, CloseDb(t) \/ DestroyMutexes(t) \/ Exit(t)
        PROVE  Shape'
    BY <1>9 DEF CloseDb, DestroyMutexes, Exit
  <1>10. CASE ProducerGivesUp \/ Terminate \/ UNCHANGED vars
    BY <1>10 DEF ProducerGivesUp, Terminate, vars
  <1>12. QED
    BY <1>1, <1>2, <1>3, <1>4, <1>5, <1>6, <1>7, <1>8, <1>9, <1>10, <1>11,
       <1>13, <1>14, <1>15
       DEF Next, ConsumerStep, HandlerStep

\* A mutex is destroyed for good.
LEMMA ProtectedBefore == Shape /\ [Next]_vars /\ Protected' => Protected
  <1> USE Named DEF Shape, Protected, Lock, Unlock
  <1>1. MainStep \/ ProducerGivesUp \/ PressCtrlZ \/ Terminate \/ UNCHANGED vars
           => UNCHANGED statistics_access_mutex
    BY DEF MainStep, AllocateDb, OpenDb, CreateThreads, ProducerGivesUp, PressCtrlZ,
           Terminate, vars
  <1>2. ASSUME NEW c \in Consumers, ConsumerStep(c), statistics_access_mutex = Destroyed
        PROVE  statistics_access_mutex' = Destroyed
    BY <1>2 DEF ConsumerStep, TakeSession, LockStatistics, Load, Store, UnlockStatistics,
                StartRequest, AnswerRequest, FailSession, StartPrinting, EndPrinting,
                EndSession
  <1>3. ASSUME NEW t \in Threads, HandlerStep(t), statistics_access_mutex = Destroyed
        PROVE  statistics_access_mutex' = Destroyed
    BY <1>3 DEF HandlerStep, HandlerLock, ReadStatistics, PrintStatistics, HandlerUnlock,
                KillThreads, CloseDb, DestroyMutexes, Exit
  <1>4. QED
    BY <1>1, <1>2, <1>3 DEF Next

\* Threads are created in the order of main(), and the database is open
\* before the first of them runs.
LEMMA StartedStep == Shape /\ Started /\ Ending /\ [Next]_vars => Started'
  <1> SUFFICES ASSUME Shape, Started, Ending, [Next]_vars PROVE Started'
    OBVIOUS
  <1> USE Named, ShutdownAssumption
          DEF Shape, Started, Threads, ConsumerPc, Messages, At, InHandler, Goto,
              StartAdding
  <1>1. CASE MainStep
    <2>1. CASE AllocateDb \/ OpenDb
      BY <2>1 DEF AllocateDb, OpenDb
    <2>2. CASE CreateThreads /\ pc[Main] = "create_producer"
      BY <2>2 DEF CreateThreads
    <2>3. CASE CreateThreads /\ pc[Main] = "create_consumers"
      <3>1. PICK c \in Consumers :
               /\ pc[c] = "unborn"
               /\ pc' = [pc EXCEPT ![c] = "queue",
                                   ![Main] = IF \E d \in Consumers \ {c} : pc[d] = "unborn"
                                             THEN "create_consumers" ELSE "join"]
        BY <2>3 DEF CreateThreads
      <3>2. /\ pc'[c] = "queue" /\ pc'[Producer] = pc[Producer] /\ db' = db
            /\ \A d \in Consumers \ {c} : pc'[d] = pc[d]
        BY <2>3, <3>1 DEF CreateThreads
      <3>3. \/ pc'[Main] = "create_consumers"
            \/ pc'[Main] = "join" /\ \A d \in Consumers \ {c} : pc[d] # "unborn"
        BY <3>1
      <3>4. QED
        BY <2>3, <3>2, <3>3
    <2>4. QED
      BY <1>1, <2>1, <2>2, <2>3 DEF MainStep, CreateThreads
  <1>2. ASSUME NEW c \in Consumers,
               TakeSession(c) \/ LockStatistics(c) \/ Load(c) \/ UnlockStatistics(c)
        PROVE  Started'
    BY <1>2 DEF TakeSession, LockStatistics, Load, UnlockStatistics
  <1>3. ASSUME NEW c \in Consumers,
               Store(c) \/ StartRequest(c) \/ FailSession(c) \/ StartPrinting(c)
        PROVE  Started'
    BY <1>3 DEF Store, StartRequest, FailSession, StartPrinting
  <1>8. ASSUME NEW c \in Consumers,
               AnswerRequest(c) \/ EndPrinting(c) \/ EndSession(c)
        PROVE  Started'
    <2>1. \E place \in ConsumerPc : pc' \in {pc, [pc EXCEPT ![c] = place]}
      BY <1>8 DEF AnswerRequest, EndPrinting, Respond, EndSession
    <2>2. db' = db /\ pc[c] # "unborn"
      BY <1>8 DEF AnswerRequest, EndPrinting, Respond, EndSession
    <2>3. QED
      BY <2>1, <2>2
  <1>4. ASSUME NEW t \in Threads, CloseDb(t)
        PROVE  Started'
    BY <1>4 DEF CloseDb, Ending
  <1>5. CASE ProducerGivesUp \/ PressCtrlZ \/ Terminate \/ UNCHANGED vars
    BY <1>5 DEF ProducerGivesUp, PressCtrlZ, Terminate, vars
  <1>6. ASSUME NEW t \in Threads,
               \/ HandlerLock(t) \/ ReadStatistics(t) \/ PrintStatistics(t)
               \/ HandlerUnlock(t) \/ KillThreads(t) \/ DestroyMutexes(t) \/ Exit(t)
        PROVE  Started'
    BY <1>6 DEF HandlerLock, ReadStatistics, PrintStatistics, HandlerUnlock, KillThreads,
                DestroyMutexes, Exit
  <1>7. QED
    BY <1>1, <1>2, <1>3, <1>4, <1>5, <1>6, <1>8 DEF Next, ConsumerStep, HandlerStep

\* The mutex is taken only when it is free, by a thread or its handler, and
\* given up by the one that holds it.
LEMMA ExclusiveStep == Shape /\ Started /\ Exclusive /\ [Next]_vars => Exclusive'
  <1> SUFFICES ASSUME Shape, Started, Exclusive, [Next]_vars, Protected'
               PROVE  Exclusive'
    BY DEF Exclusive, StatisticsExclusive
  <1> Protected
    BY ProtectedBefore
  <1> USE Named, ShutdownAssumption
          DEF Shape, Exclusive, StatisticsExclusive, Protected, At, InHandler, Goto,
              HandlerGoto, StartAdding, Lock, Unlock
  <1>1. CASE MainStep
    BY <1>1 DEF MainStep, AllocateDb, OpenDb, CreateThreads, Started
  <1>2. ASSUME NEW c \in Consumers, TakeSession(c) \/ Load(c)
        PROVE  Exclusive'
    BY <1>2 DEF TakeSession, Load
  <1>12. ASSUME NEW c \in Consumers, LockStatistics(c)
         PROVE  Exclusive'
    <2>1. \A t \in Threads : /\ pc[t] \notin {"load", "store", "unlock"}
                             /\ handler[t] \notin {"read", "print", "unlock"}
      BY <1>12 DEF LockStatistics
    <2>2. QED
      BY <1>12, <2>1 DEF LockStatistics
  <1>3. ASSUME NEW c \in Consumers, Store(c)
        PROVE  Exclusive'
    BY <1>3 DEF Store
  <1>9. ASSUME NEW c \in Consumers, UnlockStatistics(c)
        PROVE  Exclusive'
    <2>1. /\ \A t \in Threads \ {c} : /\ pc[t] \notin {"load", "store", "unlock"}
                                      /\ handler[t] \notin {"read", "print", "unlock"}
          /\ handler[c] = "none"
      BY <1>9 DEF UnlockStatistics
    <2>2. pc'[c] \in {"queue", "serve"} /\ handler' = handler
          /\ \A t \in Threads \ {c} : pc'[t] = pc[t]
      BY <1>9 DEF UnlockStatistics
    <2>3. QED
      BY <2>1, <2>2
  <1>4. ASSUME NEW c \in Consumers,
               \/ StartRequest(c) \/ AnswerRequest(c) \/ FailSession(c)
               \/ StartPrinting(c) \/ EndPrinting(c) \/ EndSession(c)
        PROVE  Exclusive'
    <2>1. \E place \in {"KISSDB", "lock"} \cup Messages :
             pc' \in {pc, [pc EXCEPT ![c] = place]}
      BY <1>4 DEF StartRequest, AnswerRequest, FailSession, StartPrinting, EndPrinting,
                  EndSession, Respond, Messages
    <2>2. UNCHANGED <<handler, statistics_access_mutex>>
      BY <1>4 DEF StartRequest, AnswerRequest, FailSession, StartPrinting, EndPrinting,
                  EndSession
    <2>3. QED
      BY <2>1, <2>2 DEF Messages
  <1>5. CASE PressCtrlZ
    BY <1>5 DEF PressCtrlZ, Accepts
  <1>6. ASSUME NEW t \in Threads, HandlerLock(t)
        PROVE  Exclusive'
    <2>1. \A u \in Threads : /\ pc[u] \notin {"load", "store", "unlock"}
                             /\ handler[u] \notin {"read", "print", "unlock"}
      BY <1>6 DEF HandlerLock
    <2>2. QED
      BY <1>6, <2>1 DEF HandlerLock
  <1>13. ASSUME NEW t \in Threads, HandlerUnlock(t)
        PROVE  Exclusive'
    <2>1. \A u \in Threads \ {t} : /\ pc[u] \notin {"load", "store", "unlock"}
                                   /\ handler[u] \notin {"read", "print", "unlock"}
      BY <1>13 DEF HandlerUnlock
    <2>2. QED
      BY <1>13, <2>1 DEF HandlerUnlock
  <1>10. ASSUME NEW t \in Threads, ReadStatistics(t) \/ PrintStatistics(t)
         PROVE  Exclusive'
    BY <1>10 DEF ReadStatistics, PrintStatistics
  <1>7. ASSUME NEW t \in Threads,
               KillThreads(t) \/ CloseDb(t) \/ DestroyMutexes(t) \/ Exit(t)
        PROVE  Exclusive'
    BY <1>7 DEF KillThreads, CloseDb, DestroyMutexes, Exit
  <1>8. CASE ProducerGivesUp \/ Terminate \/ UNCHANGED vars
    BY <1>8 DEF ProducerGivesUp, Terminate, vars
  <1>11. QED
    BY <1>1, <1>2, <1>3, <1>4, <1>5, <1>6, <1>7, <1>8, <1>9, <1>10, <1>12, <1>13
       DEF Next, ConsumerStep, HandlerStep

\* No counter changes while a handler reads them, and what has been read
\* stays as it is.
LEMMA ReadingStep == Shape /\ Exclusive /\ Reading /\ [Next]_vars => Reading'
  <1> SUFFICES ASSUME Shape, Exclusive, Reading, [Next]_vars PROVE Reading'
    OBVIOUS
  <1> USE Named, ShutdownAssumption
          DEF Shape, Reading, Reported, InHandler, HandlerGoto
  <1>0. Protected' => Protected
    BY ProtectedBefore
  <1>1. ASSUME UNCHANGED <<handler, counter, report>>
        PROVE  Reading'
    BY <1>0, <1>1
  <1>2. CASE MainStep \/ ProducerGivesUp \/ Terminate \/ UNCHANGED vars
    BY <1>1, <1>2 DEF MainStep, AllocateDb, OpenDb, CreateThreads, ProducerGivesUp,
                      Terminate, vars
  <1>3. ASSUME NEW c \in Consumers,
               \/ TakeSession(c) \/ LockStatistics(c) \/ Load(c) \/ UnlockStatistics(c)
               \/ StartRequest(c) \/ AnswerRequest(c) \/ FailSession(c)
               \/ StartPrinting(c) \/ EndPrinting(c) \/ EndSession(c)
        PROVE  Reading'
    BY <1>1, <1>3 DEF TakeSession, LockStatistics, Load, UnlockStatistics, StartRequest,
                      AnswerRequest, FailSession, StartPrinting, EndPrinting, EndSession
  <1>4. ASSUME NEW c \in Consumers, Store(c)
        PROVE  Reading'
    <2>1. Protected => \A t \in Threads : handler[t] # "read"
      BY <1>4 DEF Store, At, Exclusive, StatisticsExclusive
    <2>2. UNCHANGED <<handler, report>>
      BY <1>4 DEF Store
    <2>3. QED
      BY <1>0, <2>1, <2>2
  <1>5. CASE PressCtrlZ
    BY <1>0, <1>5 DEF PressCtrlZ, Accepts
  <1>6. ASSUME NEW t \in Threads, HandlerLock(t)
        PROVE  Reading'
    BY <1>0, <1>6 DEF HandlerLock, Unread
  <1>7. ASSUME NEW t \in Threads, ReadStatistics(t)
        PROVE  Reading'
    <2>1. PICK k \in Counters :
             /\ report[t][k] = -1
             /\ report' = [report EXCEPT ![t][k] = counter[k]]
             /\ handler' = [handler EXCEPT ![t] =
                               IF \E j \in Counters \ {k} : report[t][j] = -1
                               THEN "read" ELSE "print"]
      BY <1>7 DEF ReadStatistics
    <2>2. /\ handler[t] = "read" /\ counter' = counter /\ counter[k] # -1
          /\ \A u \in Threads \ {t} : report'[u] = report[u] /\ handler'[u] = handler[u]
      BY <1>7, <2>1 DEF ReadStatistics
    <2>6. \A j \in Counters : report'[t][j] = IF j = k THEN counter[k] ELSE report[t][j]
      BY <2>1
    <2>3. CASE \E j \in Counters \ {k} : report[t][j] = -1
      BY <1>0, <2>1, <2>2, <2>3, <2>6
    <2>4. CASE \A j \in Counters \ {k} : report[t][j] # -1
      BY <1>0, <2>1, <2>2, <2>4, <2>6
    <2>5. QED
      BY <2>3, <2>4
  <1>8. ASSUME NEW t \in Threads,
               \/ PrintStatistics(t) \/ HandlerUnlock(t) \/ KillThreads(t)
               \/ CloseDb(t) \/ DestroyMutexes(t) \/ Exit(t)
        PROVE  Reading'
    BY <1>0, <1>8 DEF PrintStatistics, HandlerUnlock, KillThreads, CloseDb,
                      DestroyMutexes, Exit
  <1>9. QED
    BY <1>2, <1>3, <1>4, <1>5, <1>6, <1>7, <1>8 DEF Next, ConsumerStep, HandlerStep

\* Only the main thread, once it has sent the SIGTERM, closes the database.
LEMMA EndingStep == Shape /\ Started /\ Ending /\ [Next]_vars => Ending'
  <1> SUFFICES ASSUME Shape, Started, Ending, [Next]_vars PROVE Ending'
    OBVIOUS
  <1> USE Named, ShutdownAssumption
          DEF Shape, Ending, At, InHandler, Goto, HandlerGoto, StartAdding
  <1>1. CASE MainStep
    BY <1>1 DEF MainStep, AllocateDb, OpenDb, CreateThreads, Started, Threads
  <1>2. ASSUME NEW c \in Consumers, ConsumerStep(c)
        PROVE  Ending'
    <2>1. UNCHANGED <<handler, dying, db>>
      BY <1>2 DEF ConsumerStep, TakeSession, LockStatistics, Load, Store,
                  UnlockStatistics, StartRequest, AnswerRequest, FailSession,
                  StartPrinting, EndPrinting, EndSession
    <2>2. QED
      BY <2>1
  <1>3. CASE PressCtrlZ
    BY <1>3 DEF PressCtrlZ, Accepts
  <1>4. ASSUME NEW t \in Threads,
               \/ HandlerLock(t) \/ ReadStatistics(t) \/ PrintStatistics(t)
               \/ HandlerUnlock(t)
        PROVE  Ending'
    BY <1>4 DEF HandlerLock, ReadStatistics, PrintStatistics, HandlerUnlock
  <1>5. ASSUME NEW t \in Threads, KillThreads(t)
        PROVE  Ending'
    BY <1>5 DEF KillThreads
  <1>6. ASSUME NEW t \in Threads, CloseDb(t) \/ DestroyMutexes(t) \/ Exit(t)
        PROVE  Ending'
    BY <1>6 DEF CloseDb, DestroyMutexes, Exit
  <1>7. CASE ProducerGivesUp \/ Terminate \/ UNCHANGED vars
    BY <1>7 DEF ProducerGivesUp, Terminate, vars
  <1>8. QED
    BY <1>1, <1>2, <1>3, <1>4, <1>5, <1>6, <1>7 DEF Next, HandlerStep

\* The process is ended by a handler that has read all it prints, or by a
\* database that such a handler has closed under a thread.
LEMMA EndsInOrderStep ==
    Shape /\ Started /\ Reading /\ Ending /\ EndsInOrder /\ [Next]_vars => EndsInOrder'
  <1> SUFFICES ASSUME Shape, Started, Reading, Ending, EndsInOrder, [Next]_vars
               PROVE  EndsInOrder'
    OBVIOUS
  <1> USE Named, ShutdownAssumption
          DEF Shape, EndsInOrder, Reading, Ending, At, InHandler, HandlerGoto
  <1>1. \A t \in Threads :
           handler[t] \in {"unlock", "kill", "close", "destroy", "exit"} => Reported(t)
    OBVIOUS
  <1>2. ASSUME process = "running",
               UNCHANGED <<process, db, dying>>
        PROVE  EndsInOrder'
    BY <1>2
  <1>3. CASE MainStep
    BY <1>3 DEF MainStep, AllocateDb, OpenDb, CreateThreads
  <1>4. ASSUME NEW c \in Consumers,
               \/ TakeSession(c) \/ LockStatistics(c) \/ Load(c) \/ Store(c)
               \/ UnlockStatistics(c) \/ StartRequest(c) \/ FailSession(c)
               \/ StartPrinting(c) \/ EndSession(c)
        PROVE  EndsInOrder'
    BY <1>2, <1>4 DEF TakeSession, LockStatistics, Load, Store, UnlockStatistics,
                      StartRequest, FailSession, StartPrinting, EndSession
  <1>13. ASSUME NEW c \in Consumers, EndPrinting(c)
         PROVE  EndsInOrder'
    BY <1>2, <1>13 DEF EndPrinting
  <1>5. ASSUME NEW c \in Consumers, AnswerRequest(c)
        PROVE  EndsInOrder'
    <2>1. CASE process' = "running"
      BY <1>5, <2>1 DEF AnswerRequest
    <2>2. CASE process' = "crashed"
      <3>1. pc[c] = "KISSDB" /\ db # "open" /\ UNCHANGED <<db, dying, report>>
        BY <1>5, <2>2 DEF AnswerRequest
      <3>2. db = "closed"
        BY <3>1 DEF Started
      <3>3. dying /\ Reported(Main)
        BY <1>1, <3>2
      <3>4. QED
        BY <2>2, <3>1, <3>3 DEF Reported
    <2>3. QED
      BY <1>5, <2>1, <2>2 DEF AnswerRequest
  <1>6. CASE PressCtrlZ
    BY <1>2, <1>6 DEF PressCtrlZ
  <1>7. ASSUME NEW t \in Threads,
               \/ HandlerLock(t) \/ ReadStatistics(t) \/ PrintStatistics(t)
               \/ HandlerUnlock(t) \/ DestroyMutexes(t)
        PROVE  EndsInOrder'
    BY <1>2, <1>7 DEF HandlerLock, ReadStatistics, PrintStatistics, HandlerUnlock,
                      DestroyMutexes
  <1>14. CASE ProducerGivesUp
    BY <1>14 DEF ProducerGivesUp
  <1>8. ASSUME NEW t \in Threads, KillThreads(t)
        PROVE  EndsInOrder'
    <2>1. Reported(t) /\ Reported(t)' /\ UNCHANGED <<pc, db>> /\ process = "running"
      BY <1>1, <1>8 DEF KillThreads, Reported
    <2>2. process' \in {"running", "terminated", "crashed"} /\ (dying => dying')
      BY <1>8 DEF KillThreads
    <2>3. process' = "crashed" => \E u \in Threads : pc[u] = "unborn"
      BY <1>8 DEF KillThreads
    <2>4. QED
      BY <2>1, <2>2, <2>3
  <1>9. ASSUME NEW t \in Threads, CloseDb(t) \/ Exit(t)
        PROVE  EndsInOrder'
    <2>1. Reported(t) /\ Reported(t)' /\ dying /\ dying' = dying /\ t = Main
      BY <1>1, <1>9 DEF CloseDb, Exit, Reported
    <2>2. QED
      BY <1>9, <2>1 DEF CloseDb, Exit
  <1>10. CASE Terminate
    <2>1. Reported(Main) /\ Reported(Main)'
      BY <1>1, <1>10 DEF Terminate, Reported
    <2>2. QED
      BY <1>10, <2>1 DEF Terminate
  <1>11. CASE UNCHANGED vars
    BY <1>11 DEF vars, Reported
  <1>12. QED
    BY <1>3, <1>4, <1>5, <1>6, <1>7, <1>8, <1>9, <1>10, <1>11, <1>13, <1>14
       DEF Next, ConsumerStep, HandlerStep

\* Between a consumer's load and its store nobody else stores.
LEMMA LoadedStep == Shape /\ Exclusive /\ LoadedIsFresh /\ [Next]_vars => LoadedIsFresh'
  <1> SUFFICES ASSUME Shape, Exclusive, LoadedIsFresh, [Next]_vars, Protected'
               PROVE  LoadedIsFresh'
    BY DEF LoadedIsFresh
  <1> Protected
    BY ProtectedBefore
  <1> USE Named, ShutdownAssumption
          DEF Shape, LoadedIsFresh, At, Goto, StartAdding
  <1>1. CASE MainStep
    BY <1>1 DEF MainStep, AllocateDb, OpenDb, CreateThreads
  <1>2. ASSUME NEW c \in Consumers, TakeSession(c) \/ LockStatistics(c)
        PROVE  LoadedIsFresh'
    BY <1>2 DEF TakeSession, LockStatistics
  <1>3. ASSUME NEW c \in Consumers, Load(c)
        PROVE  LoadedIsFresh'
    BY <1>3 DEF Load
  <1>4. ASSUME NEW c \in Consumers, Store(c)
        PROVE  LoadedIsFresh'
    <2>1. \A d \in Consumers : pc[d] = "store" => d = c
      BY <1>4 DEF Store, Exclusive, StatisticsExclusive
    <2>2. QED
      BY <1>4, <2>1 DEF Store
  <1>5. ASSUME NEW c \in Consumers,
               \/ UnlockStatistics(c) \/ StartRequest(c) \/ AnswerRequest(c)
               \/ FailSession(c) \/ StartPrinting(c) \/ EndPrinting(c) \/ EndSession(c)
        PROVE  LoadedIsFresh'
    <2>1. UNCHANGED <<loaded, counter>> /\ \A d \in Consumers \ {c} : adding'[d] = adding[d]
      BY <1>5 DEF UnlockStatistics, StartRequest, AnswerRequest, FailSession,
                  StartPrinting, EndPrinting, EndSession, Respond
    <2>2. /\ \A d \in Consumers \ {c} : pc'[d] = pc[d]
          /\ pc[c] # "store" /\ pc'[c] # "store"
      BY <1>5 DEF UnlockStatistics, StartRequest, AnswerRequest, FailSession,
                  StartPrinting, EndPrinting, EndSession, Respond, Messages
    <2>3. QED
      BY <2>1, <2>2
  <1>6. CASE ProducerGivesUp \/ PressCtrlZ \/ Terminate \/ UNCHANGED vars
    BY <1>6 DEF ProducerGivesUp, PressCtrlZ, Terminate, vars
  <1>7. ASSUME NEW t \in Threads, HandlerStep(t)
        PROVE  LoadedIsFresh'
    BY <1>7 DEF HandlerStep, HandlerLock, ReadStatistics, PrintStatistics,
                HandlerUnlock, KillThreads, CloseDb, DestroyMutexes, Exit
  <1>8. QED
    BY <1>1, <1>2, <1>3, <1>4, <1>5, <1>6, <1>7 DEF Next, ConsumerStep
-----------------------------------------------------------------------------
(* The ledger: what is in the counters and what is on its way there.  Five *)
(* kinds of step move an entry; the others are quiet.                      *)

Waits == Owing("total_waiting_time")
Requests == Owing("completed_requests")

Quiet == UNCHANGED <<counter, sessions, answers, Waits, Requests, InSession, Asking>>

\* c takes a session and owes its waiting time.
Takes(c) ==
    /\ sessions' = sessions + 1
    /\ c \notin Waits /\ Waits' = Waits \cup {c}
    /\ UNCHANGED <<counter, answers, Requests, InSession, Asking>>

\* c pays what it owes.
Pays(c) ==
    /\ Protected => counter' = [counter EXCEPT ![adding[c]] = @ + 1]
    /\ c \in Owing(adding[c])
    /\ Waits' = Waits \ {c}
    /\ Requests' = Requests \ {c}
    /\ CASE adding[c] = "total_waiting_time" ->
               c \notin InSession /\ InSession' = InSession \cup {c}
         [] adding[c] = "total_service_time" ->
               c \in InSession /\ InSession' = InSession \ {c}
         [] adding[c] = "completed_requests" ->
               c \in InSession /\ InSession' = InSession
    /\ UNCHANGED <<sessions, answers, Asking>>

\* c has a request, as long as there may be another answer.
Asks(c) ==
    /\ answers + Cardinality(Asking) < MaxAnswers
    /\ c \notin Asking /\ Asking' = Asking \cup {c}
    /\ UNCHANGED <<counter, sessions, answers, Waits, Requests, InSession>>

\* c has its answer and owes the count of it.
Answers(c) ==
    /\ answers' = answers + 1
    /\ c \in Asking /\ Asking' = Asking \ {c}
    /\ c \notin Requests /\ Requests' = Requests \cup {c}
    /\ UNCHANGED <<counter, sessions, Waits, InSession>>

\* c cannot answer its request.
Drops(c) ==
    /\ c \in Asking /\ Asking' = Asking \ {c}
    /\ UNCHANGED <<counter, sessions, answers, Waits, Requests, InSession>>

LEMMA LedgerKinds ==
    ASSUME Shape, Started, LoadedIsFresh, [Next]_vars
    PROVE  \/ Quiet
           \/ \E c \in Consumers :
                 Takes(c) \/ Pays(c) \/ Asks(c) \/ Answers(c) \/ Drops(c)
  <1> USE Named, ShutdownAssumption
          DEF Shape, Quiet, Waits, Requests, Owing, InSession, Asking, Messages, At, Goto,
              StartAdding
  <1>1. CASE MainStep
    <2>1. UNCHANGED <<counter, sessions, answers, adding>>
      BY <1>1 DEF MainStep, AllocateDb, OpenDb, CreateThreads
    <2>2. \A c \in Consumers : pc'[c] = pc[c] \/ (pc[c] = "unborn" /\ pc'[c] = "queue")
      BY <1>1 DEF MainStep, AllocateDb, OpenDb, CreateThreads, Started, Threads
    <2>3. QED
      BY <2>1, <2>2
  <1>2. ASSUME NEW c \in Consumers, LockStatistics(c) \/ Load(c)
        PROVE  Quiet
    BY <1>2 DEF LockStatistics, Load
  <1>3. ASSUME NEW c \in Consumers, UnlockStatistics(c)
        PROVE  Quiet
    <2>1. UNCHANGED <<counter, sessions, answers>> /\ pc[c] = "unlock"
      BY <1>3 DEF UnlockStatistics
    <2>5. \A d \in Consumers \ {c} : adding'[d] = adding[d]
      BY <1>3 DEF UnlockStatistics
    <2>2. pc'[c] = IF adding[c] = "total_service_time" THEN "queue" ELSE "serve"
      BY <1>3 DEF UnlockStatistics
    <2>3. \A d \in Consumers \ {c} : pc'[d] = pc[d]
      BY <1>3 DEF UnlockStatistics
    <2>4. QED
      BY <2>1, <2>2, <2>3, <2>5
  <1>4. ASSUME NEW c \in Consumers, FailSession(c) \/ StartPrinting(c) \/ EndSession(c)
        PROVE  Quiet
    BY <1>4 DEF FailSession, StartPrinting, EndSession
  <1>5. ASSUME NEW c \in Consumers, TakeSession(c)
        PROVE  Takes(c)
    BY <1>5 DEF TakeSession, Takes
  <1>6. ASSUME NEW c \in Consumers, Store(c)
        PROVE  Pays(c)
    <2>1. Protected => counter' = [counter EXCEPT ![adding[c]] = @ + 1]
      BY <1>6 DEF Store, LoadedIsFresh
    <2>2. /\ pc[c] = "store" /\ pc'[c] = "unlock"
          /\ \A d \in Consumers \ {c} : pc'[d] = pc[d]
          /\ UNCHANGED <<adding, sessions, answers>>
      BY <1>6 DEF Store
    <2>3. /\ c \in Owing(adding[c])
          /\ UNCHANGED Asking
          /\ Waits' = Waits \ {c} /\ Requests' = Requests \ {c}
      BY <2>2
    <2>4. CASE adding[c] = "total_waiting_time"
      <3>1. c \notin InSession /\ InSession' = InSession \cup {c}
        BY <2>2, <2>4
      <3>2. QED
        BY <2>1, <2>2, <2>3, <2>4, <3>1 DEF Pays
    <2>5. CASE adding[c] = "total_service_time"
      <3>1. c \in InSession /\ InSession' = InSession \ {c}
        BY <2>2, <2>5
      <3>2. QED
        BY <2>1, <2>2, <2>3, <2>5, <3>1 DEF Pays
    <2>6. CASE adding[c] = "completed_requests"
      <3>1. c \in InSession /\ InSession' = InSession
        BY <2>2, <2>6
      <3>2. QED
        BY <2>1, <2>2, <2>3, <2>6, <3>1 DEF Pays
    <2>7. QED
      BY <2>4, <2>5, <2>6 DEF Counters
  <1>7. ASSUME NEW c \in Consumers, StartRequest(c)
        PROVE  Asks(c)
    <2>1. answers + Cardinality(Asking) < MaxAnswers
      BY <1>7 DEF StartRequest
    <2>2. /\ pc[c] = "serve" /\ pc'[c] \in {"KISSDB", "unknown"}
          /\ \A d \in Consumers \ {c} : pc'[d] = pc[d]
          /\ UNCHANGED <<adding, counter, sessions, answers>>
      BY <1>7 DEF StartRequest
    <2>3. c \notin Asking /\ Asking' = Asking \cup {c}
      BY <2>2
    <2>4. UNCHANGED <<Waits, Requests>>
      BY <2>2
    <2>5. UNCHANGED InSession
      BY <2>2
    <2>6. QED
      BY <2>1, <2>2, <2>3, <2>4, <2>5 DEF Asks
  <1>8. ASSUME NEW c \in Consumers, c \in Asking, Respond(c), UNCHANGED <<counter, sessions>>
        PROVE  Answers(c) \/ Drops(c)
    <2>1. CASE /\ answers' = answers + 1
               /\ pc' = [pc EXCEPT ![c] = "lock"]
               /\ adding' = [adding EXCEPT ![c] = "completed_requests"]
      BY <1>8, <2>1 DEF Answers
    <2>2. CASE /\ pc'[c] \in {"SIGPIPE", "error"}
               /\ \A d \in Consumers \ {c} : pc'[d] = pc[d]
               /\ UNCHANGED <<adding, answers>>
      BY <1>8, <2>2 DEF Drops
    <2>3. QED
      BY <1>8, <2>1, <2>2 DEF Respond
  <1>12. ASSUME NEW c \in Consumers, AnswerRequest(c)
         PROVE  Quiet \/ Answers(c) \/ Drops(c)
    <2>1. CASE UNCHANGED <<pc, adding, answers>>
      BY <1>12, <2>1 DEF AnswerRequest
    <2>2. CASE Respond(c)
      BY <1>8, <1>12, <2>2 DEF AnswerRequest
    <2>3. QED
      BY <1>12, <2>1, <2>2 DEF AnswerRequest
  <1>13. ASSUME NEW c \in Consumers, EndPrinting(c)
         PROVE  Quiet \/ Answers(c) \/ Drops(c)
    <2>1. CASE At(c, "unknown") /\ Respond(c)
      BY <1>8, <1>13, <2>1 DEF EndPrinting
    <2>2. CASE At(c, "SIGPIPE") /\ Goto(c, "error") /\ UNCHANGED <<adding, answers>>
      BY <1>13, <2>2 DEF EndPrinting
    <2>3. CASE At(c, "error") /\ StartAdding(c, "total_service_time") /\ UNCHANGED answers
      BY <1>13, <2>3 DEF EndPrinting
    <2>4. QED
      BY <1>13, <2>1, <2>2, <2>3 DEF EndPrinting
  <1>9. CASE ProducerGivesUp \/ PressCtrlZ \/ Terminate \/ UNCHANGED vars
    BY <1>9 DEF ProducerGivesUp, PressCtrlZ, Terminate, vars
  <1>10. ASSUME NEW t \in Threads, HandlerStep(t)
         PROVE  Quiet
    BY <1>10 DEF HandlerStep, HandlerLock, ReadStatistics, PrintStatistics,
                 HandlerUnlock, KillThreads, CloseDb, DestroyMutexes, Exit
  <1>11. QED
    BY <1>1, <1>2, <1>3, <1>4, <1>5, <1>6, <1>7, <1>9, <1>10, <1>12, <1>13
       DEF Next, ConsumerStep

\* Adding and removing one consumer, counted.
LEMMA OneMoreOneLess ==
    ASSUME NEW S \in SUBSET Consumers, NEW c \in Consumers
    PROVE  /\ Cardinality(S) \in Nat
           /\ c \notin S => Cardinality(S \cup {c}) = Cardinality(S) + 1
           /\ c \in S => Cardinality(S \ {c}) = Cardinality(S) - 1 /\ Cardinality(S) > 0
  <1>1. IsFiniteSet(S)
    BY FS_Subset, ShutdownAssumption
  <1>2. Cardinality(S) \in Nat
    BY <1>1, FS_CardinalityType
  <1>3. Cardinality(S \cup {c}) = IF c \in S THEN Cardinality(S) ELSE Cardinality(S) + 1
    BY <1>1, FS_AddElement
  <1>4. /\ Cardinality(S \ {c}) = IF c \in S THEN Cardinality(S) - 1 ELSE Cardinality(S)
        /\ IsFiniteSet(S \ {c})
    BY <1>1, FS_RemoveElement
  <1>5. Cardinality(S \ {c}) \in Nat
    BY <1>4, FS_CardinalityType
  <1>6. QED
    BY <1>2, <1>3, <1>4, <1>5

\* The sets of the ledger are sets of consumers; those who owe differ by what.
LEMMA LedgerSets ==
    /\ Waits \in SUBSET Consumers
    /\ Requests \in SUBSET Consumers
    /\ InSession \in SUBSET Consumers
    /\ Asking \in SUBSET Consumers
    /\ \A c \in Consumers : c \in Owing(adding[c]) =>
          /\ c \in Waits <=> adding[c] = "total_waiting_time"
          /\ c \in Requests <=> adding[c] = "completed_requests"
  BY DEF Waits, Requests, InSession, Asking, Owing

\* No request is begun that may not be answered any more.
LEMMA AnswersBoundedStep ==
    Shape /\ Started /\ LoadedIsFresh /\ AnswersBounded /\ [Next]_vars => AnswersBounded'
  <1> SUFFICES ASSUME Shape, Started, LoadedIsFresh, AnswersBounded, [Next]_vars
               PROVE  AnswersBounded'
    OBVIOUS
  <1> answers \in Nat /\ MaxAnswers \in Nat /\ Asking \in SUBSET Consumers
    BY LedgerSets, ShutdownAssumption DEF Shape
  <1> USE DEF AnswersBounded
  <1>1. ASSUME answers' = answers, Asking' = Asking
        PROVE  AnswersBounded'
    BY <1>1
  <1>3. ASSUME NEW c \in Consumers, Asks(c)
        PROVE  AnswersBounded'
    <2>1. Cardinality(Asking') = Cardinality(Asking) + 1 /\ Cardinality(Asking) \in Nat
      BY <1>3, OneMoreOneLess DEF Asks
    <2>2. QED
      BY <1>3, <2>1 DEF Asks
  <1>4. ASSUME NEW c \in Consumers, Answers(c) \/ Drops(c)
        PROVE  AnswersBounded'
    <2>1. Cardinality(Asking') = Cardinality(Asking) - 1 /\ Cardinality(Asking) \in Nat
      BY <1>4, OneMoreOneLess DEF Answers, Drops
    <2>2. answers' \in {answers, answers + 1}
      BY <1>4 DEF Answers, Drops
    <2>3. QED
      BY <2>1, <2>2
  <1>5. QED
    BY <1>1, <1>3, <1>4, LedgerKinds DEF Quiet, Takes, Pays

\* What leaves the set of those who owe arrives in the counter.
LEMMA NothingLostStep ==
    Shape /\ Started /\ LoadedIsFresh /\ NothingLost /\ [Next]_vars => NothingLost'
  <1> SUFFICES ASSUME Shape, Started, LoadedIsFresh, NothingLost, [Next]_vars, Protected'
               PROVE  NothingLost'
    BY DEF NothingLost
  <1> Protected
    BY ProtectedBefore
  <1>0. NothingLost <=>
           /\ counter["completed_requests"] + Cardinality(Requests) = answers
           /\ counter["total_waiting_time"] + Cardinality(Waits) = sessions
    BY DEF NothingLost, Waits, Requests
  <1>1. NothingLost' <=>
           /\ counter'["completed_requests"] + Cardinality(Requests') = answers'
           /\ counter'["total_waiting_time"] + Cardinality(Waits') = sessions'
    BY DEF NothingLost, Waits, Requests
  <1> USE Named DEF Shape
  <1>2. CASE Quiet
    BY <1>0, <1>1, <1>2 DEF Quiet
  <1>3. ASSUME NEW c \in Consumers, Takes(c)
        PROVE  NothingLost'
    <2>1. Cardinality(Waits') = Cardinality(Waits) + 1
      BY <1>3, LedgerSets, OneMoreOneLess DEF Takes
    <2>2. Cardinality(Waits) \in Nat
      BY LedgerSets, OneMoreOneLess
    <2>3. QED
      BY <1>0, <1>1, <1>3, <2>1, <2>2 DEF Takes
  <1>4. ASSUME NEW c \in Consumers, Asks(c) \/ Drops(c)
        PROVE  NothingLost'
    BY <1>0, <1>1, <1>4 DEF Asks, Drops
  <1>5. ASSUME NEW c \in Consumers, Answers(c)
        PROVE  NothingLost'
    <2>1. Cardinality(Requests') = Cardinality(Requests) + 1
      BY <1>5, LedgerSets, OneMoreOneLess DEF Answers
    <2>2. Cardinality(Requests) \in Nat
      BY LedgerSets, OneMoreOneLess
    <2>3. QED
      BY <1>0, <1>1, <1>5, <2>1, <2>2 DEF Answers
  <1>6. ASSUME NEW c \in Consumers, Pays(c)
        PROVE  NothingLost'
    <2>1. /\ counter' = [counter EXCEPT ![adding[c]] = @ + 1]
          /\ c \in Owing(adding[c])
          /\ Waits' = Waits \ {c} /\ Requests' = Requests \ {c}
      BY <1>6 DEF Pays
    <2>7. UNCHANGED <<sessions, answers>>
      BY <1>6 DEF Pays
    <2>6. \A k \in Counters : counter'[k] = IF k = adding[c] THEN counter[k] + 1
                                             ELSE counter[k]
      BY <2>1
    <2>2. CASE adding[c] = "total_waiting_time"
      <3>1. Requests' = Requests
        BY <2>1, <2>2, LedgerSets
      <3>2. c \in Waits
        BY <2>1, <2>2, LedgerSets
      <3>3. Cardinality(Waits') = Cardinality(Waits) - 1 /\ Cardinality(Waits) \in Nat
        BY <2>1, <3>2, LedgerSets, OneMoreOneLess
      <3>4. QED
        BY <1>0, <1>1, <2>2, <2>6, <2>7, <3>1, <3>3
    <2>3. CASE adding[c] = "completed_requests"
      <3>1. Waits' = Waits
        BY <2>1, <2>3, LedgerSets
      <3>2. c \in Requests
        BY <2>1, <2>3, LedgerSets
      <3>3. Cardinality(Requests') = Cardinality(Requests) - 1
            /\ Cardinality(Requests) \in Nat
        BY <2>1, <3>2, LedgerSets, OneMoreOneLess
      <3>4. QED
        BY <1>0, <1>1, <2>3, <2>6, <2>7, <3>1, <3>3
    <2>4. CASE adding[c] = "total_service_time"
      <3>1. Waits' = Waits /\ Requests' = Requests
        BY <2>1, <2>4, LedgerSets
      <3>2. QED
        BY <1>0, <1>1, <2>4, <2>6, <2>7, <3>1
    <2>5. QED
      BY <2>2, <2>3, <2>4 DEF Counters
  <1>7. QED
    BY <1>2, <1>3, <1>4, <1>5, <1>6, LedgerKinds

\* A session enters the balance with its waiting time and leaves it with its
\* service time.
LEMMA BalancedStep ==
    Shape /\ Started /\ LoadedIsFresh /\ Balanced /\ [Next]_vars => Balanced'
  <1> SUFFICES ASSUME Shape, Started, LoadedIsFresh, Balanced, [Next]_vars, Protected'
               PROVE  Balanced'
    BY DEF Balanced
  <1> Protected
    BY ProtectedBefore
  <1> USE Named, LedgerSets DEF Shape, Balanced
  <1>1. ASSUME UNCHANGED <<counter, InSession>>
        PROVE  Balanced'
    BY <1>1
  <1>2. ASSUME NEW c \in Consumers, Pays(c)
        PROVE  Balanced'
    <2>1. /\ counter' = [counter EXCEPT ![adding[c]] = @ + 1]
      BY <1>2 DEF Pays
    <2>6. Cardinality(InSession) \in Nat
      BY OneMoreOneLess
    <2>2. CASE adding[c] = "total_waiting_time"
      <3>1. Cardinality(InSession') = Cardinality(InSession) + 1
        BY <1>2, <2>2, OneMoreOneLess DEF Pays
      <3>2. QED
        BY <2>1, <2>2, <2>6, <3>1
    <2>3. CASE adding[c] = "total_service_time"
      <3>1. Cardinality(InSession') = Cardinality(InSession) - 1
            /\ Cardinality(InSession) > 0
        BY <1>2, <2>3, OneMoreOneLess DEF Pays
      <3>2. QED
        BY <2>1, <2>3, <2>6, <3>1
    <2>4. CASE adding[c] = "completed_requests"
      <3>1. c \in InSession /\ InSession' = InSession
        BY <1>2, <2>4 DEF Pays
      <3>2. counter["total_waiting_time"] > 0
        <4>1. Cardinality(InSession) > 0
          BY <3>1, OneMoreOneLess
        <4>2. QED
          BY <2>6, <4>1
      <3>3. QED
        BY <2>1, <2>4, <3>1, <3>2
    <2>5. QED
      BY <2>2, <2>3, <2>4 DEF Counters
  <1>3. QED
    BY <1>1, <1>2, LedgerKinds DEF Quiet, Takes, Asks, Answers, Drops

\* A report is complete at the moment its last number is read, and is then
\* what the balanced counters are.
LEMMA ReportStep ==
    Shape /\ Reading /\ Balanced /\ ReportIsConsistent /\ [Next]_vars
        => ReportIsConsistent'
  <1> SUFFICES ASSUME Shape, Reading, Balanced, ReportIsConsistent, [Next]_vars, Protected'
               PROVE  ReportIsConsistent'
    BY DEF ReportIsConsistent
  <1> Protected
    BY ProtectedBefore
  <1> USE Named DEF Shape, Reported, ReportIsConsistent
  <1>1. ASSUME NEW t \in Threads, ReadStatistics(t), NEW u \in Threads, Reported(u)'
        PROVE  /\ report'[u]["total_service_time"] <= report'[u]["total_waiting_time"]
               /\ report'[u]["completed_requests"] > 0
                     => report'[u]["total_waiting_time"] > 0
    <2>1. PICK k \in Counters : report' = [report EXCEPT ![t][k] = counter[k]]
      BY <1>1 DEF ReadStatistics
    <2>2. CASE u = t
      <3>1. \A j \in Counters : report'[t][j] = IF j = k THEN counter[k] ELSE report[t][j]
        BY <2>1
      <3>2. \A j \in Counters : report[t][j] \in {-1, counter[j]}
        BY <1>1 DEF ReadStatistics, InHandler, Reading
      <3>3. \A j \in Counters : report'[t][j] = counter[j]
        BY <1>1, <2>2, <3>1, <3>2
      <3>4. Cardinality(InSession) \in Nat
        BY LedgerSets, ShutdownAssumption, FS_Subset, FS_CardinalityType
      <3>5. QED
        BY <2>2, <3>3, <3>4 DEF Balanced
    <2>3. CASE u # t
      BY <1>1, <2>1, <2>3
    <2>4. QED
      BY <2>2, <2>3
  <1>2. ASSUME UNCHANGED report
        PROVE  ReportIsConsistent'
    BY <1>2
  <1>3. ASSUME NEW t \in Threads, ReadStatistics(t)
        PROVE  ReportIsConsistent'
    BY <1>1, <1>3
  <1>4. CASE MainStep \/ ProducerGivesUp \/ PressCtrlZ \/ Terminate \/ UNCHANGED vars
    BY <1>2, <1>4 DEF MainStep, AllocateDb, OpenDb, CreateThreads, ProducerGivesUp,
                      PressCtrlZ, Terminate, vars
  <1>5. ASSUME NEW c \in Consumers, ConsumerStep(c)
        PROVE  ReportIsConsistent'
    BY <1>2, <1>5 DEF ConsumerStep, TakeSession, LockStatistics, Load, Store,
                      UnlockStatistics, StartRequest, AnswerRequest, FailSession,
                      StartPrinting, EndPrinting, EndSession
  <1>6. ASSUME NEW t \in Threads,
               \/ HandlerLock(t) \/ PrintStatistics(t) \/ HandlerUnlock(t)
               \/ KillThreads(t) \/ CloseDb(t) \/ DestroyMutexes(t) \/ Exit(t)
        PROVE  ReportIsConsistent'
    BY <1>2, <1>6 DEF HandlerLock, PrintStatistics, HandlerUnlock, KillThreads, CloseDb,
                      DestroyMutexes, Exit
  <1>7. QED
    BY <1>3, <1>4, <1>5, <1>6 DEF Next, HandlerStep
-----------------------------------------------------------------------------
\* Before any thread exists nothing is counted, owed, locked or read.
LEMMA InitIInv == Init => IInv
  <1> SUFFICES ASSUME Init PROVE IInv
    OBVIOUS
  <1> USE Named, ShutdownAssumption DEF Init
  <1>1. Shape
    <2>1. report \in [Threads -> [Counters -> Nat \cup {-1}]]
      BY DEF Unread
    <2>2. counter \in [Counters -> Nat] /\ loaded \in [Consumers -> Nat]
      OBVIOUS
    <2>3. adding \in [Consumers -> Counters] /\ sessions \in 0 .. MaxSessions
          /\ signals \in 0 .. MaxSignals
      OBVIOUS
    <2>4. QED
      BY <2>1, <2>2, <2>3 DEF Shape
  <1>2. pc[Main] = "malloc" /\ \A t \in Threads \ {Main} : pc[t] = "unborn"
    OBVIOUS
  <1>3. Started
    BY <1>2 DEF Started, Threads
  <1>4. Exclusive
    BY DEF Exclusive, StatisticsExclusive
  <1>5. Reading /\ ReportIsConsistent
    BY DEF Reading, ReportIsConsistent, Reported, Unread
  <1>6. Ending /\ EndsInOrder
    BY DEF Ending, EndsInOrder
  <1>7. LoadedIsFresh
    BY <1>2 DEF LoadedIsFresh, Threads
  <1>8. \A c \in Consumers : pc[c] = "unborn"
    BY <1>2 DEF Threads
  <1>9. /\ Asking = {} /\ InSession = {}
        /\ Owing("completed_requests") = {} /\ Owing("total_waiting_time") = {}
    BY <1>8 DEF Asking, InSession, Owing, Messages
  <1>12. Cardinality({}) = 0
    BY FS_EmptySet
  <1>13. AnswersBounded /\ Balanced
    BY <1>9, <1>12 DEF AnswersBounded, Balanced
  <1>11. NothingLost
    BY <1>9, <1>12 DEF NothingLost
  <1>10. QED
    BY <1>1, <1>3, <1>4, <1>5, <1>6, <1>7, <1>11, <1>13 DEF IInv

\* The invariant holds in every state of every run of the server.
THEOREM Invariance == Spec => []IInv
  <1>1. IInv /\ [Next]_vars => IInv'
    BY ShapeStep, StartedStep, ExclusiveStep, ReadingStep, EndingStep, EndsInOrderStep,
       LoadedStep, AnswersBoundedStep, NothingLostStep, BalancedStep, ReportStep
       DEF IInv
  <1>2. QED
    BY InitIInv, <1>1, PTL DEF Spec

\* Every variable keeps its type, and no more requests are answered than may
\* be, those at the database included (server.c:53-98, 105-167).
THEOREM TypeCorrect == Spec => []TypeOK
  <1>1. IInv => TypeOK
    <2> SUFFICES ASSUME IInv PROVE TypeOK
      OBVIOUS
    <2>1. answers \in 0 .. MaxAnswers
      <3>1. Cardinality(Asking) \in Nat
        BY LedgerSets, ShutdownAssumption, FS_Subset, FS_CardinalityType
      <3>2. QED
        BY <3>1, ShutdownAssumption DEF IInv, AnswersBounded, Shape
    <2>2. QED
      BY <2>1 DEF IInv, Shape, ConsumerPc, TypeOK
  <1>2. QED
    BY Invariance, <1>1, PTL

\* However many consumers add to the statistics, and whatever thread Ctrl-Z
\* interrupts meanwhile, no addition is lost or made twice as long as the mutex
\* has not been destroyed (server.c:161-163, 264-266).
THEOREM NoAdditionLost == Spec => []NothingLost
  BY Invariance, PTL DEF IInv

\* What Ctrl-Z prints belongs together, for any number of consumers and
\* sessions, in whatever order the three numbers are read, as long as the mutex
\* has not been destroyed (server.c:82-91).
THEOREM ReportsBelongTogether == Spec => []ReportIsConsistent
  BY Invariance, PTL DEF IInv

\* The mutex protects the statistics although the handler takes it in threads
\* that may hold it, until it is destroyed (server.c:72, 82-91).
THEOREM StatisticsProtected == Spec => []StatisticsExclusive
  BY Invariance, PTL DEF IInv, Exclusive

\* However Ctrl-Z ends the process, some handler has read the statistics before,
\* and the database is closed only after the SIGTERM (server.c:53-98); of the
\* producer's own exit(EXIT_FAILURE) nothing is said (server.c:221-224).
THEOREM EndingInOrder == Spec => []EndsInOrder
  BY Invariance, PTL DEF IInv
=============================================================================
