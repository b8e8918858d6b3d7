------------------------------ MODULE Shutdown ------------------------------
(***************************************************************************)
(* How the server of operating-systems/assignment_1/server.c starts, keeps *)
(* its statistics, and ends on Ctrl-Z: the counters under                  *)
(* statistics_access_mutex, the SIGTSTP handler that reads them in whatever*)
(* thread the signal interrupts, and doCleanUp.                            *)
(*                                                                         *)
(* Sessions are opaque here (module Session): a consumer takes one, answers*)
(* some requests, ends it.  A counter is the number of additions made to   *)
(* it; total_waiting_time and total_service_time grow once a session,      *)
(* completed_requests once an answer.                                      *)
(*                                                                         *)
(* printf holds the lock of stdout while it runs.  The lock belongs to the *)
(* thread, so a handler may print in the middle of its own thread's printf *)
(* but waits for another's.                                                *)
(***************************************************************************)
EXTENDS Integers, FiniteSets

CONSTANTS Main,          \* the thread of main()
          Producer,      \* producer_thread
          Consumers,     \* consumer_threads
          NoThread,      \* owner of a lock that is free
          Destroyed,     \* a mutex after pthread_mutex_destroy
          MainFirst,     \* is a signal given to Main whenever it accepts one?
          MaxSignals,    \* bound: how often Ctrl-Z is pressed
          MaxSessions,   \* bound: connections that arrive
          MaxAnswers     \* bound: requests answered

ASSUME ShutdownAssumption ==
    /\ Main # Producer /\ {Main, Producer} \cap Consumers = {}
    /\ NoThread \notin Consumers \cup {Main, Producer}
    /\ Destroyed \notin Consumers \cup {Main, Producer, NoThread}
    /\ IsFiniteSet(Consumers)
    /\ MainFirst \in BOOLEAN
    /\ MaxSignals \in Nat /\ MaxSessions \in Nat /\ MaxAnswers \in Nat

Threads == Consumers \cup {Main, Producer}
Counters == {"total_waiting_time", "total_service_time", "completed_requests"}

\* Where a consumer prints: the operation it does not know, the SIGPIPE, and
\* that the session has failed.
Messages == {"unknown", "SIGPIPE", "error"}

VARIABLES
    pc,          \* where each thread is, its handler apart
    adding,      \* the counter a consumer is about to add to
    loaded,      \* what it has read of it
    handler,     \* where each thread is in signalhandler
    statistics_access_mutex,
    stdout,      \* the consumer inside a printf
    counter,     \* the three statistics
    db,          \* the global db
    process,     \* is the process there, and how did it end?
    dying,       \* has the process sent itself a SIGTERM?
    signals,     \* how often Ctrl-Z has been pressed
    report,      \* what each thread's handler has read for its printf
    sessions,    \* history: connections taken
    answers      \* history: responses written

vars == <<pc, adding, loaded, handler, statistics_access_mutex, stdout, counter,
          db, process, dying, signals, report, sessions, answers>>

Unread == [k \in Counters |-> -1]

TypeOK ==
    /\ pc \in [Threads -> {"malloc", "KISSDB_open", "create_producer",
                           "create_consumers", "unborn", "join", "accept", "queue",
                           "lock", "load", "store", "unlock", "serve", "KISSDB"}
                          \cup Messages]
    /\ adding \in [Consumers -> Counters]
    /\ loaded \in [Consumers -> Nat]
    /\ handler \in [Threads -> {"none", "lock", "read", "print", "unlock", "kill",
                                "close", "destroy", "exit"}]
    /\ statistics_access_mutex \in Threads \cup {NoThread, Destroyed}
    /\ stdout \in Consumers \cup {NoThread}
    /\ counter \in [Counters -> Nat]
    /\ db \in {"NULL", "allocated", "open", "closed"}
    /\ process \in {"running", "exited", "failed", "terminated", "crashed"}
    /\ dying \in BOOLEAN
    /\ signals \in 0 .. MaxSignals
    /\ report \in [Threads -> [Counters -> Nat \cup {-1}]]
    /\ sessions \in 0 .. MaxSessions /\ answers \in 0 .. MaxAnswers

\* main() just after it has installed signalhandler.
Init ==
    /\ pc = [t \in Threads |-> IF t = Main THEN "malloc" ELSE "unborn"]
    /\ adding = [c \in Consumers |-> "completed_requests"]
    /\ loaded = [c \in Consumers |-> 0]
    /\ handler = [t \in Threads |-> "none"]
    /\ statistics_access_mutex = NoThread
    /\ stdout = NoThread
    /\ counter = [k \in Counters |-> 0]
    /\ db = "NULL"
    /\ process = "running"
    /\ dying = FALSE
    /\ signals = 0
    /\ report = [t \in Threads |-> Unread]
    /\ sessions = 0
    /\ answers = 0

\* t runs its own code, not its handler.
At(t, place) == process = "running" /\ handler[t] = "none" /\ pc[t] = place
Goto(t, place) == pc' = [pc EXCEPT ![t] = place]

\* pthread_mutex_lock and unlock, which fail on a mutex that has been destroyed;
\* nobody looks at their result.
Lock(t) ==
    \/ statistics_access_mutex = NoThread /\ statistics_access_mutex' = t
    \/ statistics_access_mutex = Destroyed /\ UNCHANGED statistics_access_mutex

Unlock ==
    statistics_access_mutex' =
        IF statistics_access_mutex = Destroyed THEN Destroyed ELSE NoThread

\* printf of the thread t does not have to wait.
CanPrint(t) == stdout \in {NoThread, t}
-----------------------------------------------------------------------------
(* main: the database first, then the threads; then it waits for ever.     *)

AllocateDb ==
    /\ At(Main, "malloc")
    /\ db' = "allocated"
    /\ Goto(Main, "KISSDB_open")
    /\ UNCHANGED <<adding, loaded, handler, statistics_access_mutex, stdout,
                   counter, process, dying, signals, report, sessions, answers>>

OpenDb ==
    /\ At(Main, "KISSDB_open")
    /\ db' = "open"
    /\ Goto(Main, "create_producer")
    /\ UNCHANGED <<adding, loaded, handler, statistics_access_mutex, stdout,
                   counter, process, dying, signals, report, sessions, answers>>

CreateThreads ==
    /\ \/ /\ At(Main, "create_producer")
          /\ pc' = [pc EXCEPT ![Main] = "create_consumers", ![Producer] = "accept"]
       \/ /\ At(Main, "create_consumers")
          /\ \E c \in Consumers :
                /\ pc[c] = "unborn"
                /\ pc' = [pc EXCEPT ![c] = "queue",
                                    ![Main] = IF \E d \in Consumers \ {c} : pc[d] = "unborn"
                                              THEN "create_consumers" ELSE "join"]
    /\ UNCHANGED <<adding, loaded, handler, statistics_access_mutex, stdout,
                   counter, db, process, dying, signals, report, sessions, answers>>

MainStep == AllocateDb \/ OpenDb \/ CreateThreads
-----------------------------------------------------------------------------
(* A consumer, and the three places where it adds to a statistic.          *)

StartAdding(c, k) ==
    /\ Goto(c, "lock")
    /\ adding' = [adding EXCEPT ![c] = k]

\* A plausible slip: the waiting time is never added.
TakeSession_NotAdded(c) ==
    /\ At(c, "queue")
    /\ sessions < MaxSessions
    /\ sessions' = sessions + 1
    /\ Goto(c, "serve")
    /\ UNCHANGED <<adding, loaded, handler, statistics_access_mutex, stdout,
                   counter, db, process, dying, signals, report, answers>>

\* A connection is taken from the queue: its time in the queue is added.
TakeSession(c) ==
    /\ At(c, "queue")
    /\ sessions < MaxSessions
    /\ sessions' = sessions + 1
    /\ StartAdding(c, "total_waiting_time")
    /\ UNCHANGED <<loaded, handler, statistics_access_mutex, stdout, counter, db,
                   process, dying, signals, report, answers>>

\* A plausible slip: no lock around the addition.
LockStatistics_NoWait(c) ==
    /\ At(c, "lock")
    /\ statistics_access_mutex' = c
    /\ Goto(c, "load")
    /\ UNCHANGED <<adding, loaded, handler, stdout, counter, db, process, dying,
                   signals, report, sessions, answers>>

LockStatistics(c) ==
    /\ At(c, "lock")
    /\ Lock(c)
    /\ Goto(c, "load")
    /\ UNCHANGED <<adding, loaded, handler, stdout, counter, db, process, dying,
                   signals, report, sessions, answers>>

\* The addition reads the counter and then writes it.
Load(c) ==
    /\ At(c, "load")
    /\ loaded' = [loaded EXCEPT ![c] = counter[adding[c]]]
    /\ Goto(c, "store")
    /\ UNCHANGED <<adding, handler, statistics_access_mutex, stdout, counter, db,
                   process, dying, signals, report, sessions, answers>>

\* A plausible slip: the difference of times taken the wrong way round.
Store_Negative(c) ==
    /\ At(c, "store")
    /\ counter' = [counter EXCEPT ![adding[c]] = loaded[c] - 1]
    /\ loaded' = [loaded EXCEPT ![c] = 0]
    /\ Goto(c, "unlock")
    /\ UNCHANGED <<adding, handler, statistics_access_mutex, stdout, db, process,
                   dying, signals, report, sessions, answers>>

\* With the addition, what was loaded is of no use any more.
Store(c) ==
    /\ At(c, "store")
    /\ counter' = [counter EXCEPT ![adding[c]] = loaded[c] + 1]
    /\ loaded' = [loaded EXCEPT ![c] = 0]
    /\ Goto(c, "unlock")
    /\ UNCHANGED <<adding, handler, statistics_access_mutex, stdout, db, process,
                   dying, signals, report, sessions, answers>>

\* A plausible slip: the unlock is forgotten.
UnlockStatistics_Forgotten(c) ==
    /\ At(c, "unlock")
    /\ Goto(c, IF adding[c] = "total_service_time" THEN "queue" ELSE "serve")
    /\ adding' = [adding EXCEPT ![c] = "completed_requests"]
    /\ UNCHANGED <<loaded, handler, statistics_access_mutex, stdout, counter, db,
                   process, dying, signals, report, sessions, answers>>

\* Afterwards: the next request, or after the service time close() and the
\* next connection.  What adding says between two additions does not matter.
UnlockStatistics(c) ==
    /\ At(c, "unlock")
    /\ Unlock
    /\ Goto(c, IF adding[c] = "total_service_time" THEN "queue" ELSE "serve")
    /\ adding' = [adding EXCEPT ![c] = "completed_requests"]
    /\ UNCHANGED <<loaded, handler, stdout, counter, db, process, dying, signals,
                   report, sessions, answers>>

\* A request arrives and goes to the database, unless its operation is unknown.
StartRequest(c) ==
    /\ At(c, "serve")
    /\ answers + Cardinality({d \in Consumers : pc[d] \in {"KISSDB", "unknown"}})
          < MaxAnswers
    /\ Goto(c, "KISSDB") \/ Goto(c, "unknown")
    /\ UNCHANGED <<adding, loaded, handler, statistics_access_mutex, stdout, counter,
                   db, process, dying, signals, report, sessions, answers>>

\* The response is written and counted; or the client is gone, which the
\* connection tells by a SIGPIPE or (after a reset) by an error alone.
Respond(c) ==
    \/ /\ answers' = answers + 1
       /\ StartAdding(c, "completed_requests")
    \/ /\ Goto(c, "SIGPIPE") \/ Goto(c, "error")
       /\ UNCHANGED <<adding, answers>>

\* The database answers; one that has been closed and freed under the thread
\* may crash it.
AnswerRequest(c) ==
    /\ At(c, "KISSDB")
    /\ \/ /\ Respond(c)
          /\ UNCHANGED process
       \/ /\ db # "open"
          /\ process' = "crashed"
          /\ UNCHANGED <<pc, adding, answers>>
    /\ UNCHANGED <<loaded, handler, statistics_access_mutex, stdout, counter, db,
                   dying, signals, report, sessions>>

\* read() fails.
FailSession(c) ==
    /\ At(c, "serve")
    /\ Goto(c, "error")
    /\ UNCHANGED <<adding, loaded, handler, statistics_access_mutex, stdout, counter,
                   db, process, dying, signals, report, sessions, answers>>

\* A printf takes the stream, and gives it back.
StartPrinting(c) ==
    /\ \E m \in Messages : At(c, m)
    /\ stdout = NoThread
    /\ stdout' = c
    /\ UNCHANGED <<pc, adding, loaded, handler, statistics_access_mutex, counter, db,
                   process, dying, signals, report, sessions, answers>>

\* What follows: the response to an unknown operation, after
\* closedPipeSignalHandler the end of the session, after that its service time.
EndPrinting(c) ==
    /\ stdout = c
    /\ stdout' = NoThread
    /\ \/ /\ At(c, "unknown")
          /\ Respond(c)
       \/ /\ At(c, "SIGPIPE")
          /\ Goto(c, "error")
          /\ UNCHANGED <<adding, answers>>
       \/ /\ At(c, "error")
          /\ StartAdding(c, "total_service_time")
          /\ UNCHANGED answers
    /\ UNCHANGED <<loaded, handler, statistics_access_mutex, counter, db, process,
                   dying, signals, report, sessions>>

\* processRequests returns 0: the service time is added.
EndSession(c) ==
    /\ At(c, "serve")
    /\ StartAdding(c, "total_service_time")
    /\ UNCHANGED <<loaded, handler, statistics_access_mutex, stdout, counter, db,
                   process, dying, signals, report, sessions, answers>>

ConsumerStep(c) ==
    \/ TakeSession(c) \/ LockStatistics(c) \/ Load(c) \/ Store(c)
    \/ UnlockStatistics(c) \/ StartRequest(c) \/ AnswerRequest(c) \/ FailSession(c)
    \/ StartPrinting(c) \/ EndPrinting(c) \/ EndSession(c)

\* producerThreadHandler finds the queue full again after a wait that nobody
\* ended, and exits on the spot; module Server says when.
ProducerGivesUp ==
    /\ At(Producer, "accept")
    /\ process' = "failed"
    /\ UNCHANGED <<pc, adding, loaded, handler, statistics_access_mutex, stdout,
                   counter, db, dying, signals, report, sessions, answers>>
-----------------------------------------------------------------------------
(* Ctrl-Z.  The signal goes to one thread, which runs signalhandler; until *)
(* that returns the thread does not accept another.                        *)

Accepts(t) == handler[t] = "none" /\ pc[t] # "unborn"

PressCtrlZ ==
    /\ process = "running"
    /\ signals < MaxSignals
    /\ \E t \in Threads :
          /\ Accepts(t)
          /\ MainFirst /\ Accepts(Main) => t = Main
          /\ handler' = [handler EXCEPT ![t] = "lock"]
    /\ signals' = signals + 1
    /\ UNCHANGED <<pc, adding, loaded, statistics_access_mutex, stdout, counter,
                   db, process, dying, report, sessions, answers>>

InHandler(t, place) == process = "running" /\ handler[t] = place
HandlerGoto(t, place) == handler' = [handler EXCEPT ![t] = place]

\* A plausible slip: the handler does not lock.
HandlerLock_NoWait(t) ==
    /\ InHandler(t, "lock")
    /\ HandlerGoto(t, "read")
    /\ UNCHANGED <<pc, adding, loaded, statistics_access_mutex, stdout, counter,
                   db, process, dying, signals, report, sessions, answers>>

HandlerLock(t) ==
    /\ InHandler(t, "lock")
    /\ Lock(t)
    /\ HandlerGoto(t, "read")
    /\ UNCHANGED <<pc, adding, loaded, stdout, counter, db, process, dying,
                   signals, report, sessions, answers>>

\* The arguments of the printf are read one by one, in any order.
ReadStatistics(t) ==
    /\ InHandler(t, "read")
    /\ \E k \in Counters :
          /\ report[t][k] = -1
          /\ report' = [report EXCEPT ![t][k] = counter[k]]
          /\ HandlerGoto(t, IF \E j \in Counters \ {k} : report[t][j] = -1
                            THEN "read" ELSE "print")
    /\ UNCHANGED <<pc, adding, loaded, statistics_access_mutex, stdout, counter,
                   db, process, dying, signals, sessions, answers>>

PrintStatistics(t) ==
    /\ InHandler(t, "print")
    /\ CanPrint(t)
    /\ HandlerGoto(t, "unlock")
    /\ UNCHANGED <<pc, adding, loaded, statistics_access_mutex, stdout, counter, db,
                   process, dying, signals, report, sessions, answers>>

\* A plausible slip: doCleanUp closes the database first.
HandlerUnlock_ClosesFirst(t) ==
    /\ InHandler(t, "unlock")
    /\ Unlock
    /\ HandlerGoto(t, "close")
    /\ UNCHANGED <<pc, adding, loaded, stdout, counter, db, process, dying,
                   signals, report, sessions, answers>>

HandlerUnlock(t) ==
    /\ InHandler(t, "unlock")
    /\ Unlock
    /\ HandlerGoto(t, "kill")
    /\ UNCHANGED <<pc, adding, loaded, stdout, counter, db, process, dying,
                   signals, report, sessions, answers>>

\* doCleanUp, its printf and pthread_kill(..., SIGTERM): SIGTERM has no handler,
\* so it ends the whole process: at once when a thread kills itself, which every
\* thread but Main comes to before any that was not yet created; else as soon as
\* it is delivered.  A thread that was never created is no thread to kill.
KillThreads(t) ==
    /\ InHandler(t, "kill")
    /\ CanPrint(t)
    /\ \/ /\ t # Main
          /\ process' = "terminated"
          /\ UNCHANGED <<dying, handler>>
       \/ /\ t = Main
          /\ \E u \in Threads : pc[u] = "unborn"
          /\ process' \in {"crashed"} \cup (IF pc[Producer] = "unborn" THEN {}
                                            ELSE {"terminated"})
          /\ UNCHANGED <<dying, handler>>
       \/ /\ t = Main
          /\ \A u \in Threads : pc[u] # "unborn"
          /\ dying' = TRUE
          /\ HandlerGoto(t, "close")
          /\ UNCHANGED process
    /\ UNCHANGED <<pc, adding, loaded, statistics_access_mutex, stdout, counter, db,
                   signals, report, sessions, answers>>

\* The SIGTERM takes effect.
Terminate ==
    /\ process = "running"
    /\ dying
    /\ process' = "terminated"
    /\ UNCHANGED <<pc, adding, loaded, handler, statistics_access_mutex, stdout,
                   counter, db, dying, signals, report, sessions, answers>>

\* doCleanUp: the database is closed and freed,
CloseDb(t) ==
    /\ InHandler(t, "close")
    /\ IF db = "open"
       THEN /\ db' = "closed"
            /\ HandlerGoto(t, "destroy")
            /\ UNCHANGED process
       ELSE /\ process' = "crashed"
            /\ UNCHANGED <<db, handler>>
    /\ UNCHANGED <<pc, adding, loaded, statistics_access_mutex, stdout, counter,
                   dying, signals, report, sessions, answers>>

\* and the mutexes are destroyed, unless somebody holds them.
DestroyMutexes(t) ==
    /\ InHandler(t, "destroy")
    /\ statistics_access_mutex' = IF statistics_access_mutex = NoThread
                                  THEN Destroyed ELSE statistics_access_mutex
    /\ HandlerGoto(t, "exit")
    /\ UNCHANGED <<pc, adding, loaded, stdout, counter, db, process, dying, signals,
                   report, sessions, answers>>

\* exit() flushes stdout without waiting for its lock.
Exit(t) ==
    /\ InHandler(t, "exit")
    /\ process' = "exited"
    /\ UNCHANGED <<pc, adding, loaded, handler, statistics_access_mutex, stdout,
                   counter, db, dying, signals, report, sessions, answers>>

HandlerStep(t) ==
    \/ HandlerLock(t) \/ ReadStatistics(t) \/ PrintStatistics(t) \/ HandlerUnlock(t)
    \/ KillThreads(t) \/ CloseDb(t) \/ DestroyMutexes(t) \/ Exit(t)
-----------------------------------------------------------------------------
Next ==
    \/ MainStep
    \/ \E c \in Consumers : ConsumerStep(c)
    \/ ProducerGivesUp
    \/ PressCtrlZ
    \/ \E t \in Threads : HandlerStep(t)
    \/ Terminate

Spec == Init /\ [][Next]_vars

\* Every thread runs.  Whether clients come, Ctrl-Z is pressed or the producer
\* gives up is open.
FairSpec ==
    /\ Spec
    /\ WF_vars(MainStep) /\ WF_vars(Terminate)
    /\ \A c \in Consumers : WF_vars(ConsumerStep(c))
    /\ \A t \in Threads : WF_vars(HandlerStep(t))
-----------------------------------------------------------------------------
\* Consumers that still have to add to a counter.
Owing(k) == {c \in Consumers : pc[c] \in {"lock", "load", "store"} /\ adding[c] = k}

\* pthread_mutex_destroy is called in the last moments of the process; what is
\* said of the statistics holds until then.
Protected == statistics_access_mutex # Destroyed

\* No addition to a statistic is lost or made twice: each answer and each
\* session taken is in its counter, or its consumer is still on the way to
\* add it (server.c:161-163, 264-266).
NothingLost ==
    Protected =>
        /\ counter["completed_requests"]
              + Cardinality(Owing("completed_requests")) = answers
        /\ counter["total_waiting_time"]
              + Cardinality(Owing("total_waiting_time")) = sessions

\* The thread has read all it prints.
Reported(t) == \A k \in Counters : report[t][k] # -1

\* What Ctrl-Z prints belongs together, though clients are served while it
\* is read: only sessions whose waiting time is in the report have ended, and
\* requests are reported only of such sessions (server.c:82-91).
ReportIsConsistent ==
    Protected => \A t \in Threads : Reported(t) =>
        /\ report[t]["total_service_time"] <= report[t]["total_waiting_time"]
        /\ report[t]["completed_requests"] > 0 => report[t]["total_waiting_time"] > 0

\* However Ctrl-Z ends the process, by exit, SIGTERM or a crash, some handler
\* has read the statistics for its printf before; the database is closed only
\* once the threads have been sent SIGTERM, the handler's exit() finds it closed,
\* and unless it is still starting the server never crashes without having been
\* told to end (server.c:53-98).  The other end of the process, the producer's
\* exit(EXIT_FAILURE), promises nothing of this (server.c:221-224).
EndsInOrder ==
    /\ process \in {"exited", "terminated", "crashed"} => \E t \in Threads : Reported(t)
    /\ db = "closed" => dying
    /\ process = "exited" => db = "closed"
    /\ process = "crashed" => dying \/ \E t \in Threads : pc[t] = "unborn"

\* The thread that owns statistics_access_mutex, its handler included, is the
\* only one between locking and unlocking it.
StatisticsExclusive ==
    Protected => \A t \in Threads :
        handler[t] \in {"read", "print", "unlock"} \/ pc[t] \in {"load", "store", "unlock"}
            => statistics_access_mutex = t

\* Ctrl-Z ends the server.
SignalEndsServer == signals > 0 ~> process # "running"

\* A thread whose signalhandler waits for the mutex that the thread itself,
\* interrupted in between, has locked (server.c:82).
SelfBlocked ==
    \E t \in Threads : InHandler(t, "lock") /\ statistics_access_mutex = t

\* Two threads whose handlers wait for each other: one holds the mutex and waits
\* to print, the other was interrupted inside a printf and waits for the mutex
\* (server.c:82, 88).
BlockedAtStdout ==
    \E t, u \in Threads :
        /\ InHandler(t, "print") /\ stdout = u
        /\ InHandler(u, "lock") /\ statistics_access_mutex = t

\* Ctrl-Z ends the server, whatever thread it interrupts and whatever the
\* others are doing, unless handlers wait for their own thread or for each other
\* at stdout: there is no third way to wait for ever.
OnlyBlockedHandlersPreventEnd ==
    signals > 0 ~> process # "running" \/ SelfBlocked \/ BlockedAtStdout
=============================================================================
