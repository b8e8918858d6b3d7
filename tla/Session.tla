------------------------------ MODULE Session ------------------------------
(***************************************************************************)
(* The sessions between the client programs of operating-systems/          *)
(* assignment_1/client.c and processRequests in server.c: a TCP connection *)
(* per session, the database that all consumer threads share, its mutex,   *)
(* and clients that leave early.                                           *)
(*                                                                         *)
(* How a connection reaches a consumer is module Server; here it waits in  *)
(* the line that Server is shown to implement (module Dispatch).  The      *)
(* statistics are module Shutdown.                                         *)
(***************************************************************************)
EXTENDS Integers, Sequences, FiniteSets

CONSTANTS Clients,         \* the sessions: a client process, or a thread of -m
          Consumers,       \* the threads of consumerThreadHandler
          None,            \* no thread, no session, no value
          MAX_STATION_ID,  \* stations are numbered 0 .. MAX_STATION_ID
          Readings,        \* what a PUT may store
          Modes,           \* what the sessions may do, see ModeKinds
          Iterations,      \* what -i may be given (1 without it)
          StackBytes,      \* what an uninitialised byte may be; 0 is one
          ClientsMayDie,   \* may a client be killed in mid-session?
          PutsMayFail,     \* may KISSDB_put fail?
          MaxStray         \* bound: responses written before a reset arrives

ModeKinds == {"AUTO_PUT_REQUEST", "AUTO_GET_REQUEST",  \* -p and -g
              "manyPuts", "manyGets",                  \* the threads of -m
              "MANUAL_PUT", "MANUAL_GET",              \* -o PUT:k:v, -o GET:k
              "MALFORMED",                             \* -o with another text
              "FOREIGN"}                               \* not client.c

ASSUME SessionAssumption ==
    /\ MAX_STATION_ID \in Nat \ {0}
    /\ Modes \subseteq ModeKinds
    /\ Iterations \subseteq Nat
    /\ 0 \in StackBytes
    /\ MaxStray \in Nat \ {0}
    /\ None \notin Clients \cup Consumers \cup Readings \cup {""}

Stations == 0 .. MAX_STATION_ID

\* KISSDB compares all KEY_SIZE bytes of a key: the text, and what follows it.
EmptyKey == [station |-> -1, rest |-> 0]
Keys == [station : Stations, rest : StackBytes] \cup {EmptyKey}
Values == Readings \cup {""}

Request(operation, key, value) ==
    [operation |-> operation, key |-> key, value |-> value]

\* A struct Request after memset(&request, 0, sizeof(request)).
Zeroed(operation) == Request(operation, EmptyKey, "")

VARIABLES
    mode, station,        \* a session: what it does, its loop variable
    numOfIterations,      \* how often it still goes through the stations
    clientPc,             \* where the client is
    socket,               \* the client's end of the connection
    toServer, toClient,   \* bytes under way, in whole requests
    waiting,              \* connections no consumer has taken yet
    pc,                   \* where each consumer is
    serving,              \* the connection each consumer serves
    request,              \* processRequests' local, one per consumer
    db, filePosition,     \* KISSDB: the table, and its one file position
    db_access_mutex,
    stored                \* history: had its station a reading when it asked?

clientVars == <<mode, station, numOfIterations, clientPc>>
wireVars == <<socket, toServer, toClient>>
dbVars == <<db, filePosition, db_access_mutex>>
vars == <<clientVars, wireVars, waiting, pc, serving, request, dbVars, stored>>

TypeOK ==
    /\ mode \in [Clients -> Modes \cup {None}]
    /\ station \in [Clients -> Stations]
    /\ numOfIterations \in [Clients -> Nat]
    /\ clientPc \in [Clients -> {"start", "send", "await", "end", "close", "gone"}]
    /\ socket \in [Clients -> {"none", "open", "closed", "reset", "done"}]
    /\ \A c \in Clients : Len(toServer[c]) <= 2 /\ Len(toClient[c]) <= MaxStray + 1
    /\ pc \in [Consumers -> {"idle", "read", "lock", "seek", "access", "unlock",
                             "write", "close"}]
    /\ serving \in [Consumers -> Clients \cup {None}]
    /\ \A w \in Consumers : request[w].key \in Keys /\ request[w].value \in Values
    /\ db \in [Keys -> Values \cup {None}]
    /\ filePosition \in Keys
    /\ db_access_mutex \in Consumers \cup {None}
    /\ stored \in [Clients -> BOOLEAN]

Init ==
    /\ mode = [c \in Clients |-> None]
    /\ station = [c \in Clients |-> 0]
    /\ numOfIterations = [c \in Clients |-> 1]
    /\ clientPc = [c \in Clients |-> "start"]
    /\ socket = [c \in Clients |-> "none"]
    /\ toServer = [c \in Clients |-> <<>>]
    /\ toClient = [c \in Clients |-> <<>>]
    /\ waiting = <<>>
    /\ pc = [w \in Consumers |-> "idle"]
    /\ serving = [w \in Consumers |-> None]
    /\ request = [w \in Consumers |-> Zeroed("PUT")]
    /\ db = [k \in Keys |-> None]
    /\ filePosition = EmptyKey
    /\ db_access_mutex = None
    /\ stored = [c \in Clients |-> FALSE]
-----------------------------------------------------------------------------
(* The client programs.                                                    *)

\* What the options make a session do, and its first station: the loop starts
\* at 0, a thread of -m draws one modulo MAX_STATION_ID, -o names any.
Chosen(m, s) ==
    /\ m \in {"AUTO_PUT_REQUEST", "AUTO_GET_REQUEST", "MALFORMED", "FOREIGN"} => s = 0
    /\ m \in {"manyPuts", "manyGets"} => s < MAX_STATION_ID

AutoModes == {"AUTO_PUT_REQUEST", "AUTO_GET_REQUEST"}

\* doConnect.  A text that is no request ends the program only after it has
\* connected, and -i 0 connects for nothing but END.
Connect(c) ==
    /\ clientPc[c] = "start"
    /\ \E m \in Modes, s \in Stations, i \in Iterations \cup {1} :
          /\ Chosen(m, s)
          /\ i # 1 => m \in AutoModes
          /\ mode' = [mode EXCEPT ![c] = m]
          /\ station' = [station EXCEPT ![c] = s]
          /\ numOfIterations' = [numOfIterations EXCEPT ![c] = i]
          /\ clientPc' = [clientPc EXCEPT ![c] =
                             IF m = "MALFORMED" THEN "close"
                             ELSE IF i = 0 THEN "end" ELSE "send"]
    /\ socket' = [socket EXCEPT ![c] = "open"]
    /\ waiting' = Append(waiting, c)
    /\ UNCHANGED <<toServer, toClient, pc, serving, request, dbVars, stored>>

\* The key a client asks for: the threads of -m never clear what follows the
\* text, the other modes do.
KeysOf(c) ==
    [station : {station[c]},
     rest : IF mode[c] \in {"manyPuts", "manyGets"} THEN StackBytes ELSE {0}]

RequestsOf(c) ==
    CASE mode[c] \in {"AUTO_PUT_REQUEST", "manyPuts", "MANUAL_PUT"} ->
            {Request("PUT", k, v) : k \in KeysOf(c), v \in Readings}
      [] mode[c] \in {"AUTO_GET_REQUEST", "manyGets", "MANUAL_GET"} ->
            {Request("GET", k, "") : k \in KeysOf(c)}
      [] mode[c] = "FOREIGN" -> {Zeroed("PUT_OK")}

SendRequest(c) ==
    /\ clientPc[c] = "send"
    /\ \E r \in RequestsOf(c) : toServer' = [toServer EXCEPT ![c] = Append(@, r)]
    /\ stored' = [stored EXCEPT ![c] =
                     \E k \in Keys : k.station = station[c] /\ db[k] # None]
    /\ clientPc' = [clientPc EXCEPT ![c] = "await"]
    /\ UNCHANGED <<mode, station, numOfIterations, socket, toClient, waiting, pc,
                   serving, request, dbVars>>

\* A plausible slip: one station too many.
NextStation_Past(c) ==
    \/ /\ mode[c] \in AutoModes /\ station[c] <= MAX_STATION_ID
       /\ station' = [station EXCEPT ![c] = @ + 1]
       /\ clientPc' = [clientPc EXCEPT ![c] = "send"]
       /\ UNCHANGED numOfIterations
    \/ /\ mode[c] \notin AutoModes \/ station[c] > MAX_STATION_ID
       /\ clientPc' = [clientPc EXCEPT ![c] = "end"]
       /\ UNCHANGED <<station, numOfIterations>>

\* The two loops of -g and -p, and the end of the session; the other modes
\* have one request.
NextStation(c) ==
    \/ /\ mode[c] \in AutoModes /\ station[c] < MAX_STATION_ID
       /\ station' = [station EXCEPT ![c] = @ + 1]
       /\ clientPc' = [clientPc EXCEPT ![c] = "send"]
       /\ UNCHANGED numOfIterations
    \/ /\ mode[c] \in AutoModes /\ station[c] = MAX_STATION_ID
       /\ numOfIterations' = [numOfIterations EXCEPT ![c] = @ - 1]
       /\ station' = [station EXCEPT ![c] = 0]
       /\ clientPc' = [clientPc EXCEPT ![c] =
                          IF numOfIterations[c] = 1 THEN "end" ELSE "send"]
    \/ /\ mode[c] \notin AutoModes
       /\ clientPc' = [clientPc EXCEPT ![c] = "end"]
       /\ UNCHANGED <<station, numOfIterations>>

\* waitForResponse, and what the client does next.  The history of a request
\* ends with its answer.
Receive(c) ==
    /\ clientPc[c] = "await"
    /\ toClient[c] # <<>>
    /\ toClient' = [toClient EXCEPT ![c] = Tail(@)]
    /\ NextStation(c)
    /\ stored' = [stored EXCEPT ![c] = FALSE]
    /\ UNCHANGED <<mode, socket, toServer, waiting, pc, serving, request, dbVars>>

SendEnd(c) ==
    /\ clientPc[c] = "end"
    /\ toServer' = [toServer EXCEPT ![c] = Append(@, Zeroed("END"))]
    /\ clientPc' = [clientPc EXCEPT ![c] = "close"]
    /\ UNCHANGED <<mode, station, numOfIterations, socket, toClient, waiting, pc,
                   serving, request, dbVars, stored>>

\* close() by the client or, when its process ends, by the kernel.  Closing
\* with a response unread resets the connection at once.
Hangup(c) ==
    /\ clientPc' = [clientPc EXCEPT ![c] = "gone"]
    /\ socket' = [socket EXCEPT ![c] =
                     CASE @ = "done" -> "done"
                       [] @ # "done" /\ toClient[c] # <<>> -> "reset"
                       [] OTHER -> "closed"]
    /\ UNCHANGED <<mode, station, numOfIterations, toServer, toClient, waiting, pc,
                   serving, request, dbVars, stored>>

Close(c) == clientPc[c] = "close" /\ Hangup(c)

Die(c) ==
    /\ ClientsMayDie
    /\ clientPc[c] \in {"send", "await", "end"}
    /\ Hangup(c)

\* The client's kernel answers a response to a closed socket with a reset.
ResetArrives(c) ==
    /\ socket[c] = "closed"
    /\ toClient[c] # <<>>
    /\ socket' = [socket EXCEPT ![c] = "reset"]
    /\ UNCHANGED <<clientVars, toServer, toClient, waiting, pc, serving,
                   request, dbVars, stored>>

ClientStep(c) ==
    Connect(c) \/ SendRequest(c) \/ Receive(c) \/ SendEnd(c) \/ Close(c)
-----------------------------------------------------------------------------
(* processRequests, in the consumer thread w.                              *)

At(w, from, to) ==
    /\ pc[w] = from
    /\ pc' = [pc EXCEPT ![w] = to]

\* The consumer takes the connection that has waited longest.
Take(w) ==
    /\ waiting # <<>>
    /\ At(w, "idle", "read")
    /\ serving' = [serving EXCEPT ![w] = Head(waiting)]
    /\ waiting' = Tail(waiting)
    /\ UNCHANGED <<clientVars, wireVars, request, dbVars, stored>>

\* What the dispatch on request.operation does with what was read.
Handle(w, r) ==
    IF r.operation \in {"PUT", "GET"} THEN
        /\ At(w, "read", "lock")
        /\ request' = [request EXCEPT ![w] = r]
    ELSE IF r.operation = "END" THEN
        /\ At(w, "read", "close")
        /\ request' = [request EXCEPT ![w] = r]
    ELSE
        /\ At(w, "read", "write")
        /\ request' = [request EXCEPT ![w] = Zeroed("__UNKNOWN_OPERATION")]

\* A plausible slip: read is tried again after an error.
Read_Again(w) ==
    LET c == serving[w] IN
    /\ pc[w] = "read"
    /\ \/ /\ toServer[c] # <<>>
          /\ Handle(w, Head(toServer[c]))
          /\ toServer' = [toServer EXCEPT ![c] = Tail(@)]
       \/ /\ toServer[c] = <<>>
          /\ socket[c] = "closed"
          /\ Handle(w, Zeroed("PUT"))
          /\ UNCHANGED toServer
    /\ UNCHANGED <<clientVars, socket, toClient, waiting, serving, dbVars,
                   stored>>

\* read(): a request, or nothing because the client has closed - which leaves
\* the zeroed request, a PUT - or an error because the connection is reset.
Read(w) ==
    LET c == serving[w] IN
    /\ pc[w] = "read"
    /\ \/ /\ toServer[c] # <<>>
          /\ Handle(w, Head(toServer[c]))
          /\ toServer' = [toServer EXCEPT ![c] = Tail(@)]
       \/ /\ toServer[c] = <<>>
          /\ socket[c] = "closed"
          /\ Handle(w, Zeroed("PUT"))
          /\ UNCHANGED toServer
       \/ /\ toServer[c] = <<>>
          /\ socket[c] = "reset"
          /\ At(w, "read", "close")
          /\ request' = [request EXCEPT ![w] = Zeroed("PUT")]
          /\ UNCHANGED toServer
    /\ UNCHANGED <<clientVars, socket, toClient, waiting, serving, dbVars,
                   stored>>

\* A plausible slip: the mutex is not waited for.
LockDb_NoWait(w) ==
    /\ At(w, "lock", "seek")
    /\ db_access_mutex' = w
    /\ UNCHANGED <<clientVars, wireVars, waiting, serving, request, db,
                   filePosition, stored>>

LockDb(w) ==
    /\ At(w, "lock", "seek")
    /\ db_access_mutex = None
    /\ db_access_mutex' = w
    /\ UNCHANGED <<clientVars, wireVars, waiting, serving, request, db,
                   filePosition, stored>>

\* KISSDB_get and KISSDB_put first move the file position they share.
Seek(w) ==
    /\ At(w, "seek", "access")
    /\ filePosition' = request[w].key
    /\ UNCHANGED <<clientVars, wireVars, waiting, serving, request, db,
                   db_access_mutex, stored>>

\* A plausible slip: the buffer is left as it was read.
Get_KeepsBuffer(w) ==
    /\ At(w, "access", "unlock")
    /\ request[w].operation = "GET"
    /\ request' = [request EXCEPT ![w] =
                      IF db[filePosition] # None
                      THEN Request("GET_OK", @.key, db[filePosition])
                      ELSE @]
    /\ UNCHANGED <<clientVars, wireVars, waiting, serving, dbVars, stored>>

Get(w) ==
    /\ At(w, "access", "unlock")
    /\ request[w].operation = "GET"
    /\ request' = [request EXCEPT ![w] =
                      IF db[filePosition] # None
                      THEN Request("GET_OK", @.key, db[filePosition])
                      ELSE Zeroed("GET_ERROR")]
    /\ UNCHANGED <<clientVars, wireVars, waiting, serving, dbVars, stored>>

\* A plausible slip: the result of KISSDB_put is not looked at.
Put_Unchecked(w) ==
    /\ At(w, "access", "unlock")
    /\ request[w].operation = "PUT"
    /\ \/ db' = [db EXCEPT ![filePosition] = request[w].value]
       \/ PutsMayFail /\ UNCHANGED db
    /\ request' = [request EXCEPT ![w].operation = "PUT_OK"]
    /\ UNCHANGED <<clientVars, wireVars, waiting, serving, filePosition,
                   db_access_mutex, stored>>

Put(w) ==
    /\ At(w, "access", "unlock")
    /\ request[w].operation = "PUT"
    /\ \/ /\ db' = [db EXCEPT ![filePosition] = request[w].value]
          /\ request' = [request EXCEPT ![w].operation = "PUT_OK"]
       \/ /\ PutsMayFail
          /\ request' = [request EXCEPT ![w] = Zeroed("PUT_ERROR")]
          /\ UNCHANGED db
    /\ UNCHANGED <<clientVars, wireVars, waiting, serving, filePosition,
                   db_access_mutex, stored>>

UnlockDb(w) ==
    /\ At(w, "unlock", "write")
    /\ db_access_mutex' = None
    /\ UNCHANGED <<clientVars, wireVars, waiting, serving, request, db,
                   filePosition, stored>>

\* write(): succeeds also when the client has closed and no reset has come
\* back yet; with the reset it raises SIGPIPE, which is caught, and fails.
\* The loop then zeroes the request for the next read.
Write(w) ==
    LET c == serving[w] IN
    /\ pc[w] = "write"
    /\ \/ /\ \/ socket[c] = "open"
             \/ socket[c] = "closed" /\ Len(toClient[c]) < MaxStray
          /\ toClient' = [toClient EXCEPT ![c] = Append(@, request[w])]
          /\ At(w, "write", "read")
          /\ request' = [request EXCEPT ![w] = Zeroed("PUT")]
       \/ /\ socket[c] = "reset"
          /\ At(w, "write", "close")
          /\ UNCHANGED <<toClient, request>>
    /\ UNCHANGED <<clientVars, socket, toServer, waiting, serving, dbVars, stored>>

\* request is a local of processRequests: the next session has a new one.
CloseSession(w) ==
    /\ At(w, "close", "idle")
    /\ socket' = [socket EXCEPT ![serving[w]] = "done"]
    /\ serving' = [serving EXCEPT ![w] = None]
    /\ request' = [request EXCEPT ![w] = Zeroed("PUT")]
    /\ UNCHANGED <<clientVars, toServer, toClient, waiting, dbVars, stored>>

ConsumerStep(w) ==
    \/ Take(w) \/ Read(w) \/ LockDb(w) \/ Seek(w) \/ Get(w) \/ Put(w)
    \/ UnlockDb(w) \/ Write(w) \/ CloseSession(w)
-----------------------------------------------------------------------------
Next ==
    \/ \E c \in Clients : ClientStep(c) \/ Die(c) \/ ResetArrives(c)
    \/ \E w \in Consumers : ConsumerStep(w)

Spec == Init /\ [][Next]_vars

\* The programs run and a reset that is due arrives.  Nobody need ever die.
FairSpec ==
    /\ Spec
    /\ \A c \in Clients : WF_vars(ClientStep(c)) /\ WF_vars(ResetArrives(c))
    /\ \A w \in Consumers : WF_vars(ConsumerStep(w))
-----------------------------------------------------------------------------
\* The answer that waits for c, when there is one.
Answered(c) == clientPc[c] = "await" /\ toClient[c] # <<>>
Answer(c) == toClient[c][1]

\* What a client reads answers the request it sent: the one buffer a consumer
\* reuses for reading and writing never lets an answer reach another session,
\* or arrive a request late (server.c:105-159).
AnswersTheQuestion ==
    \A c \in Clients : Answered(c) =>
        /\ Len(toClient[c]) = 1
        /\ toServer[c] = <<>>
        /\ Answer(c).operation \in {"GET_OK", "PUT_OK"} => Answer(c).key \in KeysOf(c)
        /\ Answer(c).operation \in
              CASE mode[c] \in {"AUTO_PUT_REQUEST", "manyPuts", "MANUAL_PUT"} ->
                      {"PUT_OK", "PUT_ERROR"}
                [] mode[c] \in {"AUTO_GET_REQUEST", "manyGets", "MANUAL_GET"} ->
                      {"GET_OK", "GET_ERROR"}
                [] OTHER -> {"__UNKNOWN_OPERATION"}

\* A GET of a station that had a reading when the GET was sent finds one.
StoredIsFound ==
    \A c \in Clients : Answered(c) /\ stored[c] => Answer(c).operation # "GET_ERROR"

\* Every connection ends with the server's close, also when the client has
\* gone without END: the consumer is free again.
SessionsEnd ==
    \A c \in Clients : socket[c] = "open" ~> socket[c] = "done"
=============================================================================
