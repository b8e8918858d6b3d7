---------------------------- MODULE SessionProofs ----------------------------
(* Proofs that every answer reaches the client that asked and answers what *)
(* it asked, for every number of clients, consumers and stations, whoever  *)
(* dies and whatever fails.                                                *)
EXTENDS Session, TLAPS

Operations == {"PUT", "GET", "END", "PUT_OK", "PUT_ERROR", "GET_OK", "GET_ERROR",
               "__UNKNOWN_OPERATION"}
Requests == [operation : Operations, key : Keys, value : Values]

PutModes == {"AUTO_PUT_REQUEST", "manyPuts", "MANUAL_PUT"}
GetModes == {"AUTO_GET_REQUEST", "manyGets", "MANUAL_GET"}

(* The inductive invariant, in layers.                                     *)

ClientTypes ==
    /\ mode \in [Clients -> Modes \cup {None}]
    /\ station \in [Clients -> Stations]
    /\ numOfIterations \in [Clients -> Nat]
    /\ clientPc \in [Clients -> {"start", "send", "await", "end", "close", "gone"}]
    /\ \A c \in Clients : clientPc[c] \in {"send", "await"} =>
          numOfIterations[c] > 0 /\ mode[c] \in PutModes \cup GetModes \cup {"FOREIGN"}

WireTypes ==
    /\ socket \in [Clients -> {"none", "open", "closed", "reset", "done"}]
    /\ toServer \in [Clients -> Seq(Requests)]
    /\ toClient \in [Clients -> Seq(Requests)]
    /\ waiting \in Seq(Clients)
    /\ stored \in [Clients -> BOOLEAN]

ConsumerTypes ==
    /\ pc \in [Consumers -> {"idle", "read", "lock", "seek", "access", "unlock",
                             "write", "close"}]
    /\ serving \in [Consumers -> Clients \cup {None}]
    /\ request \in [Consumers -> Requests]
    /\ \A w \in Consumers : pc[w] \in {"lock", "seek", "access"} =>
          request[w].operation \in {"PUT", "GET"}

FileTypes ==
    /\ db \in [Keys -> Values \cup {None}]
    /\ filePosition \in Keys
    /\ db_access_mutex \in Consumers \cup {None}

Shape == ClientTypes /\ WireTypes /\ ConsumerTypes /\ FileTypes

\* A connection waits once, or one consumer has it.
Waits(c) == \E i \in 1 .. Len(waiting) : waiting[i] = c
OneServer ==
    /\ \A i, j \in 1 .. Len(waiting) : waiting[i] = waiting[j] => i = j
    /\ \A w \in Consumers : pc[w] = "idle" <=> serving[w] = None
    /\ \A w \in Consumers : serving[w] # None => ~Waits(serving[w])
    /\ \A v, w \in Consumers : serving[v] = serving[w] /\ serving[v] # None => v = w
    /\ \A c \in Clients : clientPc[c] = "start" =>
          ~Waits(c) /\ \A w \in Consumers : serving[w] # c

\* Between locking and unlocking, one consumer has the file to itself, and
\* reads and writes where it has moved to.
FileIsMine ==
    /\ \A w \in Consumers : pc[w] \in {"seek", "access", "unlock"}
                              <=> db_access_mutex = w
    /\ \A w \in Consumers : pc[w] = "access" => filePosition = request[w].key

Served(c, places) == \A w \in Consumers : serving[w] = c => pc[w] \in places

\* What c may be told.
AnswersTo(c) ==
    {r \in Requests :
        /\ r.operation \in {"GET_OK", "PUT_OK"} => r.key \in KeysOf(c)
        /\ mode[c] \in PutModes => r.operation \in {"PUT_OK", "PUT_ERROR"}
        /\ mode[c] \in GetModes => r.operation \in {"GET_OK", "GET_ERROR"}
        /\ mode[c] = "FOREIGN" => r.operation = "__UNKNOWN_OPERATION"}

\* The four places where a request or its answer is while c waits for it.
Asked(c) ==
    /\ \E r \in RequestsOf(c) : toServer[c] = <<r>>
    /\ toClient[c] = <<>>
    /\ Served(c, {"read"})
AtWork(c) ==
    /\ toServer[c] = <<>> /\ toClient[c] = <<>>
    /\ \E w \in Consumers : /\ serving[w] = c
                            /\ pc[w] \in {"lock", "seek", "access"}
                            /\ request[w] \in RequestsOf(c)
Answering(c) ==
    /\ toServer[c] = <<>> /\ toClient[c] = <<>>
    /\ \E w \in Consumers : /\ serving[w] = c
                            /\ pc[w] \in {"unlock", "write"}
                            /\ request[w] \in AnswersTo(c)
Told(c) ==
    /\ toServer[c] = <<>>
    /\ \E r \in AnswersTo(c) : toClient[c] = <<r>>
    /\ Served(c, {"read"})

\* What has been sent last, and nobody has read.
Unread(c) == toServer[c] = <<>> \/ \E r \in Requests : toServer[c] = <<r>> /\ Served(c, {"read"})

\* One question at a time, and one answer to it.
Turn(c) ==
    /\ clientPc[c] = "start" =>
          socket[c] = "none" /\ toServer[c] = <<>> /\ toClient[c] = <<>>
    /\ clientPc[c] \in {"send", "end"} =>
          /\ socket[c] = "open" /\ toServer[c] = <<>> /\ toClient[c] = <<>>
          /\ Served(c, {"read"})
    /\ clientPc[c] = "await" =>
          socket[c] = "open" /\ (Asked(c) \/ AtWork(c) \/ Answering(c) \/ Told(c))
    /\ clientPc[c] = "close" =>
          /\ socket[c] \in {"open", "done"} /\ toClient[c] = <<>>
          /\ \/ toServer[c] = <<>> /\ Served(c, {"read", "close"})
             \/ toServer[c] = <<Zeroed("END")>> /\ Served(c, {"read"})
    /\ clientPc[c] = "gone" =>
          /\ socket[c] \in {"closed", "reset", "done"} /\ Len(toClient[c]) <= MaxStray
          /\ Unread(c)

Turns == \A c \in Clients : Turn(c)

IInv ==
    /\ Shape
    /\ OneServer
    /\ FileIsMine
    /\ Turns
-----------------------------------------------------------------------------
(* Messages and pipes of at most one of them.                              *)

LEMMA OneMessage ==
    ASSUME NEW T, NEW r \in T
    PROVE  /\ <<r>> \in Seq(T) /\ <<r>> # <<>> /\ Len(<<r>>) = 1
           /\ Append(<<>>, r) = <<r>>
           /\ Head(<<r>>) = r /\ Tail(<<r>>) = <<>>
           /\ <<>> \in Seq(T) /\ Len(<<>>) = 0
  OBVIOUS

\* A request that has been cleared but for its operation.
LEMMA ZeroedType ==
    ASSUME NEW operation \in Operations
    PROVE  /\ Zeroed(operation) \in Requests
           /\ Zeroed(operation).operation = operation
           /\ Zeroed(operation).key = EmptyKey
  <1>1. EmptyKey \in Keys /\ "" \in Values
    BY DEF Keys, Values
  <1>2. QED
    BY <1>1 DEF Zeroed, Request, Requests

\* What a client may ask, by its mode.
LEMMA PutsAsk ==
    ASSUME NEW c \in Clients, mode[c] \in PutModes
    PROVE  RequestsOf(c) = {Request("PUT", k, v) : k \in KeysOf(c), v \in Readings}
  <1> DEFINE puts == {Request("PUT", k, v) : k \in KeysOf(c), v \in Readings}
             gets == {Request("GET", k, "") : k \in KeysOf(c)}
             other == {Zeroed("PUT_OK")}
  <1>1. RequestsOf(c) =
           CASE mode[c] \in {"AUTO_PUT_REQUEST", "manyPuts", "MANUAL_PUT"} -> puts
             [] mode[c] \in {"AUTO_GET_REQUEST", "manyGets", "MANUAL_GET"} -> gets
             [] mode[c] = "FOREIGN" -> other
    BY DEF RequestsOf
  <1> HIDE DEF puts, gets, other
  <1>2. RequestsOf(c) = puts
    BY <1>1, Zenon DEF PutModes
  <1>3. QED
    BY <1>2 DEF puts

LEMMA GetsAsk ==
    ASSUME NEW c \in Clients, mode[c] \in GetModes
    PROVE  RequestsOf(c) = {Request("GET", k, "") : k \in KeysOf(c)}
  <1> DEFINE puts == {Request("PUT", k, v) : k \in KeysOf(c), v \in Readings}
             gets == {Request("GET", k, "") : k \in KeysOf(c)}
             other == {Zeroed("PUT_OK")}
  <1>1. RequestsOf(c) =
           CASE mode[c] \in {"AUTO_PUT_REQUEST", "manyPuts", "MANUAL_PUT"} -> puts
             [] mode[c] \in {"AUTO_GET_REQUEST", "manyGets", "MANUAL_GET"} -> gets
             [] mode[c] = "FOREIGN" -> other
    BY DEF RequestsOf
  <1> HIDE DEF puts, gets, other
  <1>4. mode[c] \notin {"AUTO_PUT_REQUEST", "manyPuts", "MANUAL_PUT"} /\ mode[c] # "FOREIGN"
    BY DEF GetModes
  <1>2. RequestsOf(c) = gets
    BY <1>1, <1>4, Zenon DEF GetModes
  <1>3. QED
    BY <1>2 DEF gets

LEMMA ForeignAsks ==
    ASSUME NEW c \in Clients, mode[c] \in {"FOREIGN"}
    PROVE  RequestsOf(c) = {Zeroed("PUT_OK")}
  <1> DEFINE puts == {Request("PUT", k, v) : k \in KeysOf(c), v \in Readings}
             gets == {Request("GET", k, "") : k \in KeysOf(c)}
             other == {Zeroed("PUT_OK")}
  <1>1. RequestsOf(c) =
           CASE mode[c] \in {"AUTO_PUT_REQUEST", "manyPuts", "MANUAL_PUT"} -> puts
             [] mode[c] \in {"AUTO_GET_REQUEST", "manyGets", "MANUAL_GET"} -> gets
             [] mode[c] = "FOREIGN" -> other
    BY DEF RequestsOf
  <1> HIDE DEF puts, gets, other
  <1>2. RequestsOf(c) = other
    BY <1>1, Zenon
  <1>3. QED
    BY <1>2 DEF other

\* A client of client.c asks about its station, any other one nothing known.
LEMMA Asking ==
    ASSUME NEW c \in Clients, station[c] \in Stations, NEW r \in RequestsOf(c),
           mode[c] \in PutModes \cup GetModes \cup {"FOREIGN"}
    PROVE  /\ r \in Requests
           /\ \/ /\ mode[c] \in PutModes /\ mode[c] \notin GetModes \cup {"FOREIGN"}
                 /\ r.operation = "PUT" /\ r.key \in KeysOf(c)
              \/ /\ mode[c] \in GetModes /\ mode[c] \notin PutModes \cup {"FOREIGN"}
                 /\ r.operation = "GET" /\ r.key \in KeysOf(c)
              \/ /\ mode[c] = "FOREIGN" /\ mode[c] \notin PutModes \cup GetModes
                 /\ r.operation = "PUT_OK"
  <1>1. KeysOf(c) \subseteq Keys
    <2>1. ASSUME NEW rests \in SUBSET StackBytes
          PROVE  [station : {station[c]}, rest : rests] \subseteq [station : Stations, rest : StackBytes]
      OBVIOUS
    <2>2. {0} \subseteq StackBytes
      BY SessionAssumption
    <2>3. QED
      BY <2>1, <2>2 DEF KeysOf, Keys
  <1>2. CASE mode[c] \in PutModes
    <2>1. r \in {Request("PUT", k, v) : k \in KeysOf(c), v \in Readings}
      BY <1>2, PutsAsk
    <2>2. PICK k \in KeysOf(c), v \in Readings : r = Request("PUT", k, v)
      BY <2>1
    <2>3. mode[c] \notin GetModes \cup {"FOREIGN"}
      BY <1>2 DEF PutModes, GetModes
    <2>4. QED
      BY <1>1, <1>2, <2>2, <2>3 DEF Request, Requests, Operations, Values
  <1>3. CASE mode[c] \in GetModes
    <2>1. r \in {Request("GET", k, "") : k \in KeysOf(c)}
      BY <1>3, GetsAsk
    <2>2. PICK k \in KeysOf(c) : r = Request("GET", k, "")
      BY <2>1
    <2>3. mode[c] \notin PutModes \cup {"FOREIGN"}
      BY <1>3 DEF PutModes, GetModes
    <2>4. QED
      BY <1>1, <1>3, <2>2, <2>3 DEF Request, Requests, Operations, Values
  <1>4. CASE mode[c] = "FOREIGN"
    <2>1. r = Zeroed("PUT_OK")
      BY <1>4, ForeignAsks
    <2>2. mode[c] \notin PutModes \cup GetModes
      BY <1>4 DEF PutModes, GetModes
    <2>3. QED
      BY <1>4, <2>1, <2>2, ZeroedType DEF Operations
  <1>5. QED
    BY <1>2, <1>3, <1>4

\* The modes a session has after it has connected.
LEMMA ModesOf ==
    ASSUME NEW m \in Modes, m # "MALFORMED"
    PROVE  m \in PutModes \cup GetModes \cup {"FOREIGN"}
  BY SessionAssumption DEF ModeKinds, PutModes, GetModes

\* A client that goes on to the next station has stations left.
LEMMA Onwards ==
    ASSUME NEW c \in Clients, ClientTypes, clientPc[c] = "await", NextStation(c)
    PROVE  /\ station' \in [Clients -> Stations]
           /\ numOfIterations' \in [Clients -> Nat]
           /\ \/ clientPc' = [clientPc EXCEPT ![c] = "send"] /\ numOfIterations'[c] > 0
              \/ clientPc' = [clientPc EXCEPT ![c] = "end"]
           /\ \A d \in Clients \ {c} : numOfIterations'[d] = numOfIterations[d]
           /\ \A d \in Clients \ {c} : station'[d] = station[d]
  <1> USE DEF ClientTypes
  <1>1. MAX_STATION_ID \in Nat \ {0}
    BY SessionAssumption
  <1>6. numOfIterations[c] \in Nat
    OBVIOUS
  <1>7. numOfIterations[c] > 0
    OBVIOUS
  <1>2. CASE /\ station[c] < MAX_STATION_ID
             /\ station' = [station EXCEPT ![c] = @ + 1]
             /\ clientPc' = [clientPc EXCEPT ![c] = "send"]
             /\ UNCHANGED numOfIterations
    <2>1. station[c] + 1 \in Stations
      BY <1>1, <1>2 DEF Stations
    <2>2. QED
      BY <1>1, <1>2, <2>1
  <1>3. CASE /\ numOfIterations' = [numOfIterations EXCEPT ![c] = @ - 1]
             /\ station' = [station EXCEPT ![c] = 0]
             /\ clientPc' = [clientPc EXCEPT ![c] =
                                IF numOfIterations[c] = 1 THEN "end" ELSE "send"]
    <2>1. 0 \in Stations /\ numOfIterations[c] - 1 \in Nat
      BY <1>1 DEF Stations
    <2>2. numOfIterations[c] # 1 => numOfIterations[c] - 1 > 0
      BY <1>1
    <2>3. QED
      BY <1>3, <2>1, <2>2
  <1>4. CASE /\ clientPc' = [clientPc EXCEPT ![c] = "end"]
             /\ UNCHANGED <<station, numOfIterations>>
    BY <1>4
  <1>5. QED
    BY <1>2, <1>3, <1>4 DEF NextStation

\* What the two sides leave alone.
LEMMA Frames ==
    /\ \A w \in Consumers : ConsumerStep(w) => UNCHANGED <<clientVars, stored>>
    /\ \A c \in Clients : ClientStep(c) \/ Die(c) \/ ResetArrives(c) =>
          UNCHANGED <<pc, serving, request, dbVars>>
  <1>1. ASSUME NEW w \in Consumers, ConsumerStep(w)
        PROVE  UNCHANGED <<clientVars, stored>>
    BY <1>1 DEF ConsumerStep, Take, Read, LockDb, Seek, Get, Put, UnlockDb, Write, CloseSession
  <1>2. ASSUME NEW c \in Clients, ClientStep(c) \/ Die(c) \/ ResetArrives(c)
        PROVE  UNCHANGED <<pc, serving, request, dbVars>>
    BY <1>2 DEF ClientStep, Connect, SendRequest, Receive, SendEnd, Close, Die, Hangup,
                ResetArrives
  <1>3. QED
    BY <1>1, <1>2

LEMMA IterationsAreNumbers == \A i \in Iterations \cup {1} : i \in Nat
  <1>1. Iterations \subseteq Nat
    BY SessionAssumption
  <1>2. QED
    BY <1>1

\* A client that still asks has stations left, and a mode that asks.
LEMMA ClientTypesStep == ClientTypes /\ [Next]_vars => ClientTypes'
  <1> SUFFICES ASSUME ClientTypes, [Next]_vars PROVE ClientTypes'
    OBVIOUS
  <1> USE DEF ClientTypes
  <1>1. ASSUME NEW c \in Clients, Connect(c)
        PROVE  ClientTypes'
    <2>1. PICK m \in Modes, s \in Stations, i \in Iterations \cup {1} :
             /\ Chosen(m, s)
             /\ i # 1 => m \in AutoModes
             /\ mode' = [mode EXCEPT ![c] = m]
             /\ station' = [station EXCEPT ![c] = s]
             /\ numOfIterations' = [numOfIterations EXCEPT ![c] = i]
             /\ clientPc' = [clientPc EXCEPT ![c] =
                                IF m = "MALFORMED" THEN "close"
                                ELSE IF i = 0 THEN "end" ELSE "send"]
      BY <1>1, Zenon DEF Connect
    <2>2. i \in Nat
      BY <2>1, IterationsAreNumbers, Zenon
    <2>3. /\ mode' \in [Clients -> Modes \cup {None}]
          /\ station' \in [Clients -> Stations]
          /\ numOfIterations' \in [Clients -> Nat]
          /\ clientPc' \in [Clients -> {"start", "send", "await", "end", "close", "gone"}]
      BY <2>1, <2>2
    <2>4. ASSUME NEW d \in Clients, clientPc'[d] \in {"send", "await"}
          PROVE  numOfIterations'[d] > 0 /\ mode'[d] \in PutModes \cup GetModes \cup {"FOREIGN"}
      <3>1. CASE d = c
        <4>1. m # "MALFORMED" /\ i # 0
          BY <2>1, <2>4, <3>1
        <4>2. numOfIterations'[d] = i /\ mode'[d] = m
          BY <2>1, <3>1
        <4>3. QED
          BY <2>2, <4>1, <4>2, ModesOf
      <3>2. CASE d # c
        BY <2>1, <2>4, <3>2
      <3>3. QED
        BY <3>1, <3>2
    <2>5. QED
      BY <2>3, <2>4
  <1>2. ASSUME NEW c \in Clients, SendRequest(c)
        PROVE  ClientTypes'
    BY <1>2 DEF SendRequest
  <1>3. ASSUME NEW c \in Clients, Receive(c)
        PROVE  ClientTypes'
    <2>1. /\ clientPc[c] = "await" /\ NextStation(c)
          /\ mode' = mode
      BY <1>3 DEF Receive
    <2>2. /\ station' \in [Clients -> Stations]
          /\ numOfIterations' \in [Clients -> Nat]
          /\ \/ clientPc' = [clientPc EXCEPT ![c] = "send"] /\ numOfIterations'[c] > 0
             \/ clientPc' = [clientPc EXCEPT ![c] = "end"]
          /\ \A d \in Clients \ {c} : numOfIterations'[d] = numOfIterations[d]
      BY <2>1, Onwards
    <2>3. mode[c] \in PutModes \cup GetModes \cup {"FOREIGN"}
      BY <2>1
    <2>4. QED
      BY <2>1, <2>2, <2>3
  <1>4. ASSUME NEW c \in Clients, SendEnd(c)
        PROVE  ClientTypes'
    BY <1>4 DEF SendEnd
  <1>5. ASSUME NEW c \in Clients, Hangup(c)
        PROVE  ClientTypes'
    BY <1>5 DEF Hangup
  <1>6. ASSUME NEW c \in Clients, ResetArrives(c)
        PROVE  ClientTypes'
    BY <1>6 DEF ResetArrives, clientVars
  <1>7. ASSUME NEW w \in Consumers, ConsumerStep(w)
        PROVE  ClientTypes'
    BY <1>7, Frames DEF clientVars
  <1>8. CASE UNCHANGED vars
    BY <1>8 DEF vars, clientVars
  <1>9. QED
    BY <1>1, <1>2, <1>3, <1>4, <1>5, <1>6, <1>7, <1>8 DEF Next, ClientStep, Close, Die

\* What is written is a request, and goes where a consumer serves.
LEMMA WireTypesStep ==
    Shape /\ OneServer /\ [Next]_vars => WireTypes'
  <1> SUFFICES ASSUME Shape, OneServer, [Next]_vars PROVE WireTypes'
    OBVIOUS
  <1> USE DEF WireTypes
  <1>0. WireTypes
    BY DEF Shape
  <1>1. ASSUME NEW c \in Clients, Connect(c)
        PROVE  WireTypes'
    BY <1>0, <1>1 DEF Connect
  <1>2. ASSUME NEW c \in Clients, SendRequest(c)
        PROVE  WireTypes'
    <2>1. PICK r \in RequestsOf(c) : toServer' = [toServer EXCEPT ![c] = Append(@, r)]
      BY <1>2 DEF SendRequest
    <2>2. r \in Requests
      BY <1>2, <2>1, Asking DEF SendRequest, Shape, ClientTypes
    <2>3. Append(toServer[c], r) \in Seq(Requests)
      BY <1>0, <2>2
    <2>4. toServer' \in [Clients -> Seq(Requests)]
      BY <1>0, <2>1, <2>3
    <2>5. stored' \in [Clients -> BOOLEAN]
      BY <1>0, <1>2 DEF SendRequest
    <2>6. QED
      BY <1>0, <1>2, <2>4, <2>5 DEF SendRequest
  <1>3. ASSUME NEW c \in Clients, Receive(c)
        PROVE  WireTypes'
    <2>1. Tail(toClient[c]) \in Seq(Requests)
      BY <1>0, <1>3 DEF Receive
    <2>2. QED
      BY <1>0, <1>3, <2>1 DEF Receive
  <1>4. ASSUME NEW c \in Clients, SendEnd(c)
        PROVE  WireTypes'
    <2>1. Zeroed("END") \in Requests
      BY ZeroedType DEF Operations
    <2>2. Append(toServer[c], Zeroed("END")) \in Seq(Requests)
      BY <1>0, <2>1
    <2>3. QED
      BY <1>0, <1>4, <2>2 DEF SendEnd
  <1>5. ASSUME NEW c \in Clients, Hangup(c)
        PROVE  WireTypes'
    <2>1. \E s \in {"done", "reset", "closed"} : socket' = [socket EXCEPT ![c] = s]
      BY <1>5 DEF Hangup
    <2>2. QED
      BY <1>0, <1>5, <2>1 DEF Hangup
  <1>6. ASSUME NEW c \in Clients, ResetArrives(c)
        PROVE  WireTypes'
    BY <1>0, <1>6 DEF ResetArrives
  <1>7. ASSUME NEW w \in Consumers, Take(w)
        PROVE  WireTypes'
    <2>1. Tail(waiting) \in Seq(Clients)
      BY <1>0, <1>7 DEF Take
    <2>2. QED
      BY <1>0, <1>7, <2>1 DEF Take, wireVars
  <1>8. ASSUME NEW w \in Consumers, Read(w)
        PROVE  WireTypes'
    <2>1. toServer' \in [Clients -> Seq(Requests)]
      <3>1. CASE toServer' = toServer
        BY <1>0, <3>1
      <3>2. CASE /\ toServer[serving[w]] # <<>>
                 /\ toServer' = [toServer EXCEPT ![serving[w]] = Tail(@)]
        <4>1. ASSUME serving[w] \in Clients
              PROVE  Tail(toServer[serving[w]]) \in Seq(Requests)
          BY <1>0, <3>2, <4>1
        <4>2. QED
          BY <1>0, <3>2, <4>1
      <3>3. QED
        BY <1>8, <3>1, <3>2 DEF Read
    <2>2. QED
      BY <1>0, <1>8, <2>1 DEF Read
  <1>9. ASSUME NEW w \in Consumers, Write(w)
        PROVE  WireTypes'
    <2>1. toClient' \in [Clients -> Seq(Requests)]
      <3>1. CASE toClient' = toClient
        BY <1>0, <3>1
      <3>2. CASE toClient' = [toClient EXCEPT ![serving[w]] = Append(@, request[w])]
        <4>1. request[w] \in Requests
          BY DEF Shape, ConsumerTypes
        <4>2. ASSUME serving[w] \in Clients
              PROVE  Append(toClient[serving[w]], request[w]) \in Seq(Requests)
          BY <1>0, <4>1, <4>2
        <4>3. QED
          BY <1>0, <3>2, <4>2
      <3>3. QED
        BY <1>9, <3>1, <3>2 DEF Write
    <2>2. QED
      BY <1>0, <1>9, <2>1 DEF Write
  <1>10. ASSUME NEW w \in Consumers, CloseSession(w)
         PROVE  WireTypes'
    BY <1>0, <1>10 DEF CloseSession
  <1>11. ASSUME NEW w \in Consumers,
                LockDb(w) \/ Seek(w) \/ Get(w) \/ Put(w) \/ UnlockDb(w)
         PROVE  WireTypes'
    BY <1>0, <1>11 DEF LockDb, Seek, Get, Put, UnlockDb, wireVars
  <1>12. CASE UNCHANGED vars
    BY <1>0, <1>12 DEF vars, wireVars
  <1>13. QED
    BY <1>1, <1>2, <1>3, <1>4, <1>5, <1>6, <1>7, <1>8, <1>9, <1>10, <1>11, <1>12
       DEF Next, ClientStep, Close, Die, ConsumerStep

\* What a consumer does with a request it has read.
LEMMA Handling ==
    ASSUME NEW w \in Consumers, NEW r \in Requests, ConsumerTypes, Handle(w, r)
    PROVE  /\ pc[w] = "read"
           /\ request' \in [Consumers -> Requests]
           /\ pc' \in [Consumers -> {"idle", "read", "lock", "seek", "access",
                                     "unlock", "write", "close"}]
           /\ \A v \in Consumers \ {w} : pc'[v] = pc[v] /\ request'[v] = request[v]
           /\ \/ pc'[w] = "lock" /\ request'[w] = r /\ r.operation \in {"PUT", "GET"}
              \/ pc'[w] = "close" /\ request'[w] = r /\ r.operation = "END"
              \/ /\ pc'[w] = "write" /\ request'[w] = Zeroed("__UNKNOWN_OPERATION")
                 /\ r.operation \notin {"PUT", "GET", "END"}
  <1> USE DEF ConsumerTypes
  <1>1. CASE /\ At(w, "read", "lock") /\ r.operation \in {"PUT", "GET"}
             /\ request' = [request EXCEPT ![w] = r]
    BY <1>1 DEF At
  <1>2. CASE /\ At(w, "read", "close") /\ r.operation = "END"
             /\ request' = [request EXCEPT ![w] = r]
    BY <1>2 DEF At
  <1>3. CASE /\ At(w, "read", "write") /\ r.operation \notin {"PUT", "GET", "END"}
             /\ request' = [request EXCEPT ![w] = Zeroed("__UNKNOWN_OPERATION")]
    <2>1. Zeroed("__UNKNOWN_OPERATION") \in Requests
      BY ZeroedType DEF Operations
    <2>2. QED
      BY <1>3, <2>1 DEF At
  <1>4. QED
    BY <1>1, <1>2, <1>3 DEF Handle

LEMMA ConsumerTypesStep ==
    Shape /\ OneServer /\ [Next]_vars => ConsumerTypes'
  <1> SUFFICES ASSUME Shape, OneServer, [Next]_vars PROVE ConsumerTypes'
    OBVIOUS
  <1> USE DEF ConsumerTypes
  <1>0. ConsumerTypes
    BY DEF Shape
  <1>1. ASSUME NEW c \in Clients, ClientStep(c) \/ Die(c) \/ ResetArrives(c)
        PROVE  ConsumerTypes'
    BY <1>0, <1>1, Frames
  <1>2. ASSUME NEW w \in Consumers, Take(w)
        PROVE  ConsumerTypes'
    <2>1. Head(waiting) \in Clients
      BY <1>2 DEF Shape, WireTypes, Take
    <2>2. QED
      BY <1>0, <1>2, <2>1 DEF Take, At
  <1>3. ASSUME NEW w \in Consumers, Read(w)
        PROVE  ConsumerTypes'
    <2>1. serving' = serving
      BY <1>3 DEF Read
    <2>2. serving[w] \in Clients
      BY <1>0, <1>3 DEF OneServer, Read
    <2>3. ASSUME NEW r \in Requests, Handle(w, r)
          PROVE  ConsumerTypes'
      BY <1>0, <2>1, <2>3, Handling
    <2>4. CASE /\ At(w, "read", "close")
               /\ request' = [request EXCEPT ![w] = Zeroed("PUT")]
      <3>1. Zeroed("PUT") \in Requests
        BY ZeroedType DEF Operations
      <3>2. QED
        BY <1>0, <2>1, <2>4, <3>1 DEF At
    <2>5. toServer[serving[w]] # <<>> => Head(toServer[serving[w]]) \in Requests
      BY <2>2 DEF Shape, WireTypes
    <2>6. Zeroed("PUT") \in Requests
      BY ZeroedType DEF Operations
    <2>7. QED
      BY <1>3, <2>3, <2>4, <2>5, <2>6 DEF Read
  <1>4. ASSUME NEW w \in Consumers, LockDb(w) \/ Seek(w) \/ UnlockDb(w)
        PROVE  ConsumerTypes'
    BY <1>0, <1>4 DEF LockDb, Seek, UnlockDb, At
  <1>5. ASSUME NEW w \in Consumers, NEW r \in Requests,
               request' = [request EXCEPT ![w] = r], At(w, "access", "unlock"),
               serving' = serving
        PROVE  ConsumerTypes'
    BY <1>0, <1>5 DEF At
  <1>6. ASSUME NEW w \in Consumers, Get(w)
        PROVE  ConsumerTypes'
    <2>1. request[w].key \in Keys
      BY <1>0 DEF Requests
    <2>2. db[filePosition] # None => db[filePosition] \in Values
      BY DEF Shape, FileTypes
    <2>3. db[filePosition] # None =>
             Request("GET_OK", request[w].key, db[filePosition]) \in Requests
      BY <2>1, <2>2 DEF Request, Requests, Operations
    <2>4. Zeroed("GET_ERROR") \in Requests
      BY ZeroedType DEF Operations
    <2>5. QED
      BY <1>5, <1>6, <2>3, <2>4 DEF Get
  <1>7. ASSUME NEW w \in Consumers, Put(w)
        PROVE  ConsumerTypes'
    <2>1. [request[w] EXCEPT !.operation = "PUT_OK"] \in Requests
      BY <1>0 DEF Requests, Operations
    <2>2. Zeroed("PUT_ERROR") \in Requests
      BY ZeroedType DEF Operations
    <2>3. QED
      BY <1>5, <1>7, <2>1, <2>2 DEF Put
  <1>8. ASSUME NEW w \in Consumers, Write(w)
        PROVE  ConsumerTypes'
    <2>1. Zeroed("PUT") \in Requests
      BY ZeroedType DEF Operations
    <2>2. QED
      BY <1>0, <1>8, <2>1 DEF Write, At
  <1>9. ASSUME NEW w \in Consumers, CloseSession(w)
        PROVE  ConsumerTypes'
    <2>1. Zeroed("PUT") \in Requests
      BY ZeroedType DEF Operations
    <2>2. QED
      BY <1>0, <1>9, <2>1 DEF CloseSession, At
  <1>10. CASE UNCHANGED vars
    BY <1>0, <1>10 DEF vars
  <1>11. QED
    BY <1>1, <1>2, <1>3, <1>4, <1>6, <1>7, <1>8, <1>9, <1>10 DEF Next, ConsumerStep

LEMMA FileTypesStep == Shape /\ [Next]_vars => FileTypes'
  <1> SUFFICES ASSUME Shape, [Next]_vars PROVE FileTypes'
    OBVIOUS
  <1> USE DEF FileTypes
  <1>0. FileTypes
    BY DEF Shape
  <1>1. ASSUME NEW c \in Clients, ClientStep(c) \/ Die(c) \/ ResetArrives(c)
        PROVE  FileTypes'
    BY <1>0, <1>1, Frames DEF dbVars
  <1>2. ASSUME NEW w \in Consumers, Seek(w)
        PROVE  FileTypes'
    <2>1. request[w].key \in Keys
      BY DEF Shape, ConsumerTypes, Requests
    <2>2. QED
      BY <1>0, <1>2, <2>1 DEF Seek
  <1>3. ASSUME NEW w \in Consumers, Put(w)
        PROVE  FileTypes'
    <2>1. request[w].value \in Values
      BY DEF Shape, ConsumerTypes, Requests
    <2>2. db' \in [Keys -> Values \cup {None}]
      BY <1>0, <1>3, <2>1 DEF Put
    <2>3. QED
      BY <1>0, <1>3, <2>2 DEF Put
  <1>4. ASSUME NEW w \in Consumers, LockDb(w) \/ UnlockDb(w)
        PROVE  FileTypes'
    BY <1>0, <1>4 DEF LockDb, UnlockDb
  <1>5. ASSUME NEW w \in Consumers,
               Take(w) \/ Read(w) \/ Get(w) \/ Write(w) \/ CloseSession(w)
        PROVE  FileTypes'
    BY <1>0, <1>5 DEF Take, Read, Get, Write, CloseSession, dbVars
  <1>6. CASE UNCHANGED vars
    BY <1>0, <1>6 DEF vars, dbVars
  <1>7. QED
    BY <1>1, <1>2, <1>3, <1>4, <1>5, <1>6 DEF Next, ConsumerStep

LEMMA ShapeStep == Shape /\ OneServer /\ [Next]_vars => Shape'
  BY ClientTypesStep, WireTypesStep, ConsumerTypesStep, FileTypesStep DEF Shape

-----------------------------------------------------------------------------
(* A connection has one place.                                             *)

LEMMA JoinsLine ==
    ASSUME waiting \in Seq(Clients), NEW c \in Clients, waiting' = Append(waiting, c)
    PROVE  /\ \A d \in Clients : Waits(d)' => Waits(d) \/ d = c
           /\ (~Waits(c) /\ \A i, j \in 1 .. Len(waiting) : waiting[i] = waiting[j] => i = j)
                 => \A i, j \in 1 .. Len(waiting') : waiting'[i] = waiting'[j] => i = j
  <1>1. /\ Len(waiting) \in Nat /\ Len(waiting') = Len(waiting) + 1
        /\ waiting'[Len(waiting) + 1] = c
        /\ \A i \in 1 .. Len(waiting) : waiting'[i] = waiting[i]
    OBVIOUS
  <1> HIDE DEF Waits
  <1>2. \A i \in 1 .. Len(waiting') : i \in 1 .. Len(waiting) \/ i = Len(waiting) + 1
    BY <1>1
  <1>3. QED
    BY <1>1, <1>2 DEF Waits

LEMMA LeavesLine ==
    ASSUME waiting \in Seq(Clients), waiting # <<>>, waiting' = Tail(waiting),
           NEW c, c = Head(waiting)
    PROVE  /\ c \in Clients /\ Waits(c)
           /\ \A d \in Clients : Waits(d)' => Waits(d)
           /\ (\A i, j \in 1 .. Len(waiting) : waiting[i] = waiting[j] => i = j)
                 => /\ ~Waits(c)'
                    /\ \A i, j \in 1 .. Len(waiting') : waiting'[i] = waiting'[j] => i = j
  <1>1. /\ Len(waiting) \in Nat \ {0} /\ Len(waiting') = Len(waiting) - 1
        /\ c = waiting[1] /\ c \in Clients
        /\ \A i \in 1 .. Len(waiting') : waiting'[i] = waiting[i + 1]
    OBVIOUS
  <1>2. \A i \in 1 .. Len(waiting') : i \in Nat /\ i + 1 \in 1 .. Len(waiting) /\ i + 1 # 1
    BY <1>1
  <1>3. 1 \in 1 .. Len(waiting)
    BY <1>1
  <1>4. \A d \in Clients : Waits(d)' => Waits(d)
    BY <1>1, <1>2 DEF Waits
  <1>5. Waits(c)
    BY <1>1, <1>3 DEF Waits
  <1>6. ASSUME \A i, j \in 1 .. Len(waiting) : waiting[i] = waiting[j] => i = j
        PROVE  /\ ~Waits(c)'
               /\ \A i, j \in 1 .. Len(waiting') : waiting'[i] = waiting'[j] => i = j
    <2>1. ASSUME NEW i \in 1 .. Len(waiting'), waiting'[i] = c
          PROVE  FALSE
      BY <1>1, <1>2, <1>3, <1>6, <2>1
    <2>2. ASSUME NEW i \in 1 .. Len(waiting'), NEW j \in 1 .. Len(waiting'),
                 waiting'[i] = waiting'[j]
          PROVE  i = j
      <3>1. waiting[i + 1] = waiting[j + 1] /\ i \in Nat /\ j \in Nat
        BY <1>1, <1>2, <2>2
      <3>2. i + 1 = j + 1
        BY <1>2, <1>6, <3>1
      <3>3. QED
        BY <3>1, <3>2
    <2>3. QED
      BY <2>1, <2>2 DEF Waits
  <1>7. QED
    BY <1>1, <1>4, <1>5, <1>6

LEMMA OneServerStep == Shape /\ OneServer /\ [Next]_vars => OneServer'
  <1> SUFFICES ASSUME Shape, OneServer, [Next]_vars PROVE OneServer'
    OBVIOUS
  <1>0. /\ waiting \in Seq(Clients)
        /\ pc \in [Consumers -> {"idle", "read", "lock", "seek", "access", "unlock",
                                 "write", "close"}]
        /\ serving \in [Consumers -> Clients \cup {None}]
        /\ clientPc \in [Clients -> {"start", "send", "await", "end", "close", "gone"}]
    BY DEF Shape, ClientTypes, WireTypes, ConsumerTypes
  <1>1. ASSUME NEW c \in Clients, Connect(c)
        PROVE  OneServer'
    <2>1. /\ waiting' = Append(waiting, c) /\ clientPc[c] = "start"
          /\ pc' = pc /\ serving' = serving
          /\ clientPc'[c] # "start"
          /\ \A d \in Clients \ {c} : clientPc'[d] = clientPc[d]
      BY <1>0, <1>1 DEF Connect
    <2>2. ~Waits(c) /\ \A w \in Consumers : serving[w] # c
      BY <2>1 DEF OneServer
    <2>3. /\ \A d \in Clients : Waits(d)' => Waits(d) \/ d = c
          /\ \A i, j \in 1 .. Len(waiting') : waiting'[i] = waiting'[j] => i = j
      BY <1>0, <2>1, <2>2, JoinsLine DEF OneServer
    <2>4. \A w \in Consumers : serving[w] # None => serving[w] \in Clients
      BY <1>0
    <2>5. \A w \in Consumers : serving'[w] # None => ~Waits(serving[w])'
      BY <2>1, <2>2, <2>3, <2>4 DEF OneServer
    <2>6. \A d \in Clients : clientPc'[d] = "start" =>
             ~Waits(d)' /\ \A w \in Consumers : serving'[w] # d
      BY <2>1, <2>2, <2>3 DEF OneServer
    <2>7. \A v \in Consumers : pc'[v] = "idle" <=> serving'[v] = None
      BY <2>1 DEF OneServer
    <2>8. \A u, v \in Consumers : serving'[u] = serving'[v] /\ serving'[u] # None => u = v
      BY <2>1 DEF OneServer
    <2>9. QED
      BY <2>3, <2>5, <2>6, <2>7, <2>8 DEF OneServer
  <1>2. ASSUME NEW c \in Clients,
               SendRequest(c) \/ Receive(c) \/ SendEnd(c) \/ Hangup(c) \/ ResetArrives(c)
        PROVE  OneServer'
    <2>1. /\ waiting' = waiting /\ pc' = pc /\ serving' = serving
          /\ \A d \in Clients : clientPc'[d] = "start" => clientPc[d] = "start"
      BY <1>0, <1>2 DEF SendRequest, Receive, NextStation, SendEnd, Hangup, ResetArrives,
                        clientVars
    <2>2. QED
      BY <2>1 DEF OneServer, Waits
  <1>3. ASSUME NEW w \in Consumers, Take(w)
        PROVE  OneServer'
    <2>0. PICK c \in Clients : c = Head(waiting)
      BY <1>0, <1>3 DEF Take
    <2>1. /\ waiting # <<>> /\ waiting' = Tail(waiting) /\ clientPc' = clientPc
          /\ pc' = [pc EXCEPT ![w] = "read"] /\ pc[w] = "idle"
          /\ serving' = [serving EXCEPT ![w] = c]
      BY <1>3, <2>0 DEF Take, At, clientVars
    <2>2. /\ Waits(c) /\ ~Waits(c)'
          /\ \A d \in Clients : Waits(d)' => Waits(d)
          /\ \A i, j \in 1 .. Len(waiting') : waiting'[i] = waiting'[j] => i = j
      BY <1>0, <2>0, <2>1, LeavesLine DEF OneServer
    <2>3. c # None
      BY SessionAssumption
    <2>4. \A v \in Consumers : serving[v] # c
      BY <2>2, <2>3 DEF OneServer
    <2>5. /\ serving'[w] = c /\ pc'[w] = "read"
          /\ \A v \in Consumers \ {w} : serving'[v] = serving[v] /\ pc'[v] = pc[v]
      BY <1>0, <2>1
    <2>6. \A v \in Consumers : serving[v] # None => serving[v] \in Clients
      BY <1>0
    <2>7. \A v \in Consumers : pc'[v] = "idle" <=> serving'[v] = None
      BY <2>3, <2>5 DEF OneServer
    <2>8. \A v \in Consumers : serving'[v] # None => ~Waits(serving[v])'
      BY <2>2, <2>5, <2>6 DEF OneServer
    <2>9. \A u, v \in Consumers : serving'[u] = serving'[v] /\ serving'[u] # None => u = v
      BY <2>4, <2>5 DEF OneServer
    <2>10. \A d \in Clients : clientPc'[d] = "start" =>
              ~Waits(d)' /\ \A v \in Consumers : serving'[v] # d
      <3>1. \A d \in Clients : clientPc[d] = "start" => d # c
        BY <2>2 DEF OneServer
      <3>2. QED
        BY <2>1, <2>2, <2>5, <3>1 DEF OneServer
    <2>11. QED
      BY <2>2, <2>7, <2>8, <2>9, <2>10 DEF OneServer
  <1>4. ASSUME NEW w \in Consumers,
               Read(w) \/ LockDb(w) \/ Seek(w) \/ Get(w) \/ Put(w) \/ UnlockDb(w) \/ Write(w)
        PROVE  OneServer'
    <2>1. /\ waiting' = waiting /\ serving' = serving /\ clientPc' = clientPc
          /\ pc[w] # "idle" /\ pc'[w] # "idle"
          /\ \A v \in Consumers \ {w} : pc'[v] = pc[v]
      BY <1>0, <1>4 DEF Read, Handle, LockDb, Seek, Get, Put, UnlockDb, Write, At,
                        clientVars
    <2>2. QED
      BY <2>1 DEF OneServer, Waits
  <1>5. ASSUME NEW w \in Consumers, CloseSession(w)
        PROVE  OneServer'
    <2>1. /\ waiting' = waiting /\ clientPc' = clientPc
          /\ serving'[w] = None /\ pc'[w] = "idle"
          /\ \A v \in Consumers \ {w} : serving'[v] = serving[v] /\ pc'[v] = pc[v]
      BY <1>0, <1>5 DEF CloseSession, At, clientVars
    <2>2. \A d \in Clients : d # None
      BY SessionAssumption
    <2>3. QED
      BY <2>1, <2>2 DEF OneServer, Waits
  <1>6. CASE UNCHANGED vars
    BY <1>6 DEF vars, clientVars, OneServer, Waits
  <1>7. QED
    BY <1>1, <1>2, <1>3, <1>4, <1>5, <1>6 DEF Next, ClientStep, Close, Die, ConsumerStep
-----------------------------------------------------------------------------
(* The file has one consumer.                                              *)

LEMMA FileIsMineStep == Shape /\ FileIsMine /\ [Next]_vars => FileIsMine'
  <1> SUFFICES ASSUME Shape, FileIsMine, [Next]_vars PROVE FileIsMine'
    OBVIOUS
  <1>0. /\ pc \in [Consumers -> {"idle", "read", "lock", "seek", "access", "unlock",
                                 "write", "close"}]
        /\ request \in [Consumers -> Requests]
    BY DEF Shape, ConsumerTypes
  <1> USE DEF FileIsMine
  <1>1. ASSUME NEW c \in Clients, ClientStep(c) \/ Die(c) \/ ResetArrives(c)
        PROVE  FileIsMine'
    BY <1>1, Frames DEF dbVars
  <1>2. ASSUME NEW w \in Consumers, Take(w) \/ Read(w) \/ Write(w) \/ CloseSession(w)
        PROVE  FileIsMine'
    <2>1. /\ db_access_mutex' = db_access_mutex /\ filePosition' = filePosition
          /\ pc[w] \in {"idle", "read", "write", "close"}
          /\ pc'[w] \in {"read", "lock", "write", "close", "idle"}
          /\ \A v \in Consumers \ {w} : pc'[v] = pc[v] /\ request'[v] = request[v]
      BY <1>0, <1>2 DEF Take, Read, Handle, Write, CloseSession, At, dbVars
    <2>2. QED
      BY <2>1
  <1>3. ASSUME NEW w \in Consumers, LockDb(w)
        PROVE  FileIsMine'
    <2>1. /\ db_access_mutex = None /\ db_access_mutex' = w /\ filePosition' = filePosition
          /\ pc'[w] = "seek" /\ request' = request
          /\ \A v \in Consumers \ {w} : pc'[v] = pc[v]
      BY <1>0, <1>3 DEF LockDb, At
    <2>2. \A v \in Consumers : v # None
      BY SessionAssumption
    <2>3. QED
      BY <2>1, <2>2
  <1>4. ASSUME NEW w \in Consumers, Seek(w)
        PROVE  FileIsMine'
    <2>1. /\ db_access_mutex' = db_access_mutex /\ filePosition' = request[w].key
          /\ pc[w] = "seek" /\ pc'[w] = "access" /\ request' = request
          /\ \A v \in Consumers \ {w} : pc'[v] = pc[v]
      BY <1>0, <1>4 DEF Seek, At
    <2>2. QED
      BY <2>1
  <1>5. ASSUME NEW w \in Consumers, Get(w) \/ Put(w)
        PROVE  FileIsMine'
    <2>1. /\ db_access_mutex' = db_access_mutex /\ filePosition' = filePosition
          /\ pc[w] = "access" /\ pc'[w] = "unlock"
          /\ \A v \in Consumers \ {w} : pc'[v] = pc[v] /\ request'[v] = request[v]
      BY <1>0, <1>5 DEF Get, Put, At, dbVars
    <2>2. QED
      BY <2>1
  <1>6. ASSUME NEW w \in Consumers, UnlockDb(w)
        PROVE  FileIsMine'
    <2>1. /\ db_access_mutex' = None /\ filePosition' = filePosition
          /\ pc[w] = "unlock" /\ pc'[w] = "write" /\ request' = request
          /\ \A v \in Consumers \ {w} : pc'[v] = pc[v]
      BY <1>0, <1>6 DEF UnlockDb, At
    <2>2. \A v \in Consumers : v # None
      BY SessionAssumption
    <2>3. QED
      BY <2>1, <2>2
  <1>7. CASE UNCHANGED vars
    BY <1>7 DEF vars, dbVars
  <1>8. QED
    BY <1>1, <1>2, <1>3, <1>4, <1>5, <1>6, <1>7 DEF Next, ConsumerStep
-----------------------------------------------------------------------------
(* One question at a time.                                                 *)

\* Nothing that concerns c happens.
Still(c) ==
    /\ clientPc'[c] = clientPc[c] /\ mode'[c] = mode[c] /\ station'[c] = station[c]
    /\ socket'[c] = socket[c] /\ toServer'[c] = toServer[c] /\ toClient'[c] = toClient[c]
    /\ \A w \in Consumers : serving'[w] = c <=> serving[w] = c
    /\ \A w \in Consumers : serving[w] = c => pc'[w] = pc[w] /\ request'[w] = request[w]

\* What a session may ask and be told depends on its mode and station only.
LEMMA SameQuestions ==
    ASSUME NEW c \in Clients, mode'[c] = mode[c], station'[c] = station[c]
    PROVE  /\ KeysOf(c)' = KeysOf(c)
           /\ RequestsOf(c)' = RequestsOf(c)
           /\ AnswersTo(c)' = AnswersTo(c)
  <1>1. KeysOf(c)' = KeysOf(c)
    BY DEF KeysOf
  <1>2. RequestsOf(c)' = RequestsOf(c)
    <2> DEFINE Ask(m, keys) ==
           CASE m \in {"AUTO_PUT_REQUEST", "manyPuts", "MANUAL_PUT"} ->
                   {Request("PUT", k, v) : k \in keys, v \in Readings}
             [] m \in {"AUTO_GET_REQUEST", "manyGets", "MANUAL_GET"} ->
                   {Request("GET", k, "") : k \in keys}
             [] m = "FOREIGN" -> {Zeroed("PUT_OK")}
    <2>1. RequestsOf(c) = Ask(mode[c], KeysOf(c))
      BY DEF RequestsOf
    <2>2. RequestsOf(c)' = Ask(mode'[c], KeysOf(c)')
      BY DEF RequestsOf
    <2> HIDE DEF Ask
    <2>3. QED
      BY <1>1, <2>1, <2>2
  <1>3. AnswersTo(c)' = AnswersTo(c)
    BY <1>1, Zenon DEF AnswersTo
  <1>4. QED
    BY <1>1, <1>2, <1>3

LEMMA TurnFrame ==
    ASSUME NEW c \in Clients, Turn(c), Still(c)
    PROVE  Turn(c)'
  <1>1. RequestsOf(c)' = RequestsOf(c) /\ AnswersTo(c)' = AnswersTo(c)
    BY SameQuestions DEF Still
  <1>2. ASSUME NEW places, Served(c, places)
        PROVE  \A w \in Consumers : serving'[w] = c => pc'[w] \in places
    BY <1>2 DEF Served, Still
  <1>3. /\ Served(c, {"read"}) => Served(c, {"read"})'
        /\ Served(c, {"read", "close"}) => Served(c, {"read", "close"})'
    BY <1>2 DEF Served
  <1>4. Asked(c) => Asked(c)'
    BY <1>1, <1>3 DEF Asked, Still
  <1>5. AtWork(c) => AtWork(c)'
    BY <1>1 DEF AtWork, Still
  <1>6. Answering(c) => Answering(c)'
    BY <1>1 DEF Answering, Still
  <1>7. Told(c) => Told(c)'
    BY <1>1, <1>3 DEF Told, Still
  <1>8. Unread(c) => Unread(c)'
    BY <1>3 DEF Unread, Still
  <1>9. QED
    BY <1>3, <1>4, <1>5, <1>6, <1>7, <1>8 DEF Turn, Still

\* What is on the wire while c waits.
LEMMA WhileWaiting ==
    ASSUME NEW c \in Clients, Shape, Turn(c), clientPc[c] = "await"
    PROVE  /\ socket[c] = "open"
           /\ \/ Asked(c) /\ toClient[c] = <<>> /\ \E r \in Requests : toServer[c] = <<r>>
              \/ (AtWork(c) \/ Answering(c)) /\ toServer[c] = <<>> /\ toClient[c] = <<>>
              \/ Told(c) /\ toServer[c] = <<>> /\ \E r \in Requests : toClient[c] = <<r>>
  <1>1. /\ station[c] \in Stations
        /\ mode[c] \in PutModes \cup GetModes \cup {"FOREIGN"}
    BY DEF Shape, ClientTypes
  <1>2. \A r \in RequestsOf(c) : r \in Requests
    BY <1>1, Asking
  <1>3. \A r \in AnswersTo(c) : r \in Requests
    BY DEF AnswersTo
  <1>4. Asked(c) => toClient[c] = <<>> /\ \E r \in Requests : toServer[c] = <<r>>
    BY <1>2 DEF Asked
  <1>5. Told(c) => toServer[c] = <<>> /\ \E r \in Requests : toClient[c] = <<r>>
    BY <1>3 DEF Told
  <1>6. AtWork(c) \/ Answering(c) => toServer[c] = <<>> /\ toClient[c] = <<>>
    BY DEF AtWork, Answering
  <1>7. QED
    BY <1>4, <1>5, <1>6 DEF Turn

\* Whose turn it is when consumer w serves c.
LEMMA WhoseTurn ==
    ASSUME NEW w \in Consumers, NEW c \in Clients, serving[w] = c,
           Shape, OneServer, Turn(c)
    PROVE  /\ clientPc[c] # "start"
           /\ pc[w] = "read" /\ clientPc[c] = "await" => Asked(c) \/ Told(c)
           /\ pc[w] \in {"lock", "seek", "access"} =>
                 /\ toServer[c] = <<>>
                 /\ clientPc[c] \in {"await", "gone"}
                 /\ clientPc[c] = "await" => AtWork(c) /\ request[w] \in RequestsOf(c)
           /\ pc[w] \in {"unlock", "write"} =>
                 /\ toServer[c] = <<>>
                 /\ clientPc[c] \in {"await", "gone"}
                 /\ clientPc[c] = "await" => Answering(c) /\ request[w] \in AnswersTo(c)
           /\ pc[w] = "close" => toServer[c] = <<>> /\ clientPc[c] \in {"close", "gone"}
  <1>1. \A v \in Consumers : serving[v] = c => v = w
    <2>1. c # None
      BY SessionAssumption
    <2>2. QED
      BY <2>1 DEF OneServer
  <1>2. clientPc[c] # "start"
    BY DEF OneServer
  <1>3. \A places : Served(c, places) => pc[w] \in places
    BY DEF Served
  <1>4. clientPc[c] \in {"send", "await", "end", "close", "gone"}
    BY <1>2 DEF Shape, ClientTypes
  <1>5. /\ Asked(c) => pc[w] = "read"
        /\ AtWork(c) => /\ pc[w] \in {"lock", "seek", "access"}
                        /\ request[w] \in RequestsOf(c) /\ toServer[c] = <<>>
        /\ Answering(c) => /\ pc[w] \in {"unlock", "write"}
                           /\ request[w] \in AnswersTo(c) /\ toServer[c] = <<>>
        /\ Told(c) => pc[w] = "read"
    BY <1>1, <1>3 DEF Asked, AtWork, Answering, Told
  <1>6. Unread(c) => toServer[c] = <<>> \/ pc[w] = "read"
    BY <1>3 DEF Unread
  <1>7. /\ clientPc[c] \in {"send", "end"} => pc[w] = "read"
        /\ clientPc[c] = "await" => Asked(c) \/ AtWork(c) \/ Answering(c) \/ Told(c)
        /\ clientPc[c] = "close" => /\ pc[w] \in {"read", "close"}
                                    /\ toServer[c] = <<>> \/ pc[w] = "read"
        /\ clientPc[c] = "gone" => Unread(c)
    BY <1>3 DEF Turn
  <1>8. QED
    BY <1>2, <1>4, <1>5, <1>6, <1>7
\* A client's step concerns no other client.
LEMMA OtherClients ==
    ASSUME NEW c \in Clients, Shape, NEW d \in Clients \ {c},
           \/ Connect(c) \/ SendRequest(c) \/ Receive(c) \/ SendEnd(c) \/ Hangup(c)
           \/ ResetArrives(c)
    PROVE  Still(d)
  <1>1. UNCHANGED <<pc, serving, request>>
    BY Frames DEF Connect, SendRequest, Receive, SendEnd, Hangup, ResetArrives
  <1>2. /\ clientPc'[d] = clientPc[d] /\ mode'[d] = mode[d] /\ station'[d] = station[d]
        /\ socket'[d] = socket[d] /\ toServer'[d] = toServer[d] /\ toClient'[d] = toClient[d]
    <2> USE DEF Shape, ClientTypes, WireTypes
    <2>1. CASE Connect(c)
      BY <2>1 DEF Connect
    <2>2. CASE SendRequest(c)
      BY <2>2 DEF SendRequest
    <2>3. CASE Receive(c)
      BY <2>3 DEF Receive, NextStation
    <2>4. CASE SendEnd(c)
      BY <2>4 DEF SendEnd
    <2>5. CASE Hangup(c)
      BY <2>5 DEF Hangup
    <2>6. CASE ResetArrives(c)
      BY <2>6 DEF ResetArrives, clientVars
    <2>7. QED
      BY <2>1, <2>2, <2>3, <2>4, <2>5, <2>6
  <1>3. QED
    BY <1>1, <1>2 DEF Still

LEMMA ClientTurns ==
    ASSUME NEW c \in Clients, Shape, OneServer, Turn(c),
           \/ Connect(c) \/ SendRequest(c) \/ Receive(c) \/ SendEnd(c)
           \/ Close(c) \/ Die(c) \/ ResetArrives(c)
    PROVE  Turn(c)'
  <1>0. /\ mode \in [Clients -> Modes \cup {None}]
        /\ station \in [Clients -> Stations]
        /\ clientPc \in [Clients -> {"start", "send", "await", "end", "close", "gone"}]
        /\ socket \in [Clients -> {"none", "open", "closed", "reset", "done"}]
        /\ toServer \in [Clients -> Seq(Requests)]
        /\ toClient \in [Clients -> Seq(Requests)]
    BY DEF Shape, ClientTypes, WireTypes
  <1>a. /\ pc' = pc /\ serving' = serving /\ request' = request
    BY DEF Connect, SendRequest, Receive, SendEnd, Close, Die, Hangup, ResetArrives
  <1>b. \A places : Served(c, places)' <=> Served(c, places)
    BY <1>a DEF Served
  <1>1. CASE Connect(c)
    <2>1. /\ clientPc[c] = "start" /\ socket'[c] = "open"
          /\ toServer' = toServer /\ toClient' = toClient
          /\ clientPc'[c] \in {"send", "end", "close"}
      BY <1>0, <1>1 DEF Connect
    <2>2. toServer[c] = <<>> /\ toClient[c] = <<>>
      BY <2>1 DEF Turn
    <2>3. \A places : Served(c, places)
      BY <2>1 DEF OneServer, Served
    <2>4. QED
      BY <1>b, <2>1, <2>2, <2>3 DEF Turn
  <1>2. CASE SendRequest(c)
    <2>1. PICK r \in RequestsOf(c) : toServer' = [toServer EXCEPT ![c] = Append(@, r)]
      BY <1>2 DEF SendRequest
    <2>2. /\ clientPc[c] = "send" /\ clientPc'[c] = "await" /\ socket' = socket
          /\ toClient' = toClient /\ mode' = mode /\ station' = station
      BY <1>0, <1>2 DEF SendRequest
    <2>3. /\ socket[c] = "open" /\ toServer[c] = <<>> /\ toClient[c] = <<>>
          /\ Served(c, {"read"})
      BY <2>2 DEF Turn
    <2>4. toServer'[c] = <<r>>
      BY <1>0, <2>1, <2>3
    <2>5. RequestsOf(c)' = RequestsOf(c)
      BY <2>2, SameQuestions
    <2>6. Asked(c)'
      BY <1>b, <2>2, <2>3, <2>4, <2>5 DEF Asked
    <2>7. QED
      BY <2>2, <2>3, <2>6 DEF Turn
  <1>3. CASE Receive(c)
    <2>1. /\ clientPc[c] = "await" /\ toClient[c] # <<>> /\ socket' = socket
          /\ toServer' = toServer /\ toClient' = [toClient EXCEPT ![c] = Tail(@)]
      BY <1>3 DEF Receive
    <2>2. clientPc'[c] \in {"send", "end"}
      BY <1>0, <1>3 DEF Receive, NextStation
    <2>3. /\ socket[c] = "open" /\ toServer[c] = <<>>
          /\ \E r \in Requests : toClient[c] = <<r>>
          /\ Served(c, {"read"})
      BY <2>1, WhileWaiting DEF Told
    <2>4. toClient'[c] = <<>>
      BY <1>0, <2>1, <2>3
    <2>5. QED
      BY <1>b, <2>1, <2>2, <2>3, <2>4 DEF Turn
  <1>4. CASE SendEnd(c)
    <2>1. /\ clientPc[c] = "end" /\ clientPc'[c] = "close"
          /\ socket' = socket /\ toClient' = toClient
          /\ toServer' = [toServer EXCEPT ![c] = Append(@, Zeroed("END"))]
      BY <1>0, <1>4 DEF SendEnd
    <2>2. /\ socket[c] = "open" /\ toServer[c] = <<>> /\ toClient[c] = <<>>
          /\ Served(c, {"read"})
      BY <2>1 DEF Turn
    <2>3. toServer'[c] = <<Zeroed("END")>>
      BY <1>0, <2>1, <2>2
    <2>4. Zeroed("END")' = Zeroed("END")
      BY DEF Zeroed, Request, EmptyKey
    <2>5. QED
      BY <1>b, <2>1, <2>2, <2>3, <2>4 DEF Turn
  <1>5. CASE Close(c) \/ Die(c)
    <2>1. /\ clientPc[c] \in {"send", "await", "end", "close"}
          /\ clientPc'[c] = "gone"
          /\ toServer' = toServer /\ toClient' = toClient
          /\ socket'[c] \in {"closed", "reset", "done"}
      BY <1>0, <1>5 DEF Close, Die, Hangup
    <2>2. Len(toClient[c]) <= MaxStray /\ Unread(c)
      <3>1. MaxStray \in Nat \ {0}
        BY SessionAssumption
      <3>2. CASE clientPc[c] \in {"send", "end"}
        BY <3>1, <3>2, OneMessage DEF Turn, Unread
      <3>3. CASE clientPc[c] = "await"
        <4>1. ASSUME NEW r \in Requests, toClient[c] = <<r>>
              PROVE  Len(toClient[c]) <= MaxStray
          BY <3>1, <4>1
        <4>2. ASSUME toClient[c] = <<>>
              PROVE  Len(toClient[c]) <= MaxStray
          BY <3>1, <4>2
        <4>3. QED
          BY <3>3, <4>1, <4>2, WhileWaiting DEF Asked, Unread
      <3>4. CASE clientPc[c] = "close"
        <4>1. Zeroed("END") \in Requests
          BY ZeroedType DEF Operations
        <4>2. toClient[c] = <<>> /\ Unread(c)
          BY <3>4, <4>1 DEF Turn, Unread
        <4>3. QED
          BY <3>1, <4>2
      <3>5. QED
        BY <2>1, <3>2, <3>3, <3>4
    <2>3. Unread(c)'
      BY <1>b, <2>1, <2>2 DEF Unread
    <2>4. QED
      BY <2>1, <2>2, <2>3 DEF Turn
  <1>6. CASE ResetArrives(c)
    <2>1. /\ socket[c] = "closed" /\ socket'[c] = "reset"
          /\ clientPc' = clientPc /\ toServer' = toServer /\ toClient' = toClient
      BY <1>0, <1>6 DEF ResetArrives, clientVars
    <2>2. clientPc[c] = "gone"
      BY <1>0, <2>1 DEF Turn
    <2>3. Len(toClient[c]) <= MaxStray /\ Unread(c)
      BY <2>2 DEF Turn
    <2>4. Unread(c)'
      BY <1>b, <2>1, <2>3 DEF Unread
    <2>5. QED
      BY <2>1, <2>2, <2>3, <2>4 DEF Turn
  <1>7. QED
    BY <1>1, <1>2, <1>3, <1>4, <1>5, <1>6

\* A consumer's step concerns no client it does not serve.
LEMMA OthersServed ==
    ASSUME NEW w \in Consumers, Shape, NEW d \in Clients, serving[w] # d,
           \/ Read(w) \/ LockDb(w) \/ Seek(w) \/ Get(w) \/ Put(w) \/ UnlockDb(w)
           \/ Write(w) \/ CloseSession(w) \/ (Take(w) /\ d # Head(waiting))
    PROVE  Still(d)
  <1>0. /\ socket \in [Clients -> {"none", "open", "closed", "reset", "done"}]
        /\ toServer \in [Clients -> Seq(Requests)]
        /\ toClient \in [Clients -> Seq(Requests)]
        /\ pc \in [Consumers -> {"idle", "read", "lock", "seek", "access", "unlock",
                                 "write", "close"}]
        /\ serving \in [Consumers -> Clients \cup {None}]
        /\ request \in [Consumers -> Requests]
        /\ d # None
    BY SessionAssumption DEF Shape, WireTypes, ConsumerTypes
  <1>1. UNCHANGED clientVars
    BY Frames DEF ConsumerStep
  <1>2. /\ socket'[d] = socket[d] /\ toServer'[d] = toServer[d] /\ toClient'[d] = toClient[d]
    BY <1>0 DEF Read, LockDb, Seek, Get, Put, UnlockDb, Write, CloseSession, Take, wireVars
  <1>3. \A v \in Consumers \ {w} : serving'[v] = serving[v] /\ pc'[v] = pc[v]
                                   /\ request'[v] = request[v]
    BY <1>0 DEF Read, Handle, LockDb, Seek, Get, Put, UnlockDb, Write, CloseSession, Take, At
  <1>4. serving'[w] # d
    BY <1>0 DEF Read, LockDb, Seek, Get, Put, UnlockDb, Write, CloseSession, Take
  <1>5. QED
    BY <1>1, <1>2, <1>3, <1>4 DEF Still, clientVars

\* An access to the file answers the request it was made for.
LEMMA Answers ==
    ASSUME NEW w \in Consumers, NEW c \in Clients, Shape,
           clientPc[c] = "await", request[w] \in RequestsOf(c), Get(w) \/ Put(w)
    PROVE  request'[w] \in AnswersTo(c)
  <1>0. /\ station[c] \in Stations
        /\ mode[c] \in PutModes \cup GetModes \cup {"FOREIGN"}
        /\ request \in [Consumers -> Requests]
        /\ request[w].key \in Keys /\ request[w].value \in Values
    BY DEF Shape, ClientTypes, ConsumerTypes, Requests
  <1>1. \/ /\ mode[c] \in PutModes /\ mode[c] \notin GetModes \cup {"FOREIGN"}
           /\ request[w].operation = "PUT" /\ request[w].key \in KeysOf(c)
        \/ /\ mode[c] \in GetModes /\ mode[c] \notin PutModes \cup {"FOREIGN"}
           /\ request[w].operation = "GET" /\ request[w].key \in KeysOf(c)
        \/ request[w].operation = "PUT_OK"
    BY <1>0, Asking
  <1>2. CASE Get(w)
    <2>1. /\ mode[c] \in GetModes /\ mode[c] \notin PutModes \cup {"FOREIGN"}
          /\ request[w].key \in KeysOf(c)
      BY <1>1, <1>2 DEF Get
    <2>2. CASE request'[w] = Request("GET_OK", request[w].key, db[filePosition])
                 /\ db[filePosition] # None
      <3>1. db[filePosition] \in Values
        BY <2>2 DEF Shape, FileTypes
      <3>2. QED
        BY <1>0, <2>1, <2>2, <3>1 DEF AnswersTo, Request, Requests, Operations
    <2>3. CASE request'[w] = Zeroed("GET_ERROR")
      <3>1. Zeroed("GET_ERROR") \in Requests /\ Zeroed("GET_ERROR").operation = "GET_ERROR"
        BY ZeroedType DEF Operations
      <3>2. QED
        BY <2>1, <2>3, <3>1 DEF AnswersTo
    <2>4. QED
      BY <1>0, <1>2, <2>2, <2>3 DEF Get
  <1>3. CASE Put(w)
    <2>1. /\ mode[c] \in PutModes /\ mode[c] \notin GetModes \cup {"FOREIGN"}
          /\ request[w].key \in KeysOf(c)
      BY <1>1, <1>3 DEF Put
    <2>2. CASE request'[w] = [request[w] EXCEPT !.operation = "PUT_OK"]
      <3>1. request'[w] \in Requests /\ request'[w].operation = "PUT_OK"
            /\ request'[w].key = request[w].key
        BY <1>0, <2>2 DEF Requests, Operations
      <3>2. QED
        BY <2>1, <3>1 DEF AnswersTo
    <2>3. CASE request'[w] = Zeroed("PUT_ERROR")
      <3>1. Zeroed("PUT_ERROR") \in Requests /\ Zeroed("PUT_ERROR").operation = "PUT_ERROR"
        BY ZeroedType DEF Operations
      <3>2. QED
        BY <2>1, <2>3, <3>1 DEF AnswersTo
    <2>4. QED
      BY <1>0, <1>3, <2>2, <2>3 DEF Put
  <1>4. QED
    BY <1>2, <1>3

LEMMA ConsumerTurns ==
    ASSUME NEW w \in Consumers, NEW c \in Clients, Shape, OneServer, Turn(c),
           \/ /\ serving[w] = c
              /\ \/ Read(w) \/ LockDb(w) \/ Seek(w) \/ Get(w) \/ Put(w) \/ UnlockDb(w)
                 \/ Write(w) \/ CloseSession(w)
           \/ Take(w) /\ c = Head(waiting)
    PROVE  Turn(c)'
  <1>0. /\ clientPc \in [Clients -> {"start", "send", "await", "end", "close", "gone"}]
        /\ socket \in [Clients -> {"none", "open", "closed", "reset", "done"}]
        /\ toServer \in [Clients -> Seq(Requests)]
        /\ toClient \in [Clients -> Seq(Requests)]
        /\ pc \in [Consumers -> {"idle", "read", "lock", "seek", "access", "unlock",
                                 "write", "close"}]
        /\ serving \in [Consumers -> Clients \cup {None}]
        /\ request \in [Consumers -> Requests]
        /\ c # None
    BY SessionAssumption DEF Shape, ClientTypes, WireTypes, ConsumerTypes
  <1>a. /\ mode' = mode /\ station' = station /\ clientPc' = clientPc
    BY Frames DEF ConsumerStep, clientVars
  <1>b. RequestsOf(c)' = RequestsOf(c) /\ AnswersTo(c)' = AnswersTo(c)
    BY <1>a, SameQuestions
  <1>c. serving[w] = c => \A v \in Consumers : serving[v] = c => v = w
    BY <1>0 DEF OneServer
  <1>d. ASSUME serving' = serving, serving[w] = c, NEW places, pc'[w] \in places
        PROVE  Served(c, places)'
    <2>1. \A v \in Consumers : serving'[v] = c => pc'[v] \in places
      BY <1>c, <1>d
    <2>2. QED
      BY <2>1 DEF Served
  <1>1. CASE Take(w) /\ c = Head(waiting)
    <2>1. /\ socket' = socket /\ toServer' = toServer /\ toClient' = toClient
          /\ serving' = [serving EXCEPT ![w] = c] /\ pc' = [pc EXCEPT ![w] = "read"]
          /\ waiting # <<>>
      BY <1>1 DEF Take, At, wireVars
    <2>2. \A v \in Consumers : serving[v] # c
      <3>1. Waits(c)
        BY <1>1, <2>1 DEF Shape, WireTypes, Waits
      <3>2. QED
        BY <1>0, <3>1 DEF OneServer
    <2>3. \A v \in Consumers : serving'[v] = c => pc'[v] = "read"
      BY <1>0, <2>1, <2>2
    <2>4. Served(c, {"read"})' /\ Served(c, {"read", "close"})'
      BY <2>3 DEF Served
    <2>5. ~AtWork(c) /\ ~Answering(c)
      BY <2>2 DEF AtWork, Answering
    <2>6. (Asked(c) => Asked(c)') /\ (Told(c) => Told(c)')
      BY <1>b, <2>1, <2>4 DEF Asked, Told
    <2>7. Unread(c) => Unread(c)'
      BY <2>1, <2>4 DEF Unread
    <2>8. QED
      BY <1>a, <2>1, <2>4, <2>5, <2>6, <2>7 DEF Turn
  <1>2. CASE serving[w] = c /\ Read(w)
    <2>1. /\ pc[w] = "read" /\ serving' = serving /\ socket' = socket /\ toClient' = toClient
      BY <1>2 DEF Read
    <2>2. CASE toServer[c] = <<>>
      <3>1. toServer'[c] = <<>>
        BY <1>2, <2>2 DEF Read
      <3>2. socket[c] \in {"closed", "reset"}
        BY <1>2, <2>2 DEF Read
      <3>3. clientPc[c] = "gone"
        BY <1>0, <3>2 DEF Turn
      <3>4. QED
        BY <1>a, <2>1, <3>1, <3>2, <3>3 DEF Turn, Unread
    <2>3. CASE toServer[c] # <<>>
      <3>1. /\ Handle(w, Head(toServer[c]))
            /\ toServer' = [toServer EXCEPT ![c] = Tail(@)]
        BY <1>2, <2>3 DEF Read
      <3>2. Head(toServer[c]) \in Requests
        BY <1>0, <2>3
      <3>3. /\ pc' \in [Consumers -> {"idle", "read", "lock", "seek", "access",
                                      "unlock", "write", "close"}]
            /\ \/ /\ pc'[w] = "lock" /\ request'[w] = Head(toServer[c])
               \/ /\ pc'[w] = "close" /\ Head(toServer[c]).operation = "END"
               \/ /\ pc'[w] = "write" /\ request'[w] = Zeroed("__UNKNOWN_OPERATION")
                  /\ Head(toServer[c]).operation \notin {"PUT", "GET", "END"}
        BY <3>1, <3>2, Handling DEF Shape
      <3>4. CASE clientPc[c] = "await"
        <4>1. /\ socket[c] = "open" /\ toClient[c] = <<>>
              /\ \E r \in RequestsOf(c) : toServer[c] = <<r>>
          BY <1>2, <2>1, <2>3, <3>4, WhoseTurn DEF Asked, Told, Turn
        <4>2. PICK r \in RequestsOf(c) : toServer[c] = <<r>>
          BY <4>1
        <4>3. Head(toServer[c]) = r /\ toServer'[c] = <<>>
          BY <1>0, <3>1, <4>2
        <4>4. /\ station[c] \in Stations
              /\ mode[c] \in PutModes \cup GetModes \cup {"FOREIGN"}
          BY <3>4 DEF Shape, ClientTypes
        <4>5. /\ \/ r.operation \in {"PUT", "GET"}
                 \/ /\ r.operation = "PUT_OK"
                    /\ mode[c] = "FOREIGN" /\ mode[c] \notin PutModes \cup GetModes
          BY <4>4, Asking
        <4>6. CASE pc'[w] = "lock" /\ request'[w] = r
          <5>1. AtWork(c)'
            BY <1>2, <1>b, <2>1, <4>1, <4>3, <4>6 DEF AtWork
          <5>2. QED
            BY <1>a, <2>1, <3>4, <4>1, <5>1 DEF Turn
        <4>7. CASE /\ pc'[w] = "write" /\ request'[w] = Zeroed("__UNKNOWN_OPERATION")
                   /\ r.operation \notin {"PUT", "GET", "END"}
          <5>1. mode[c] = "FOREIGN" /\ mode[c] \notin PutModes \cup GetModes
            BY <4>5, <4>7
          <5>2. /\ Zeroed("__UNKNOWN_OPERATION") \in Requests
                /\ Zeroed("__UNKNOWN_OPERATION").operation = "__UNKNOWN_OPERATION"
            BY ZeroedType DEF Operations
          <5>3. request'[w] \in AnswersTo(c)
            BY <4>7, <5>1, <5>2 DEF AnswersTo
          <5>4. Answering(c)'
            BY <1>2, <1>b, <2>1, <4>1, <4>3, <4>7, <5>3 DEF Answering
          <5>5. QED
            BY <1>a, <2>1, <3>4, <4>1, <5>4 DEF Turn
        <4>8. QED
          BY <3>3, <4>3, <4>5, <4>6, <4>7
      <3>5. CASE clientPc[c] = "close"
        <4>1. toServer[c] = <<Zeroed("END")>> /\ toClient[c] = <<>>
              /\ socket[c] \in {"open", "done"}
          BY <2>3, <3>5 DEF Turn
        <4>2. Head(toServer[c]) = Zeroed("END") /\ toServer'[c] = <<>>
          BY <1>0, <3>1, <4>1
        <4>3. Zeroed("END").operation = "END"
          BY ZeroedType DEF Operations
        <4>4. pc'[w] = "close"
          BY <1>2, <1>0, <3>1, <4>2, <4>3 DEF Handle, At
        <4>5. Served(c, {"read", "close"})'
          BY <1>2, <1>d, <2>1, <4>4
        <4>6. QED
          BY <1>a, <2>1, <3>5, <4>1, <4>2, <4>5 DEF Turn
      <3>6. CASE clientPc[c] = "gone"
        <4>1. \E r \in Requests : toServer[c] = <<r>>
          BY <2>3, <3>6 DEF Turn, Unread
        <4>2. toServer'[c] = <<>>
          BY <1>0, <3>1, <4>1
        <4>3. QED
          BY <1>a, <2>1, <3>6, <4>2 DEF Turn, Unread
      <3>7. QED
        BY <1>0, <2>3, <3>4, <3>5, <3>6 DEF Turn
    <2>4. QED
      BY <2>2, <2>3
  <1>3. CASE serving[w] = c /\ (LockDb(w) \/ Seek(w))
    <2>1. /\ pc[w] \in {"lock", "seek"} /\ pc'[w] \in {"seek", "access"}
          /\ serving' = serving /\ request' = request
          /\ socket' = socket /\ toServer' = toServer /\ toClient' = toClient
      BY <1>0, <1>3 DEF LockDb, Seek, At, wireVars
    <2>2. /\ toServer[c] = <<>> /\ clientPc[c] \in {"await", "gone"}
          /\ clientPc[c] = "await" => AtWork(c) /\ request[w] \in RequestsOf(c)
      BY <1>3, <2>1, WhoseTurn
    <2>3. clientPc[c] = "await" => AtWork(c)'
      BY <1>3, <1>b, <2>1, <2>2 DEF AtWork
    <2>4. QED
      BY <1>a, <2>1, <2>2, <2>3 DEF Turn, Unread
  <1>4. CASE serving[w] = c /\ (Get(w) \/ Put(w))
    <2>1. /\ pc[w] = "access" /\ pc'[w] = "unlock" /\ serving' = serving
          /\ socket' = socket /\ toServer' = toServer /\ toClient' = toClient
      BY <1>0, <1>4 DEF Get, Put, At, wireVars
    <2>2. /\ toServer[c] = <<>> /\ clientPc[c] \in {"await", "gone"}
          /\ clientPc[c] = "await" => AtWork(c) /\ request[w] \in RequestsOf(c)
      BY <1>4, <2>1, WhoseTurn
    <2>3. clientPc[c] = "await" => request'[w] \in AnswersTo(c)
      BY <1>4, <2>2, Answers
    <2>4. clientPc[c] = "await" => Answering(c)'
      BY <1>4, <1>b, <2>1, <2>2, <2>3 DEF Answering, AtWork
    <2>5. QED
      BY <1>a, <2>1, <2>2, <2>4 DEF Turn, Unread
  <1>5. CASE serving[w] = c /\ UnlockDb(w)
    <2>1. /\ pc[w] = "unlock" /\ pc'[w] = "write" /\ serving' = serving /\ request' = request
          /\ socket' = socket /\ toServer' = toServer /\ toClient' = toClient
      BY <1>0, <1>5 DEF UnlockDb, At, wireVars
    <2>2. /\ toServer[c] = <<>> /\ clientPc[c] \in {"await", "gone"}
          /\ clientPc[c] = "await" => Answering(c) /\ request[w] \in AnswersTo(c)
      BY <1>5, <2>1, WhoseTurn
    <2>3. clientPc[c] = "await" => Answering(c)'
      BY <1>5, <1>b, <2>1, <2>2 DEF Answering
    <2>4. QED
      BY <1>a, <2>1, <2>2, <2>3 DEF Turn, Unread
  <1>6. CASE serving[w] = c /\ Write(w)
    <2>1. /\ pc[w] = "write" /\ serving' = serving
          /\ socket' = socket /\ toServer' = toServer
      BY <1>6 DEF Write
    <2>2. /\ toServer[c] = <<>> /\ clientPc[c] \in {"await", "gone"}
          /\ clientPc[c] = "await" => Answering(c) /\ request[w] \in AnswersTo(c)
      BY <1>6, <2>1, WhoseTurn
    <2>3. CASE clientPc[c] = "await"
      <3>1. socket[c] = "open" /\ toClient[c] = <<>>
        BY <2>2, <2>3 DEF Turn, Answering
      <3>2. toClient'[c] = <<request[w]>> /\ pc'[w] = "read"
        BY <1>0, <1>6, <3>1 DEF Write, At
      <3>3. Told(c)'
        <4>1. Served(c, {"read"})'
          BY <1>6, <1>d, <2>1, <3>2
        <4>2. QED
          BY <1>b, <2>1, <2>2, <2>3, <3>2, <4>1 DEF Told
      <3>4. QED
        BY <1>a, <2>1, <2>3, <3>1, <3>3 DEF Turn
    <2>4. CASE clientPc[c] = "gone"
      <3>1. socket[c] \in {"closed", "reset", "done"} /\ Len(toClient[c]) <= MaxStray
        BY <2>4 DEF Turn
      <3>2. Len(toClient'[c]) <= MaxStray
        <4>1. CASE toClient' = toClient
          BY <3>1, <4>1
        <4>2. CASE /\ Len(toClient[c]) < MaxStray
                   /\ toClient' = [toClient EXCEPT ![c] = Append(@, request[w])]
          <5>1. Len(toClient'[c]) = Len(toClient[c]) + 1 /\ Len(toClient[c]) \in Nat
            BY <1>0, <4>2
          <5>2. MaxStray \in Nat
            BY SessionAssumption
          <5>3. QED
            BY <4>2, <5>1, <5>2
        <4>3. QED
          BY <1>6, <3>1, <4>1, <4>2 DEF Write
      <3>3. QED
        BY <1>a, <2>1, <2>2, <2>4, <3>1, <3>2 DEF Turn, Unread
    <2>5. QED
      BY <2>2, <2>3, <2>4
  <1>7. CASE serving[w] = c /\ CloseSession(w)
    <2>1. /\ pc[w] = "close" /\ serving' = [serving EXCEPT ![w] = None]
          /\ socket' = [socket EXCEPT ![c] = "done"]
          /\ toServer' = toServer /\ toClient' = toClient
      BY <1>7 DEF CloseSession, At
    <2>2. toServer[c] = <<>> /\ clientPc[c] \in {"close", "gone"}
      BY <1>7, <2>1, WhoseTurn
    <2>3. \A v \in Consumers : serving'[v] # c
      BY <1>0, <1>7, <1>c, <2>1
    <2>4. \A places : Served(c, places)'
      BY <2>3 DEF Served
    <2>5. socket'[c] = "done"
      BY <1>0, <2>1
    <2>6. QED
      BY <1>a, <2>1, <2>2, <2>4, <2>5 DEF Turn, Unread
  <1>8. QED
    BY <1>1, <1>2, <1>3, <1>4, <1>5, <1>6, <1>7

LEMMA TurnsStep == Shape /\ OneServer /\ Turns /\ [Next]_vars => Turns'
  <1> SUFFICES ASSUME Shape, OneServer, Turns, [Next]_vars, NEW d \in Clients
               PROVE  Turn(d)'
    BY DEF Turns
  <1>0. Turn(d)
    BY DEF Turns
  <1>1. ASSUME NEW c \in Clients,
               Connect(c) \/ SendRequest(c) \/ Receive(c) \/ SendEnd(c) \/ Close(c)
               \/ Die(c) \/ ResetArrives(c)
        PROVE  Turn(d)'
    <2>1. CASE d = c
      BY <1>0, <1>1, <2>1, ClientTurns
    <2>2. CASE d # c
      <3>1. Still(d)
        BY <1>1, <2>2, OtherClients DEF Close, Die
      <3>2. QED
        BY <1>0, <3>1, TurnFrame
    <2>3. QED
      BY <2>1, <2>2
  <1>2. ASSUME NEW w \in Consumers, ConsumerStep(w)
        PROVE  Turn(d)'
    <2>1. CASE serving[w] = d /\ ~Take(w)
      BY <1>0, <1>2, <2>1, ConsumerTurns DEF ConsumerStep
    <2>2. CASE Take(w) /\ d = Head(waiting)
      BY <1>0, <2>2, ConsumerTurns
    <2>3. ASSUME serving[w] # d, ~(Take(w) /\ d = Head(waiting))
          PROVE  Turn(d)'
      <3>1. Still(d)
        BY <1>2, <2>3, OthersServed DEF ConsumerStep
      <3>2. QED
        BY <1>0, <3>1, TurnFrame
    <2>4. Take(w) => serving[w] # d
      <3>1. d # None
        BY SessionAssumption
      <3>2. QED
        BY <3>1 DEF Take, At, OneServer
    <2>5. QED
      BY <2>1, <2>2, <2>3, <2>4
  <1>3. CASE UNCHANGED vars
    <2>1. Still(d)
      BY <1>3 DEF vars, clientVars, wireVars, Still
    <2>2. QED
      BY <1>0, <2>1, TurnFrame
  <1>4. QED
    BY <1>1, <1>2, <1>3 DEF Next, ClientStep

LEMMA InitIInv == Init => IInv
  <1> SUFFICES ASSUME Init PROVE IInv
    OBVIOUS
  <1>0. 0 \in Stations
    <2>1. MAX_STATION_ID \in Nat
      BY SessionAssumption
    <2>2. QED
      BY <2>1 DEF Stations
  <1> USE DEF Init
  <1>1. ClientTypes
    BY <1>0 DEF ClientTypes
  <1>2. WireTypes
    BY DEF WireTypes
  <1>3. Zeroed("PUT") \in Requests
    BY ZeroedType DEF Operations
  <1>4. ConsumerTypes
    BY <1>3 DEF ConsumerTypes
  <1>5. FileTypes
    <2>1. EmptyKey \in Keys
      BY DEF Keys
    <2>2. QED
      BY <2>1 DEF FileTypes
  <1>6. OneServer
    <2>1. \A c \in Clients : c # None
      BY SessionAssumption
    <2>2. Len(waiting) = 0
      OBVIOUS
    <2>3. QED
      BY <2>1, <2>2 DEF OneServer, Waits
  <1>7. FileIsMine
    <2>1. \A w \in Consumers : w # None
      BY SessionAssumption
    <2>2. QED
      BY <2>1 DEF FileIsMine
  <1>8. Turns
    BY DEF Turns, Turn
  <1>9. QED
    BY <1>1, <1>2, <1>4, <1>5, <1>6, <1>7, <1>8 DEF IInv, Shape

LEMMA IInvStep == IInv /\ [Next]_vars => IInv'
  BY ShapeStep, OneServerStep, FileIsMineStep, TurnsStep DEF IInv

THEOREM Invariance == Spec => []IInv
  <1>1. Init => IInv
    BY InitIInv
  <1>2. IInv /\ [Next]_vars => IInv'
    BY IInvStep
  <1>3. QED
    BY <1>1, <1>2, PTL DEF Spec
-----------------------------------------------------------------------------
(* What the runs check, for every value of the constants.                  *)

\* At most two requests are under way to a consumer, and at most one answer
\* more than a closed connection takes.
LEMMA ShortLines ==
    ASSUME IInv, NEW c \in Clients
    PROVE  Len(toServer[c]) <= 2 /\ Len(toClient[c]) <= MaxStray + 1
  <1>1. /\ MaxStray \in Nat \ {0}
        /\ clientPc[c] \in {"start", "send", "await", "end", "close", "gone"}
    BY SessionAssumption DEF IInv, Shape, ClientTypes
  <1>2. Turn(c)
    BY DEF IInv, Turns
  <1>3. Zeroed("END") \in Requests
    BY ZeroedType DEF Operations
  <1>4. toServer[c] = <<>> \/ \E r \in Requests : toServer[c] = <<r>>
    BY <1>1, <1>2, <1>3, WhileWaiting DEF Turn, Unread, IInv
  <1>5. Len(toServer[c]) <= 2
    <2>1. ASSUME NEW r \in Requests, toServer[c] = <<r>>
          PROVE  Len(toServer[c]) <= 2
      BY <2>1
    <2>2. ASSUME toServer[c] = <<>>
          PROVE  Len(toServer[c]) <= 2
      BY <2>2
    <2>3. QED
      BY <1>4, <2>1, <2>2
  <1>6. \/ toClient[c] = <<>>
        \/ \E r \in Requests : toClient[c] = <<r>>
        \/ Len(toClient[c]) <= MaxStray
    BY <1>1, <1>2, WhileWaiting DEF Turn, IInv
  <1>7. Len(toClient[c]) <= MaxStray + 1
    <2>1. ASSUME NEW r \in Requests, toClient[c] = <<r>>
          PROVE  Len(toClient[c]) <= MaxStray + 1
      BY <1>1, <2>1
    <2>2. ASSUME toClient[c] = <<>>
          PROVE  Len(toClient[c]) <= MaxStray + 1
      BY <1>1, <2>2
    <2>3. Len(toClient[c]) \in Nat
      BY DEF IInv, Shape, WireTypes
    <2>4. QED
      BY <1>1, <1>6, <2>1, <2>2, <2>3
  <1>8. QED
    BY <1>5, <1>7

\* Type correctness, for any number of sessions and consumers.
THEOREM TypeCorrect == Spec => []TypeOK
  <1>1. IInv => TypeOK
    <2> SUFFICES ASSUME IInv PROVE TypeOK
      OBVIOUS
    <2>1. \A c \in Clients : Len(toServer[c]) <= 2 /\ Len(toClient[c]) <= MaxStray + 1
      BY ShortLines
    <2>2. \A w \in Consumers : request[w].key \in Keys /\ request[w].value \in Values
      BY DEF IInv, Shape, ConsumerTypes, Requests
    <2>3. QED
      BY <2>1, <2>2 DEF IInv, Shape, ClientTypes, WireTypes, ConsumerTypes, FileTypes, TypeOK
  <1>2. QED
    BY <1>1, Invariance, PTL

\* What a client reads answers the request it sent, whoever dies and whatever
\* fails: no answer reaches another session, comes a request late or is left
\* over (server.c:105-159).
THEOREM AnswersReachTheAsker == Spec => []AnswersTheQuestion
  <1>1. IInv => AnswersTheQuestion
    <2> SUFFICES ASSUME IInv, NEW c \in Clients, Answered(c)
                 PROVE  /\ Len(toClient[c]) = 1
                        /\ toServer[c] = <<>>
                        /\ Answer(c).operation \in {"GET_OK", "PUT_OK"} => Answer(c).key \in KeysOf(c)
                        /\ Answer(c).operation \in
                              CASE mode[c] \in {"AUTO_PUT_REQUEST", "manyPuts", "MANUAL_PUT"} ->
                                      {"PUT_OK", "PUT_ERROR"}
                                [] mode[c] \in {"AUTO_GET_REQUEST", "manyGets", "MANUAL_GET"} ->
                                      {"GET_OK", "GET_ERROR"}
                                [] OTHER -> {"__UNKNOWN_OPERATION"}
      BY Zenon DEF AnswersTheQuestion
    <2>1. /\ clientPc[c] = "await" /\ toClient[c] # <<>>
          /\ Turn(c) /\ Shape
          /\ mode[c] \in PutModes \cup GetModes \cup {"FOREIGN"}
      BY DEF Answered, IInv, Turns, Shape, ClientTypes
    <2>2. Told(c) /\ toServer[c] = <<>>
      BY <2>1, WhileWaiting
    <2>3. PICK r \in AnswersTo(c) : toClient[c] = <<r>>
      BY <2>2 DEF Told
    <2>4. Len(toClient[c]) = 1 /\ Answer(c) = r
      BY <2>3 DEF Answer
    <2>5. r.operation \in {"GET_OK", "PUT_OK"} => r.key \in KeysOf(c)
      BY DEF AnswersTo
    <2>6. CASE mode[c] \in PutModes
      <3>1. r.operation \in {"PUT_OK", "PUT_ERROR"}
        BY <2>6 DEF AnswersTo
      <3>2. QED
        BY <2>2, <2>4, <2>5, <2>6, <3>1, Zenon DEF PutModes
    <2>7. CASE mode[c] \in GetModes
      <3>1. r.operation \in {"GET_OK", "GET_ERROR"}
        BY <2>7 DEF AnswersTo
      <3>2. mode[c] \notin {"AUTO_PUT_REQUEST", "manyPuts", "MANUAL_PUT"}
        BY <2>7 DEF GetModes
      <3>3. QED
        BY <2>2, <2>4, <2>5, <2>7, <3>1, <3>2, Zenon DEF GetModes
    <2>8. CASE mode[c] = "FOREIGN"
      <3>1. r.operation \in {"__UNKNOWN_OPERATION"}
        BY <2>8 DEF AnswersTo
      <3>2. /\ mode[c] \notin {"AUTO_PUT_REQUEST", "manyPuts", "MANUAL_PUT"}
            /\ mode[c] \notin {"AUTO_GET_REQUEST", "manyGets", "MANUAL_GET"}
        BY <2>8
      <3>3. QED
        BY <2>2, <2>4, <2>5, <3>1, <3>2, Zenon
    <2>9. QED
      BY <2>1, <2>6, <2>7, <2>8
  <1>2. QED
    BY <1>1, Invariance, PTL

\* KISSDB's one file position: from locking to unlocking a consumer is alone
\* with it, and reads or writes at the key it has moved to (server.c:114-140).
THEOREM OneAtTheFile ==
    Spec => [](/\ \A v, w \in Consumers :
                      pc[v] \in {"seek", "access", "unlock"} /\ pc[w] \in {"seek", "access", "unlock"}
                          => v = w
               /\ \A w \in Consumers : pc[w] = "access" => filePosition = request[w].key)
  <1>1. IInv => /\ \A v, w \in Consumers :
                       pc[v] \in {"seek", "access", "unlock"}
                       /\ pc[w] \in {"seek", "access", "unlock"} => v = w
                /\ \A w \in Consumers : pc[w] = "access" => filePosition = request[w].key
    BY DEF IInv, FileIsMine
  <1>2. QED
    BY <1>1, Invariance, PTL
-----------------------------------------------------------------------------
(* A stored reading is found, as long as every byte of a key is written.   *)

\* While c asks for a station that has a reading, that reading is in the table
\* and no failure is on its way to c.
Kept(c) ==
    clientPc[c] = "await" /\ stored[c] =>
        /\ \A k \in KeysOf(c) : db[k] # None
        /\ \A w \in Consumers : serving[w] = c /\ pc[w] \in {"unlock", "write"} =>
              request[w].operation # "GET_ERROR"
        /\ toClient[c] # <<>> => toClient[c][1].operation # "GET_ERROR"

AllKept == \A c \in Clients : Kept(c)

\* Without stray bytes a station has one key.
LEMMA OneKey ==
    ASSUME StackBytes = {0}, NEW c \in Clients, station[c] \in Stations
    PROVE  /\ KeysOf(c) \subseteq Keys
           /\ \A k \in Keys : k.station = station[c] => KeysOf(c) = {k}
  <1>1. KeysOf(c) = {[station |-> station[c], rest |-> 0]}
    <2>1. (IF mode[c] \in {"manyPuts", "manyGets"} THEN StackBytes ELSE {0}) = {0}
      OBVIOUS
    <2>2. KeysOf(c) = [station : {station[c]}, rest : {0}]
      BY <2>1 DEF KeysOf
    <2>3. [station |-> station[c], rest |-> 0] \in KeysOf(c)
      BY <2>2
    <2>4. \A k \in KeysOf(c) : k = [station |-> station[c], rest |-> 0]
      BY <2>2
    <2>5. QED
      BY <2>3, <2>4
  <1>2. [station |-> station[c], rest |-> 0] \in Keys
    BY DEF Keys
  <1>3. ASSUME NEW k \in Keys, k.station = station[c]
        PROVE  k = [station |-> station[c], rest |-> 0]
    <2>1. station[c] # -1
      <3>1. MAX_STATION_ID \in Nat
        BY SessionAssumption
      <3>2. QED
        BY <3>1 DEF Stations
    <2>2. k \in [station : Stations, rest : StackBytes]
      BY <1>3, <2>1 DEF Keys, EmptyKey
    <2>3. QED
      BY <1>3, <2>2
  <1>4. QED
    BY <1>1, <1>2, <1>3

\* The table forgets nothing.
LEMMA NothingForgotten ==
    ASSUME Shape, [Next]_vars, NEW k \in Keys, db[k] # None
    PROVE  db'[k] # None
  <1>0. db \in [Keys -> Values \cup {None}] /\ request \in [Consumers -> Requests]
    BY DEF Shape, ConsumerTypes, FileTypes
  <1>1. ASSUME NEW w \in Consumers, Put(w)
        PROVE  db'[k] # None
    <2>1. request[w].value \in Values
      BY <1>0 DEF Requests
    <2>2. request[w].value # None
      BY <2>1, SessionAssumption DEF Values
    <2>3. CASE db' = db
      BY <2>3
    <2>4. CASE db' = [db EXCEPT ![filePosition] = request[w].value]
      BY <1>0, <2>2, <2>4
    <2>5. QED
      BY <1>1, <2>3, <2>4 DEF Put
  <1>2. ASSUME NEW w \in Consumers,
               Take(w) \/ Read(w) \/ LockDb(w) \/ Seek(w) \/ Get(w) \/ UnlockDb(w)
               \/ Write(w) \/ CloseSession(w)
        PROVE  db'[k] # None
    BY <1>2 DEF Take, Read, LockDb, Seek, Get, UnlockDb, Write, CloseSession, dbVars
  <1>3. ASSUME NEW c \in Clients, ClientStep(c) \/ Die(c) \/ ResetArrives(c)
        PROVE  db'[k] # None
    BY <1>3, Frames DEF dbVars
  <1>4. CASE UNCHANGED vars
    BY <1>4 DEF vars, dbVars
  <1>5. QED
    BY <1>1, <1>2, <1>3, <1>4 DEF Next, ConsumerStep

LEMMA KeptFrame ==
    ASSUME NEW c \in Clients, Shape, [Next]_vars, Kept(c), Still(c),
           StackBytes = {0}, stored'[c] => stored[c]
    PROVE  Kept(c)'
  <1>1. KeysOf(c)' = KeysOf(c)
    BY SameQuestions DEF Still
  <1>2. station[c] \in Stations
    BY DEF Shape, ClientTypes
  <1>3. \A k \in KeysOf(c) : db[k] # None => db'[k] # None
    BY <1>2, OneKey, NothingForgotten
  <1>4. QED
    BY <1>1, <1>3 DEF Kept, Still

LEMMA KeptByClients ==
    ASSUME NEW c \in Clients, IInv, StackBytes = {0}, Kept(c),
           \/ Connect(c) \/ SendRequest(c) \/ Receive(c) \/ SendEnd(c)
           \/ Close(c) \/ Die(c) \/ ResetArrives(c)
    PROVE  Kept(c)'
  <1>0. /\ clientPc \in [Clients -> {"start", "send", "await", "end", "close", "gone"}]
        /\ stored \in [Clients -> BOOLEAN]
        /\ station[c] \in Stations
    BY DEF IInv, Shape, ClientTypes, WireTypes
  <1>1. CASE SendRequest(c)
    <2>1. /\ clientPc[c] = "send" /\ station' = station /\ mode' = mode
          /\ UNCHANGED <<toClient, pc, serving, request, dbVars>>
          /\ stored'[c] <=> \E k \in Keys : k.station = station[c] /\ db[k] # None
      BY <1>0, <1>1 DEF SendRequest
    <2>2. toClient[c] = <<>> /\ \A w \in Consumers : serving[w] = c => pc[w] = "read"
      BY <2>1 DEF IInv, Turns, Turn, Served
    <2>3. KeysOf(c)' = KeysOf(c)
      BY <2>1, SameQuestions
    <2>4. ASSUME stored'[c]
          PROVE  \A k \in KeysOf(c) : db[k] # None
      <3>1. PICK k \in Keys : k.station = station[c] /\ db[k] # None
        BY <2>1, <2>4
      <3>2. KeysOf(c) = {k}
        BY <1>0, <3>1, OneKey
      <3>3. QED
        BY <3>1, <3>2
    <2>5. QED
      BY <2>1, <2>2, <2>3, <2>4 DEF Kept, dbVars
  <1>2. CASE Connect(c) \/ Receive(c) \/ SendEnd(c) \/ Close(c) \/ Die(c)
    <2>1. clientPc'[c] # "await"
      BY <1>0, <1>2 DEF Connect, Receive, NextStation, SendEnd, Close, Die, Hangup
    <2>2. QED
      BY <2>1 DEF Kept
  <1>3. CASE ResetArrives(c)
    <2>1. clientPc[c] # "await" /\ clientPc' = clientPc
      BY <1>3 DEF ResetArrives, IInv, Turns, Turn, clientVars
    <2>2. QED
      BY <2>1 DEF Kept
  <1>4. QED
    BY <1>1, <1>2, <1>3

LEMMA KeptByConsumers ==
    ASSUME NEW w \in Consumers, NEW c \in Clients, IInv, StackBytes = {0}, Kept(c),
           ConsumerStep(w), serving[w] = c \/ (Take(w) /\ c = Head(waiting))
    PROVE  Kept(c)'
  <1>0. /\ pc \in [Consumers -> {"idle", "read", "lock", "seek", "access", "unlock",
                                 "write", "close"}]
        /\ serving \in [Consumers -> Clients \cup {None}]
        /\ request \in [Consumers -> Requests]
        /\ toClient \in [Clients -> Seq(Requests)]
        /\ station[c] \in Stations
        /\ Shape /\ OneServer /\ Turn(c) /\ c # None
    BY SessionAssumption DEF IInv, Shape, ClientTypes, WireTypes, ConsumerTypes, Turns
  <1>1. /\ mode' = mode /\ station' = station /\ clientPc' = clientPc /\ stored' = stored
    BY Frames DEF clientVars
  <1>2. KeysOf(c)' = KeysOf(c)
    BY <1>1, SameQuestions
  <1>3. SUFFICES ASSUME clientPc[c] = "await", stored[c]
                 PROVE  /\ \A v \in Consumers : serving'[v] = c /\ pc'[v] \in {"unlock", "write"} =>
                              request'[v].operation # "GET_ERROR"
                        /\ toClient'[c] # <<>> => toClient'[c][1].operation # "GET_ERROR"
    <2>1. ConsumerStep(w) => [Next]_vars
      BY DEF Next
    <2>2. KeysOf(c) \subseteq Keys
      BY <1>0, OneKey
    <2>3. \A k \in KeysOf(c) : db[k] # None => db'[k] # None
      BY <1>0, <2>1, <2>2, NothingForgotten
    <2>4. QED
      BY <1>1, <1>2, <2>3 DEF Kept
  <1>4. /\ \A v \in Consumers : serving[v] = c /\ pc[v] \in {"unlock", "write"} =>
              request[v].operation # "GET_ERROR"
        /\ toClient[c] # <<>> => toClient[c][1].operation # "GET_ERROR"
        /\ \A k \in KeysOf(c) : db[k] # None
    BY <1>3 DEF Kept
  <1>5. CASE Take(w)
    BY <1>0, <1>4, <1>5 DEF Take, At, wireVars
  <1>6. CASE serving[w] = c /\ (LockDb(w) \/ Seek(w) \/ UnlockDb(w))
    BY <1>0, <1>4, <1>6 DEF LockDb, Seek, UnlockDb, At, wireVars
  <1>7. CASE serving[w] = c /\ Read(w)
    <2>1. /\ serving' = serving /\ toClient' = toClient /\ pc[w] = "read"
          /\ \A v \in Consumers \ {w} : pc'[v] = pc[v] /\ request'[v] = request[v]
      BY <1>0, <1>7 DEF Read, Handle, At
    <2>2. pc'[w] = "write" => request'[w] = Zeroed("__UNKNOWN_OPERATION")
      BY <1>0, <1>7 DEF Read, Handle, At
    <2>3. pc'[w] # "unlock"
      BY <1>0, <1>7 DEF Read, Handle, At
    <2>4. Zeroed("__UNKNOWN_OPERATION").operation = "__UNKNOWN_OPERATION"
      BY ZeroedType DEF Operations
    <2>5. QED
      BY <1>4, <2>1, <2>2, <2>3, <2>4
  <1>8. CASE serving[w] = c /\ Get(w)
    <2>1. /\ pc[w] = "access" /\ serving' = serving /\ toClient' = toClient
          /\ request[w].operation = "GET"
          /\ \A v \in Consumers \ {w} : pc'[v] = pc[v] /\ request'[v] = request[v]
      BY <1>0, <1>8 DEF Get, At, wireVars
    <2>2. request[w] \in RequestsOf(c)
      BY <1>0, <1>3, <1>8, <2>1, WhoseTurn
    <2>3. request[w].key \in KeysOf(c)
      <3>1. mode[c] \in PutModes \cup GetModes \cup {"FOREIGN"}
        BY <1>0, <1>3 DEF Shape, ClientTypes
      <3>2. QED
        BY <1>0, <2>1, <2>2, <3>1, Asking
    <2>4. db[filePosition] # None
      BY <1>4, <2>1, <2>3 DEF IInv, FileIsMine
    <2>5. request'[w].operation = "GET_OK"
      BY <1>0, <1>8, <2>4 DEF Get, Request
    <2>6. QED
      BY <1>4, <2>1, <2>5
  <1>9. CASE serving[w] = c /\ Put(w)
    <2>1. /\ serving' = serving /\ toClient' = toClient
          /\ \A v \in Consumers \ {w} : pc'[v] = pc[v] /\ request'[v] = request[v]
      BY <1>0, <1>9 DEF Put, At, wireVars
    <2>2. Zeroed("PUT_ERROR").operation = "PUT_ERROR"
      BY ZeroedType DEF Operations
    <2>3. request'[w].operation \in {"PUT_OK", "PUT_ERROR"}
      <3>1. CASE request' = [request EXCEPT ![w].operation = "PUT_OK"]
        BY <1>0, <3>1 DEF Requests
      <3>2. CASE request' = [request EXCEPT ![w] = Zeroed("PUT_ERROR")]
        BY <1>0, <2>2, <3>2
      <3>3. QED
        BY <1>9, <3>1, <3>2 DEF Put
    <2>4. QED
      BY <1>4, <2>1, <2>3
  <1>10. CASE serving[w] = c /\ Write(w)
    <2>1. /\ pc[w] = "write" /\ serving' = serving
          /\ \A v \in Consumers \ {w} : pc'[v] = pc[v] /\ request'[v] = request[v]
      BY <1>0, <1>10 DEF Write, At
    <2>2. socket[c] = "open" /\ toClient[c] = <<>>
      BY <1>0, <1>3, <1>10, <2>1, WhoseTurn DEF Turn, Answering
    <2>3. toClient'[c] = <<request[w]>> /\ pc'[w] = "read"
      BY <1>0, <1>10, <2>2 DEF Write, At
    <2>4. toClient'[c][1] = request[w]
      BY <2>3
    <2>5. QED
      BY <1>4, <1>10, <2>1, <2>3, <2>4
  <1>11. CASE serving[w] = c /\ CloseSession(w)
    BY <1>0, <1>4, <1>11 DEF CloseSession, At
  <1>12. QED
    BY <1>5, <1>6, <1>7, <1>8, <1>9, <1>10, <1>11 DEF ConsumerStep

LEMMA KeptStep == StackBytes = {0} /\ IInv /\ AllKept /\ [Next]_vars => AllKept'
  <1> SUFFICES ASSUME StackBytes = {0}, IInv, AllKept, [Next]_vars, NEW d \in Clients
               PROVE  Kept(d)'
    BY DEF AllKept
  <1>0. Kept(d) /\ Shape /\ stored \in [Clients -> BOOLEAN]
    BY DEF AllKept, IInv, Shape, WireTypes
  <1>1. ASSUME NEW c \in Clients,
               Connect(c) \/ SendRequest(c) \/ Receive(c) \/ SendEnd(c) \/ Close(c)
               \/ Die(c) \/ ResetArrives(c)
        PROVE  Kept(d)'
    <2>1. CASE d = c
      BY <1>0, <1>1, <2>1, KeptByClients
    <2>2. CASE d # c
      <3>1. Still(d)
        BY <1>0, <1>1, <2>2, OtherClients DEF Close, Die
      <3>2. stored'[d] => stored[d]
        BY <1>0, <1>1, <2>2 DEF Connect, SendRequest, Receive, SendEnd, Close, Die, Hangup,
                                ResetArrives
      <3>3. QED
        BY <1>0, <3>1, <3>2, KeptFrame
    <2>3. QED
      BY <2>1, <2>2
  <1>2. ASSUME NEW w \in Consumers, ConsumerStep(w)
        PROVE  Kept(d)'
    <2>1. CASE serving[w] = d \/ (Take(w) /\ d = Head(waiting))
      BY <1>0, <1>2, <2>1, KeptByConsumers
    <2>2. CASE serving[w] # d /\ ~(Take(w) /\ d = Head(waiting))
      <3>1. Still(d)
        BY <1>0, <1>2, <2>2, OthersServed DEF ConsumerStep
      <3>2. stored'[d] => stored[d]
        BY <1>2, Frames
      <3>3. QED
        BY <1>0, <3>1, <3>2, KeptFrame
    <2>3. QED
      BY <2>1, <2>2
  <1>3. CASE UNCHANGED vars
    <2>1. Still(d) /\ stored' = stored
      BY <1>3 DEF vars, clientVars, wireVars, Still
    <2>2. QED
      BY <1>0, <2>1, KeptFrame
  <1>4. QED
    BY <1>1, <1>2, <1>3 DEF Next, ClientStep

\* A GET of a station that had a reading when the GET was sent finds one,
\* provided the bytes of a key after its text are zero.  The threads of -m
\* leave them as they find them, and then it fails (run SessionPadding).
THEOREM ReadingsAreFound ==
    ASSUME StackBytes = {0}
    PROVE  Spec => []StoredIsFound
  <1>1. Init => AllKept
    BY DEF Init, AllKept, Kept
  <1>2. IInv /\ AllKept /\ [Next]_vars => AllKept'
    BY KeptStep
  <1>3. AllKept => StoredIsFound
    BY DEF AllKept, Kept, StoredIsFound, Answered, Answer
  <1>4. QED
    BY <1>1, <1>2, <1>3, Invariance, PTL DEF Spec
=============================================================================
