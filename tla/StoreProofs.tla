----------------------------- MODULE StoreProofs -----------------------------
(* Proof that Session implements Store, for every number of clients and    *)
(* consumers: each step of a client or a consumer is an asking, the effect *)
(* of a call, a client that learns its answer, or nothing that Store sees. *)
EXTENDS SessionRefinement, SessionProofs

\* What Store sees of a request that is under way, and of an answer.
QuestionOf(r) ==
    IF ~IsCall(r) THEN S!NoCall
    ELSE IF r.operation = "GET" THEN S!AskedGet(r.key) ELSE S!AskedPut(r.key, r.value)

AnswerOf(r) ==
    IF r.operation \in {"GET_OK", "PUT_OK"} THEN S!Answered(r.operation, r.value)
    ELSE IF r.operation \in {"GET_ERROR", "PUT_ERROR"} THEN S!Answered(r.operation, None)
    ELSE S!NoCall

\* The call of c is the one message that is about c.
CallIs(c) ==
    /\ clientPc[c] \notin {"await", "gone"} => callOf(c) = S!NoCall
    /\ clientPc[c] \in {"await", "gone"} =>
          /\ \A r \in Requests : toServer[c] = <<r>> => callOf(c) = QuestionOf(r)
          /\ \A w \in Consumers : serving[w] = c /\ pc[w] \in {"lock", "seek", "access"} =>
                callOf(c) = QuestionOf(request[w])
    /\ clientPc[c] = "await" =>
          /\ \A w \in Consumers : serving[w] = c /\ pc[w] \in {"unlock", "write"} =>
                callOf(c) = AnswerOf(request[w])
          /\ \A r \in Requests : toClient[c] = <<r>> => callOf(c) = AnswerOf(r)
    /\ clientPc[c] = "gone" /\ toServer[c] = <<>> /\ Served(c, {"read", "unlock", "write", "close"}) =>
          callOf(c) = S!NoCall

CallsAre == \A c \in Clients : CallIs(c)
-----------------------------------------------------------------------------
IsAnswer(r) == r.operation \in {"GET_OK", "GET_ERROR", "PUT_OK", "PUT_ERROR"}

\* What is pending and what is returning, element by element.
LEMMA PendingIs ==
    ASSUME NEW c \in Clients, NEW r
    PROVE  r \in Pending(c) <=>
              /\ IsCall(r)
              /\ \/ \E i \in DOMAIN toServer[c] : toServer[c][i] = r
                 \/ \E w \in Consumers : /\ serving[w] = c /\ request[w] = r
                                         /\ pc[w] \in {"lock", "seek", "access"}
  <1> DEFINE working == {v \in Consumers : /\ serving[v] = c
                                           /\ pc[v] \in {"lock", "seek", "access"}
                                           /\ IsCall(request[v])}
  <1>1. r \in {x \in {toServer[c][i] : i \in DOMAIN toServer[c]} : IsCall(x)} <=>
           IsCall(r) /\ \E i \in DOMAIN toServer[c] : toServer[c][i] = r
    OBVIOUS
  <1>2. r \in {request[w] : w \in working} <=>
           \E w \in Consumers : /\ serving[w] = c /\ request[w] = r /\ IsCall(r)
                                /\ pc[w] \in {"lock", "seek", "access"}
    OBVIOUS
  <1>3. Pending(c) = {x \in {toServer[c][i] : i \in DOMAIN toServer[c]} : IsCall(x)}
                     \cup {request[w] : w \in working}
    BY DEF Pending
  <1>4. QED
    BY <1>1, <1>2, <1>3

LEMMA ReturningIs ==
    ASSUME NEW c \in Clients, NEW r
    PROVE  r \in Returning(c) <=>
              /\ clientPc[c] = "await" /\ IsAnswer(r)
              /\ \/ \E i \in DOMAIN toClient[c] : toClient[c][i] = r
                 \/ \E w \in Consumers : /\ serving[w] = c /\ request[w] = r
                                         /\ pc[w] \in {"unlock", "write"}
  <1> DEFINE answering == {v \in Consumers : /\ serving[v] = c
                                             /\ pc[v] \in {"unlock", "write"}}
             under == {toClient[c][i] : i \in DOMAIN toClient[c]}
                      \cup {request[w] : w \in answering}
  <1>1. r \in under <=>
           \/ \E i \in DOMAIN toClient[c] : toClient[c][i] = r
           \/ \E w \in Consumers : /\ serving[w] = c /\ request[w] = r
                                   /\ pc[w] \in {"unlock", "write"}
    OBVIOUS
  <1>2. Returning(c) = IF clientPc[c] # "await" THEN {} ELSE {x \in under : IsAnswer(x)}
    BY DEF Returning, IsAnswer
  <1> HIDE DEF under
  <1>3. QED
    BY <1>1, <1>2

\* With no message the call is none, with one it is what the message says.
LEMMA CallOfNone ==
    ASSUME NEW c \in Clients,
           clientPc[c] \notin {"await", "gone"} \/ Pending(c) \cup Returning(c) = {}
    PROVE  callOf(c) = S!NoCall
  BY DEF callOf, S!NoCall

LEMMA CallOfOne ==
    ASSUME NEW c \in Clients, clientPc[c] \in {"await", "gone"},
           NEW r, Pending(c) \cup Returning(c) = {r}
    PROVE  /\ IsCall(r) => callOf(c) = QuestionOf(r)
           /\ IsAnswer(r) => callOf(c) = AnswerOf(r)
  <1>1. (CHOOSE x \in Pending(c) \cup Returning(c) : TRUE) = r
    OBVIOUS
  <1>2. callOf(c) =
           CASE r.operation = "GET" ->
                   [state |-> "asked", operation |-> "GET", key |-> r.key]
             [] r.operation = "PUT" ->
                   [state |-> "asked", operation |-> "PUT", key |-> r.key, value |-> r.value]
             [] r.operation \in {"GET_OK", "PUT_OK"} ->
                   [state |-> "answered", answer |-> r.operation, value |-> r.value]
             [] OTHER ->
                   [state |-> "answered", answer |-> r.operation, value |-> None]
    BY <1>1, Zenon DEF callOf
  <1>3. QED
    BY <1>2 DEF IsCall, IsAnswer, QuestionOf, AnswerOf, S!AskedGet, S!AskedPut, S!Answered

LEMMA Elements ==
    /\ \A q, r : (\E i \in DOMAIN <<q>> : <<q>>[i] = r) <=> r = q
    /\ \A r : ~(\E i \in DOMAIN <<>> : <<>>[i] = r)
  OBVIOUS

\* A session's own requests have a key that names a station.
LEMMA AsksForAStation ==
    ASSUME NEW c \in Clients, Shape, clientPc[c] = "await", NEW r \in RequestsOf(c)
    PROVE  r \in Requests /\ (IsCall(r) <=> r.operation \in {"PUT", "GET"})
  <1>1. station[c] \in Stations /\ mode[c] \in PutModes \cup GetModes \cup {"FOREIGN"}
    BY DEF Shape, ClientTypes
  <1>2. \A k \in KeysOf(c) : k # EmptyKey
    <2>1. station[c] # -1
      <3>1. MAX_STATION_ID \in Nat
        BY SessionAssumption
      <3>2. QED
        BY <1>1, <3>1 DEF Stations
    <2>2. QED
      BY <2>1 DEF KeysOf, EmptyKey
  <1>3. QED
    BY <1>1, <1>2, Asking DEF IsCall

\* A message that is alone around c and may be seen decides the call.
LEMMA CallOfQuestion ==
    ASSUME NEW c \in Clients, clientPc[c] \in {"await", "gone"}, NEW r,
           \A x : x \in Pending(c) \cup Returning(c) <=> x = r /\ IsCall(r)
    PROVE  callOf(c) = QuestionOf(r)
  <1>1. CASE IsCall(r)
    <2>1. Pending(c) \cup Returning(c) = {r}
      BY <1>1
    <2>2. QED
      BY <1>1, <2>1, CallOfOne
  <1>2. CASE ~IsCall(r)
    <2>1. Pending(c) \cup Returning(c) = {}
      BY <1>2
    <2>2. QED
      BY <1>2, <2>1, CallOfNone DEF QuestionOf
  <1>3. QED
    BY <1>1, <1>2

LEMMA CallOfAnswer ==
    ASSUME NEW c \in Clients, clientPc[c] \in {"await", "gone"}, NEW r,
           \A x : x \in Pending(c) \cup Returning(c) <=> x = r /\ IsAnswer(r)
    PROVE  callOf(c) = AnswerOf(r)
  <1>1. CASE IsAnswer(r)
    <2>1. Pending(c) \cup Returning(c) = {r}
      BY <1>1
    <2>2. QED
      BY <1>1, <2>1, CallOfOne
  <1>2. CASE ~IsAnswer(r)
    <2>1. Pending(c) \cup Returning(c) = {}
      BY <1>2
    <2>2. QED
      BY <1>2, <2>1, CallOfNone DEF AnswerOf, IsAnswer
  <1>3. QED
    BY <1>1, <1>2

LEMMA CallsAlways == IInv => CallsAre
  <1> SUFFICES ASSUME IInv, NEW c \in Clients PROVE CallIs(c)
    BY DEF CallsAre
  <1>0. /\ Shape /\ OneServer /\ Turn(c) /\ c # None
        /\ request \in [Consumers -> Requests]
    BY SessionAssumption DEF IInv, Turns, Shape, ConsumerTypes
  <1>1. \A r : r \in Pending(c) \cup Returning(c) <=>
           \/ /\ IsCall(r)
              /\ \/ \E i \in DOMAIN toServer[c] : toServer[c][i] = r
                 \/ \E w \in Consumers : /\ serving[w] = c /\ request[w] = r
                                         /\ pc[w] \in {"lock", "seek", "access"}
           \/ /\ clientPc[c] = "await" /\ IsAnswer(r)
              /\ \/ \E i \in DOMAIN toClient[c] : toClient[c][i] = r
                 \/ \E w \in Consumers : /\ serving[w] = c /\ request[w] = r
                                         /\ pc[w] \in {"unlock", "write"}
    BY PendingIs, ReturningIs
  <1>2. \A v, w \in Consumers : serving[v] = c /\ serving[w] = c => v = w
    BY <1>0 DEF OneServer
  <1>3. \A r : ~(IsCall(r) /\ IsAnswer(r))
    BY DEF IsCall, IsAnswer
  <1>4. clientPc[c] \notin {"await", "gone"} => callOf(c) = S!NoCall
    BY CallOfNone
  <1>5. ASSUME clientPc[c] \in {"await", "gone"}, NEW r \in Requests, toServer[c] = <<r>>
        PROVE  callOf(c) = QuestionOf(r)
    <2>1. toServer[c] # <<>>
      BY <1>5
    <2>2. /\ \A w \in Consumers : serving[w] = c => pc[w] = "read"
          /\ clientPc[c] = "await" => toClient[c] = <<>>
      BY <1>0, <1>5, <2>1 DEF Turn, Unread, Asked, AtWork, Answering, Told, Served
    <2>3. \A x : x \in Pending(c) \cup Returning(c) <=> x = r /\ IsCall(r)
      BY <1>1, <1>5, <2>2, Elements
    <2>4. QED
      BY <1>5, <2>3, CallOfQuestion
  <1>6. ASSUME clientPc[c] \in {"await", "gone"}, NEW w \in Consumers, serving[w] = c,
               pc[w] \in {"lock", "seek", "access"}
        PROVE  callOf(c) = QuestionOf(request[w])
    <2>1. /\ toServer[c] = <<>>
          /\ clientPc[c] = "await" => toClient[c] = <<>>
      BY <1>0, <1>6, WhoseTurn DEF AtWork
    <2>2. \A v \in Consumers : serving[v] = c => v = w
      BY <1>2, <1>6
    <2>3. \A x : x \in Pending(c) \cup Returning(c) <=> x = request[w] /\ IsCall(request[w])
      BY <1>1, <1>6, <2>1, <2>2, Elements
    <2>4. QED
      BY <1>6, <2>3, CallOfQuestion
  <1>7. ASSUME clientPc[c] = "await", NEW w \in Consumers, serving[w] = c,
               pc[w] \in {"unlock", "write"}
        PROVE  callOf(c) = AnswerOf(request[w])
    <2>1. toServer[c] = <<>> /\ toClient[c] = <<>>
      BY <1>0, <1>7, WhoseTurn DEF Answering
    <2>2. \A v \in Consumers : serving[v] = c => v = w
      BY <1>2, <1>7
    <2>3. \A x : x \in Pending(c) \cup Returning(c) <=> x = request[w] /\ IsAnswer(request[w])
      BY <1>1, <1>7, <2>1, <2>2, Elements
    <2>4. QED
      BY <1>7, <2>3, CallOfAnswer
  <1>8. ASSUME clientPc[c] = "await", NEW r \in Requests, toClient[c] = <<r>>
        PROVE  callOf(c) = AnswerOf(r)
    <2>1. toClient[c] # <<>>
      BY <1>8
    <2>2. /\ toServer[c] = <<>>
          /\ \A w \in Consumers : serving[w] = c => pc[w] = "read"
      BY <1>0, <1>8, <2>1 DEF Turn, Asked, AtWork, Answering, Told, Served
    <2>3. \A x : x \in Pending(c) \cup Returning(c) <=> x = r /\ IsAnswer(r)
      BY <1>1, <1>8, <2>2, Elements
    <2>4. QED
      BY <1>8, <2>3, CallOfAnswer
  <1>9. ASSUME clientPc[c] = "gone", toServer[c] = <<>>,
               Served(c, {"read", "unlock", "write", "close"})
        PROVE  callOf(c) = S!NoCall
    <2>1. \A x : x \notin Pending(c) \cup Returning(c)
      BY <1>1, <1>9, Elements DEF Served
    <2>2. Pending(c) \cup Returning(c) = {}
      BY <2>1
    <2>3. QED
      BY <2>2, CallOfNone
  <1>10. QED
    BY <1>4, <1>5, <1>6, <1>7, <1>8, <1>9 DEF CallIs


\* What does not concern c leaves its call alone.
SameMessages(c) ==
    /\ clientPc'[c] = clientPc[c] /\ toServer'[c] = toServer[c] /\ toClient'[c] = toClient[c]
    /\ \A w \in Consumers : serving'[w] = c <=> serving[w] = c
    /\ \A w \in Consumers : serving[w] = c => pc'[w] = pc[w] /\ request'[w] = request[w]

LEMMA CallFrame ==
    ASSUME NEW c \in Clients, SameMessages(c)
    PROVE  callOf(c)' = callOf(c)
  <1>1. ASSUME NEW places
        PROVE  {v \in Consumers : serving'[v] = c /\ pc'[v] \in places}
               = {v \in Consumers : serving[v] = c /\ pc[v] \in places}
    BY DEF SameMessages
  <1>3. Pending(c)' = Pending(c)
    <2> DEFINE working == {v \in Consumers : /\ serving[v] = c
                                             /\ pc[v] \in {"lock", "seek", "access"}
                                             /\ IsCall(request[v])}
               sent == {toServer[c][i] : i \in DOMAIN toServer[c]}
               calls(messages) == {r \in messages : IsCall(r)}
    <2>1. Pending(c) = calls(sent) \cup {request[w] : w \in working}
      BY DEF Pending
    <2>2. Pending(c)' = calls(sent') \cup {request'[w] : w \in working'}
      BY DEF Pending, IsCall
    <2>3. sent' = sent
      BY DEF SameMessages
    <2>4. working' = working
      <3>1. working' = {v \in Consumers : /\ serving'[v] = c
                                          /\ pc'[v] \in {"lock", "seek", "access"}
                                          /\ IsCall(request'[v])}
        BY DEF IsCall
      <3>2. QED
        BY <3>1 DEF SameMessages
    <2>5. \A w \in working : request'[w] = request[w]
      BY DEF SameMessages
    <2> HIDE DEF working, sent, calls
    <2>6. {request'[w] : w \in working'} = {request[w] : w \in working}
      BY <2>4, <2>5
    <2>7. QED
      BY <2>1, <2>2, <2>3, <2>6
  <1>4. Returning(c)' = Returning(c)
    <2> DEFINE answering == {v \in Consumers : /\ serving[v] = c
                                               /\ pc[v] \in {"unlock", "write"}}
               under == {toClient[c][i] : i \in DOMAIN toClient[c]}
               all == under \cup {request[w] : w \in answering}
    <2>1. Returning(c) = IF clientPc[c] # "await" THEN {} ELSE {r \in all : IsAnswer(r)}
      BY DEF Returning, IsAnswer
    <2>2. Returning(c)' = IF clientPc'[c] # "await" THEN {} ELSE {r \in all' : IsAnswer(r)}
      BY DEF Returning, IsAnswer
    <2>3. under' = under
      BY DEF SameMessages
    <2>4. answering' = answering
      BY <1>1
    <2>5. \A w \in answering : request'[w] = request[w]
      BY DEF SameMessages
    <2>6. {request'[w] : w \in answering'} = {request[w] : w \in answering}
      <3> HIDE DEF answering
      <3>1. QED
        BY <2>4, <2>5
    <2>7. all' = all
      <3> HIDE DEF under, answering
      <3>1. QED
        BY <2>3, <2>6
    <2> HIDE DEF all
    <2>8. QED
      BY <2>1, <2>2, <2>7 DEF SameMessages
  <1>5. clientPc'[c] = clientPc[c]
    BY DEF SameMessages
  <1> DEFINE view(r) ==
         CASE r.operation = "GET" ->
                 [state |-> "asked", operation |-> "GET", key |-> r.key]
           [] r.operation = "PUT" ->
                 [state |-> "asked", operation |-> "PUT", key |-> r.key, value |-> r.value]
           [] r.operation \in {"GET_OK", "PUT_OK"} ->
                 [state |-> "answered", answer |-> r.operation, value |-> r.value]
           [] OTHER ->
                 [state |-> "answered", answer |-> r.operation, value |-> None]
         around == Pending(c) \cup Returning(c)
         seen(pos, messages) ==
             IF pos \notin {"await", "gone"} \/ messages = {} THEN [state |-> "none"]
             ELSE view(CHOOSE r \in messages : TRUE)
  <1>6. callOf(c) = seen(clientPc[c], around)
    BY DEF callOf
  <1>7. callOf(c)' = seen(clientPc'[c], around')
    BY DEF callOf
  <1>8. around' = around
    BY <1>3, <1>4
  <1> HIDE DEF seen, around
  <1>9. QED
    BY <1>5, <1>6, <1>7, <1>8
-----------------------------------------------------------------------------
(* The steps of Store, in terms of the calls and the file.                 *)

\* The table and the calls, as functions.
Table == [k \in Keys \ {EmptyKey} |-> db[k]]
Calls == [c \in Clients |-> callOf(c)]

LEMMA Unseen ==
    ASSUME \A c \in Clients : callOf(c)' = callOf(c),
           \A k \in Keys \ {EmptyKey} : db'[k] = db[k]
    PROVE  S!vars' = S!vars
  <1>1. Table' = Table
    BY DEF Table, Keys, EmptyKey, Stations
  <1>2. Calls' = Calls
    BY DEF Calls
  <1>3. QED
    BY <1>1, <1>2, Zenon DEF Table, Calls, S!vars

\* One call moves.
LEMMA OneMoves ==
    ASSUME NEW c \in Clients, NEW q, callOf(c)' = q,
           \A d \in Clients \ {c} : callOf(d)' = callOf(d)
    PROVE  Calls' = [Calls EXCEPT ![c] = q]
  BY DEF Calls

LEMMA Asks ==
    ASSUME NEW c \in Clients, \A d \in Clients \ {c} : callOf(d)' = callOf(d),
           callOf(c) = S!NoCall, NEW q \in S!Questions, callOf(c)' = q,
           \A k \in Keys \ {EmptyKey} : db'[k] = db[k]
    PROVE  S!Ask(c)
  <1>1. Table' = Table
    BY DEF Table
  <1>2. Calls[c] = S!NoCall /\ Calls' = [Calls EXCEPT ![c] = q]
    BY OneMoves DEF Calls
  <1>3. QED
    BY <1>1, <1>2 DEF S!Ask, Table, Calls

LEMMA Learns ==
    ASSUME NEW c \in Clients, \A d \in Clients \ {c} : callOf(d)' = callOf(d),
           callOf(c).state = "answered", callOf(c)' = S!NoCall,
           \A k \in Keys \ {EmptyKey} : db'[k] = db[k]
    PROVE  S!Learn(c)
  <1>1. Table' = Table
    BY DEF Table
  <1>2. Calls[c].state = "answered" /\ Calls' = [Calls EXCEPT ![c] = S!NoCall]
    BY OneMoves DEF Calls
  <1>3. QED
    BY <1>1, <1>2 DEF S!Learn, Table, Calls

LEMMA Gets ==
    ASSUME NEW c \in Clients, \A d \in Clients \ {c} : callOf(d)' = callOf(d),
           NEW k \in Keys \ {EmptyKey}, callOf(c) = S!AskedGet(k),
           NEW a \in {S!NoCall, IF db[k] = None THEN S!Answered("GET_ERROR", None)
                                ELSE S!Answered("GET_OK", db[k])},
           callOf(c)' = a,
           \A j \in Keys \ {EmptyKey} : db'[j] = db[j]
    PROVE  S!Get(c)
  <1>1. Table' = Table
    BY DEF Table
  <1>2. /\ Calls[c].state = "asked" /\ Calls[c].operation = "GET" /\ Calls[c].key = k
        /\ Calls' = [Calls EXCEPT ![c] = a]
        /\ Table[k] = db[k]
    BY OneMoves DEF Calls, Table, S!AskedGet
  <1>3. a \in {IF Table[Calls[c].key] = None THEN S!Answered("GET_ERROR", None)
               ELSE S!Answered("GET_OK", Table[Calls[c].key]), S!NoCall}
    BY <1>2
  <1>4. \E b \in {IF Table[Calls[c].key] = None THEN S!Answered("GET_ERROR", None)
                  ELSE S!Answered("GET_OK", Table[Calls[c].key]), S!NoCall} :
           Calls' = [Calls EXCEPT ![c] = b]
    BY <1>2, <1>3
  <1>5. QED
    BY <1>1, <1>2, <1>4, Zenon DEF S!Get, S!Reply, Table, Calls

LEMMA Puts ==
    ASSUME NEW c \in Clients, \A d \in Clients \ {c} : callOf(d)' = callOf(d),
           NEW k \in Keys \ {EmptyKey}, NEW v, callOf(c) = S!AskedPut(k, v),
           NEW a \in {S!NoCall, S!Answered("PUT_OK", v)}, callOf(c)' = a,
           db'[k] = v, \A j \in Keys \ {EmptyKey, k} : db'[j] = db[j]
    PROVE  S!Put(c)
  <1>1. Table' = [Table EXCEPT ![k] = v]
    BY DEF Table
  <1>2. /\ Calls[c].state = "asked" /\ Calls[c].operation = "PUT"
        /\ Calls[c].key = k /\ Calls[c].value = v
        /\ Calls' = [Calls EXCEPT ![c] = a]
    BY OneMoves DEF Calls, S!AskedPut
  <1>3. \E b \in {S!Answered("PUT_OK", Calls[c].value), S!NoCall} :
           Calls' = [Calls EXCEPT ![c] = b]
    BY <1>2
  <1>4. Table' = [Table EXCEPT ![Calls[c].key] = Calls[c].value]
    BY <1>1, <1>2
  <1>5. QED
    BY <1>2, <1>3, <1>4, Zenon DEF S!Put, S!Reply, Table, Calls

LEMMA Refuses ==
    ASSUME NEW c \in Clients, \A d \in Clients \ {c} : callOf(d)' = callOf(d),
           NEW k \in Keys \ {EmptyKey}, NEW v, callOf(c) = S!AskedPut(k, v),
           NEW a \in {S!NoCall, S!Answered("PUT_ERROR", None)}, callOf(c)' = a,
           \A j \in Keys \ {EmptyKey} : db'[j] = db[j]
    PROVE  S!RefusePut(c)
  <1>1. Table' = Table
    BY DEF Table
  <1>2. /\ Calls[c].state = "asked" /\ Calls[c].operation = "PUT"
        /\ Calls' = [Calls EXCEPT ![c] = a]
    BY OneMoves DEF Calls, S!AskedPut
  <1>3. \E b \in {S!Answered("PUT_ERROR", None), S!NoCall} :
           Calls' = [Calls EXCEPT ![c] = b]
    BY <1>2
  <1>4. QED
    BY <1>1, <1>2, <1>3, Zenon DEF S!RefusePut, S!Reply, Table, Calls
-----------------------------------------------------------------------------
(* Every step of Session is one of Store, or nothing to it.                *)

\* Questions and answers that are shown, and those that are not.
LEMMA Shown ==
    ASSUME NEW r \in Requests
    PROVE  /\ QuestionOf(r) \in S!Questions \/ QuestionOf(r) = S!NoCall
           /\ AnswerOf(r).state = "answered" \/ AnswerOf(r) = S!NoCall
           /\ r.operation \notin {"PUT", "GET"} => QuestionOf(r) = S!NoCall
           /\ r.key = EmptyKey => QuestionOf(r) = S!NoCall
  <1>1. CASE IsCall(r)
    <2>1. r.key \in Keys \ {EmptyKey} /\ r.value \in Values
      BY <1>1 DEF IsCall, Requests
    <2>2. S!AskedGet(r.key) \in S!Questions /\ S!AskedPut(r.key, r.value) \in S!Questions
      BY <2>1 DEF S!Questions
    <2>3. QED
      BY <1>1, <2>2 DEF QuestionOf, AnswerOf, S!Answered, S!NoCall, IsCall
  <1>2. CASE ~IsCall(r)
    BY <1>2 DEF QuestionOf, AnswerOf, S!Answered
  <1>3. QED
    BY <1>1, <1>2

\* What CallIs says of the next state.
LEMMA NextCall ==
    ASSUME NEW c \in Clients, CallsAre'
    PROVE  /\ clientPc'[c] \notin {"await", "gone"} => callOf(c)' = S!NoCall
           /\ clientPc'[c] \in {"await", "gone"} =>
                 /\ \A r \in Requests : toServer'[c] = <<r>> => callOf(c)' = QuestionOf(r)
                 /\ \A w \in Consumers : serving'[w] = c /\ pc'[w] \in {"lock", "seek", "access"} =>
                       callOf(c)' = QuestionOf(request'[w])
           /\ clientPc'[c] = "await" =>
                 /\ \A w \in Consumers : serving'[w] = c /\ pc'[w] \in {"unlock", "write"} =>
                       callOf(c)' = AnswerOf(request'[w])
                 /\ \A r \in Requests : toClient'[c] = <<r>> => callOf(c)' = AnswerOf(r)
           /\ (/\ clientPc'[c] = "gone" /\ toServer'[c] = <<>>
               /\ \A w \in Consumers : serving'[w] = c => pc'[w] \in {"read", "unlock", "write", "close"})
              => callOf(c)' = S!NoCall
  <1>1. CallIs(c)'
    BY DEF CallsAre
  <1>2. Requests' = Requests
    BY DEF Requests, Operations, Keys, Values, EmptyKey, Stations
  <1>3. QED
    BY <1>1, <1>2 DEF CallIs, Served

\* A client asks when it sends, and learns when it reads or leaves.
LEMMA ClientSimulates ==
    ASSUME NEW c \in Clients, IInv, CallsAre, CallsAre',
           \/ Connect(c) \/ SendRequest(c) \/ Receive(c) \/ SendEnd(c)
           \/ Close(c) \/ Die(c) \/ ResetArrives(c)
    PROVE  S!vars' = S!vars \/ S!Ask(c) \/ S!Learn(c)
  <1>0. /\ clientPc \in [Clients -> {"start", "send", "await", "end", "close", "gone"}]
        /\ toServer \in [Clients -> Seq(Requests)]
        /\ toClient \in [Clients -> Seq(Requests)]
        /\ request \in [Consumers -> Requests]
        /\ Shape /\ OneServer /\ Turn(c) /\ CallIs(c)
    BY DEF IInv, Shape, ClientTypes, WireTypes, ConsumerTypes, Turns, CallsAre
  <1>1. /\ pc' = pc /\ serving' = serving /\ request' = request /\ db' = db
    BY DEF Connect, SendRequest, Receive, SendEnd, Close, Die, Hangup, ResetArrives, dbVars
  <1>2. ASSUME NEW d \in Clients \ {c}
        PROVE  callOf(d)' = callOf(d)
    <2>1. Still(d)
      BY <1>0, OtherClients DEF Close, Die
    <2>2. QED
      BY <2>1, CallFrame DEF Still, SameMessages
  <1>3. \A k \in Keys \ {EmptyKey} : db'[k] = db[k]
    BY <1>1
  <1>4. callOf(c)' = callOf(c) => S!vars' = S!vars
    BY <1>2, <1>3, Unseen
  <1>5. CASE Connect(c) \/ SendEnd(c)
    <2>1. clientPc[c] \in {"start", "end"} /\ clientPc'[c] \in {"send", "end", "close"}
      BY <1>0, <1>5 DEF Connect, SendEnd
    <2>2. callOf(c) = S!NoCall /\ callOf(c)' = S!NoCall
      BY <1>0, <2>1, NextCall DEF CallIs
    <2>3. QED
      BY <1>4, <2>2
  <1>6. CASE SendRequest(c)
    <2>1. PICK r \in RequestsOf(c) : toServer' = [toServer EXCEPT ![c] = Append(@, r)]
      BY <1>6 DEF SendRequest
    <2>2. clientPc[c] = "send" /\ clientPc'[c] = "await"
      BY <1>0, <1>6 DEF SendRequest
    <2>3. toServer[c] = <<>>
      BY <1>0, <2>2 DEF Turn
    <2>4. toServer'[c] = <<r>>
      BY <1>0, <2>1, <2>3
    <2>5. r \in Requests
      BY <1>0, <2>2, Asking DEF Shape, ClientTypes
    <2>6. callOf(c) = S!NoCall /\ callOf(c)' = QuestionOf(r)
      BY <1>0, <2>2, <2>4, <2>5, NextCall DEF CallIs
    <2>7. CASE QuestionOf(r) = S!NoCall
      BY <1>4, <2>6, <2>7
    <2>8. CASE QuestionOf(r) \in S!Questions
      BY <1>2, <1>3, <2>6, <2>8, Asks
    <2>9. QED
      BY <2>5, <2>7, <2>8, Shown
  <1>7. CASE Receive(c)
    <2>1. clientPc[c] = "await" /\ toClient[c] # <<>> /\ clientPc'[c] \in {"send", "end"}
      BY <1>0, <1>7 DEF Receive, NextStation
    <2>2. PICK r \in Requests : toClient[c] = <<r>>
      BY <1>0, <2>1, WhileWaiting
    <2>3. callOf(c) = AnswerOf(r) /\ callOf(c)' = S!NoCall
      BY <1>0, <2>1, <2>2, NextCall DEF CallIs
    <2>4. CASE AnswerOf(r) = S!NoCall
      BY <1>4, <2>3, <2>4
    <2>5. CASE AnswerOf(r).state = "answered"
      BY <1>2, <1>3, <2>3, <2>5, Learns
    <2>6. QED
      BY <2>4, <2>5, Shown
  <1>8. CASE Close(c) \/ Die(c)
    <2>1. /\ clientPc[c] \in {"send", "await", "end", "close"} /\ clientPc'[c] = "gone"
          /\ toServer' = toServer /\ toClient' = toClient
      BY <1>0, <1>8 DEF Close, Die, Hangup
    <2>2. CASE clientPc[c] \in {"send", "end"}
      <3>1. toServer[c] = <<>> /\ \A w \in Consumers : serving[w] = c => pc[w] = "read"
        BY <1>0, <2>2 DEF Turn, Served
      <3>2. callOf(c) = S!NoCall /\ callOf(c)' = S!NoCall
        BY <1>0, <1>1, <2>1, <2>2, <3>1, NextCall DEF CallIs
      <3>3. QED
        BY <1>4, <3>2
    <2>3. CASE clientPc[c] = "close"
      <3>1. callOf(c) = S!NoCall
        BY <1>0, <2>3 DEF CallIs
      <3>2. CASE toServer[c] = <<Zeroed("END")>>
        <4>1. Zeroed("END") \in Requests /\ Zeroed("END").operation = "END"
          BY ZeroedType DEF Operations
        <4>2. callOf(c)' = QuestionOf(Zeroed("END"))
          BY <2>1, <3>2, <4>1, NextCall
        <4>3. QED
          BY <1>4, <3>1, <4>1, <4>2, Shown
      <3>3. CASE toServer[c] = <<>> /\ Served(c, {"read", "close"})
        <4>1. callOf(c)' = S!NoCall
          BY <1>1, <2>1, <3>3, NextCall DEF Served
        <4>2. QED
          BY <1>4, <3>1, <4>1
      <3>4. QED
        BY <1>0, <2>3, <3>2, <3>3 DEF Turn
    <2>4. CASE clientPc[c] = "await" /\ Asked(c)
      <3>1. PICK r \in Requests : toServer[c] = <<r>>
        <4>1. \A r \in RequestsOf(c) : r \in Requests
          BY <1>0, <2>4, AsksForAStation
        <4>2. QED
          BY <2>4, <4>1 DEF Asked
      <3>2. callOf(c) = QuestionOf(r) /\ callOf(c)' = QuestionOf(r)
        BY <1>0, <2>1, <2>4, <3>1, NextCall DEF CallIs
      <3>3. QED
        BY <1>4, <3>2
    <2>5. CASE clientPc[c] = "await" /\ AtWork(c)
      <3>1. PICK w \in Consumers : serving[w] = c /\ pc[w] \in {"lock", "seek", "access"}
        BY <2>5 DEF AtWork
      <3>2. callOf(c) = QuestionOf(request[w]) /\ callOf(c)' = QuestionOf(request[w])
        BY <1>0, <1>1, <2>1, <2>5, <3>1, NextCall DEF CallIs
      <3>3. QED
        BY <1>4, <3>2
    <2>6. CASE clientPc[c] = "await" /\ (Answering(c) \/ Told(c))
      <3>1. /\ toServer[c] = <<>>
            /\ \A w \in Consumers : serving[w] = c => pc[w] \in {"read", "unlock", "write"}
        <4>1. CASE Told(c)
          BY <4>1 DEF Told, Served
        <4>2. CASE Answering(c)
          <5>1. PICK w \in Consumers : serving[w] = c /\ pc[w] \in {"unlock", "write"}
            BY <4>2 DEF Answering
          <5>2. \A v \in Consumers : serving[v] = c => v = w
            BY <1>0, <5>1, SessionAssumption DEF OneServer
          <5>3. QED
            BY <4>2, <5>1, <5>2 DEF Answering
        <4>3. QED
          BY <2>6, <4>1, <4>2
      <3>2. callOf(c)' = S!NoCall
        BY <1>1, <2>1, <3>1, NextCall
      <3>3. PICK r \in Requests : callOf(c) = AnswerOf(r)
        <4>1. CASE Told(c)
          <5>1. \E r \in Requests : toClient[c] = <<r>>
            BY <4>1 DEF Told, AnswersTo
          <5>2. QED
            BY <1>0, <2>6, <5>1 DEF CallIs
        <4>2. CASE Answering(c)
          BY <1>0, <2>6, <4>2 DEF Answering, CallIs
        <4>3. QED
          BY <2>6, <4>1, <4>2
      <3>4. CASE AnswerOf(r) = S!NoCall
        BY <1>4, <3>2, <3>3, <3>4
      <3>5. CASE AnswerOf(r).state = "answered"
        BY <1>2, <1>3, <3>2, <3>3, <3>5, Learns
      <3>6. QED
        BY <3>4, <3>5, Shown
    <2>7. QED
      BY <1>0, <2>1, <2>2, <2>3, <2>4, <2>5, <2>6 DEF Turn
  <1>9. CASE ResetArrives(c)
    <2>1. SameMessages(c)
      BY <1>1, <1>9 DEF ResetArrives, clientVars, SameMessages
    <2>2. QED
      BY <1>4, <2>1, CallFrame
  <1>10. QED
    BY <1>5, <1>6, <1>7, <1>8, <1>9

\* A consumer's access to the file is the call; its other steps are not seen.
LEMMA ConsumerSimulates ==
    ASSUME NEW w \in Consumers, NEW c \in Clients, IInv, CallsAre, CallsAre',
           \/ /\ serving[w] = c
              /\ \/ Read(w) \/ LockDb(w) \/ Seek(w) \/ Get(w) \/ Put(w) \/ UnlockDb(w)
                 \/ Write(w) \/ CloseSession(w)
           \/ Take(w) /\ c = Head(waiting)
    PROVE  S!vars' = S!vars \/ S!Get(c) \/ S!Put(c) \/ S!RefusePut(c)
  <1>0. /\ clientPc \in [Clients -> {"start", "send", "await", "end", "close", "gone"}]
        /\ toServer \in [Clients -> Seq(Requests)]
        /\ toClient \in [Clients -> Seq(Requests)]
        /\ pc \in [Consumers -> {"idle", "read", "lock", "seek", "access", "unlock",
                                 "write", "close"}]
        /\ serving \in [Consumers -> Clients \cup {None}]
        /\ request \in [Consumers -> Requests]
        /\ c # None
        /\ Shape /\ OneServer /\ Turn(c) /\ CallIs(c) /\ FileIsMine
    BY SessionAssumption
       DEF IInv, Shape, ClientTypes, WireTypes, ConsumerTypes, Turns, CallsAre
  <1>1. clientPc' = clientPc
    BY Frames DEF ConsumerStep, clientVars
  <1>2. ASSUME NEW d \in Clients \ {c}
        PROVE  callOf(d)' = callOf(d)
    <2>1. serving[w] # d
      <3>1. d # None
        BY SessionAssumption
      <3>2. CASE serving[w] = c
        BY <3>2
      <3>3. CASE Take(w)
        BY <1>0, <3>1, <3>3 DEF Take, At, OneServer
      <3>4. QED
        BY <3>2, <3>3
    <2>2. Still(d)
      BY <1>0, <2>1, OthersServed
    <2>3. QED
      BY <2>2, CallFrame DEF Still, SameMessages
  <1>3. ASSUME db' = db, callOf(c)' = callOf(c)
        PROVE  S!vars' = S!vars
    BY <1>2, <1>3, Unseen
  <1>4. serving[w] = c => \A v \in Consumers : serving[v] = c => v = w
    BY <1>0 DEF OneServer
  <1>5. ASSUME clientPc[c] \notin {"await", "gone"}
        PROVE  callOf(c)' = callOf(c)
    BY <1>0, <1>1, <1>5, NextCall DEF CallIs
  <1>6. CASE Take(w) /\ c = Head(waiting)
    <2>1. /\ toServer' = toServer /\ toClient' = toClient /\ db' = db /\ request' = request
          /\ serving' = [serving EXCEPT ![w] = c] /\ pc' = [pc EXCEPT ![w] = "read"]
          /\ pc[w] = "idle"
      BY <1>6 DEF Take, At, wireVars, dbVars
    <2>2. \A v \in Consumers : serving[v] # c
      <3>1. Waits(c)
        BY <1>0, <1>6, LeavesLine DEF Take, Shape, WireTypes
      <3>2. QED
        BY <1>0, <3>1 DEF OneServer
    <2>3. \A v \in Consumers : serving'[v] = c => pc'[v] = "read"
      BY <1>0, <2>1, <2>2
    <2>4. CASE clientPc[c] = "await"
      <3>1. Asked(c) \/ Told(c)
        BY <1>0, <2>2, <2>4 DEF Turn, AtWork, Answering
      <3>2. \/ \E r \in Requests : toServer[c] = <<r>>
            \/ \E r \in Requests : toClient[c] = <<r>>
        BY <1>0, <2>4, <3>1, AsksForAStation DEF Asked, Told, AnswersTo
      <3>3. callOf(c)' = callOf(c)
        BY <1>0, <1>1, <2>1, <2>4, <3>2, NextCall DEF CallIs
      <3>4. QED
        BY <1>3, <2>1, <3>3
    <2>5. CASE clientPc[c] = "gone"
      <3>1. CASE toServer[c] = <<>>
        <4>1. callOf(c) = S!NoCall /\ callOf(c)' = S!NoCall
          BY <1>0, <1>1, <2>1, <2>2, <2>3, <2>5, <3>1, NextCall DEF CallIs, Served
        <4>2. QED
          BY <1>3, <2>1, <4>1
      <3>2. CASE \E r \in Requests : toServer[c] = <<r>>
        <4>1. callOf(c)' = callOf(c)
          BY <1>0, <1>1, <2>1, <2>5, <3>2, NextCall DEF CallIs
        <4>2. QED
          BY <1>3, <2>1, <4>1
      <3>3. QED
        BY <1>0, <2>5, <3>1, <3>2 DEF Turn, Unread
    <2>6. QED
      BY <1>3, <1>5, <2>1, <2>4, <2>5
  <1>7. CASE serving[w] = c /\ Read(w)
    <2>1. /\ pc[w] = "read" /\ serving' = serving /\ toClient' = toClient /\ db' = db
      BY <1>7 DEF Read, dbVars
    <2>2. \A v \in Consumers : serving'[v] = c => v = w
      BY <1>4, <1>7, <2>1
    <2>3. CASE toServer[c] = <<>>
      <3>1. toServer'[c] = <<>> /\ socket[c] \in {"closed", "reset"}
        BY <1>7, <2>3 DEF Read
      <3>2. clientPc[c] = "gone"
        BY <1>0, <3>1 DEF Turn
      <3>3. callOf(c) = S!NoCall
        BY <1>0, <1>4, <1>7, <2>1, <2>3, <3>2 DEF CallIs, Served
      <3>4. Zeroed("PUT") \in Requests /\ QuestionOf(Zeroed("PUT")) = S!NoCall
        BY ZeroedType, Shown DEF Operations
      <3>5. \/ pc'[w] \in {"close", "write"}
            \/ pc'[w] = "lock" /\ request'[w] = Zeroed("PUT")
        BY <1>0, <1>7, <2>3 DEF Read, Handle, At
      <3>6. callOf(c)' = S!NoCall
        <4>1. CASE pc'[w] \in {"close", "write"}
          BY <1>1, <2>2, <3>1, <3>2, <4>1, NextCall
        <4>2. CASE pc'[w] = "lock" /\ request'[w] = Zeroed("PUT")
          BY <1>1, <1>7, <2>1, <3>2, <3>4, <4>2, NextCall
        <4>3. QED
          BY <3>5, <4>1, <4>2
      <3>7. QED
        BY <1>3, <2>1, <3>3, <3>6
    <2>4. CASE clientPc[c] \in {"await", "gone"} /\ toServer[c] # <<>>
      <3>1. PICK r \in Requests : toServer[c] = <<r>>
        BY <1>0, <2>4, WhileWaiting DEF Turn, Unread
      <3>2. Head(toServer[c]) = r /\ Tail(toServer[c]) = <<>>
        BY <3>1
      <3>3. Handle(w, r) /\ toServer'[c] = <<>>
        BY <1>0, <1>7, <2>4, <3>2 DEF Read
      <3>4. callOf(c) = QuestionOf(r)
        BY <1>0, <2>4, <3>1 DEF CallIs
      <3>5. /\ \/ pc'[w] = "lock" /\ request'[w] = r /\ r.operation \in {"PUT", "GET"}
               \/ pc'[w] = "close" /\ r.operation = "END"
               \/ /\ pc'[w] = "write" /\ request'[w] = Zeroed("__UNKNOWN_OPERATION")
                  /\ r.operation \notin {"PUT", "GET", "END"}
        BY <1>0, <3>3, Handling DEF Shape
      <3>6. CASE pc'[w] = "lock" /\ request'[w] = r
        <4>1. callOf(c)' = QuestionOf(r)
          BY <1>1, <1>7, <2>1, <2>4, <3>6, NextCall
        <4>2. QED
          BY <1>3, <2>1, <3>4, <4>1
      <3>7. CASE /\ \/ pc'[w] = "close"
                    \/ pc'[w] = "write" /\ request'[w] = Zeroed("__UNKNOWN_OPERATION")
                 /\ r.operation \notin {"PUT", "GET"}
        <4>1. callOf(c) = S!NoCall
          BY <3>4, <3>7, Shown
        <4>2. CASE clientPc[c] = "gone"
          <5>1. callOf(c)' = S!NoCall
            BY <1>1, <2>2, <3>3, <3>7, <4>2, NextCall
          <5>2. QED
            BY <1>3, <2>1, <4>1, <5>1
        <4>3. CASE clientPc[c] = "await"
          <5>1. r.operation # "END"
            <6>1. r \in RequestsOf(c)
              <7>1. Asked(c)
                BY <1>0, <1>7, <2>1, <3>1, <4>3, WhoseTurn, OneMessage DEF Told
              <7>2. QED
                BY <3>1, <7>1 DEF Asked
            <6>2. QED
              BY <1>0, <4>3, <6>1, Asking DEF Shape, ClientTypes
          <5>2. pc'[w] = "write" /\ request'[w] = Zeroed("__UNKNOWN_OPERATION")
            BY <3>5, <3>7, <5>1
          <5>3. AnswerOf(Zeroed("__UNKNOWN_OPERATION")) = S!NoCall
            BY ZeroedType DEF AnswerOf, Operations
          <5>4. callOf(c)' = S!NoCall
            BY <1>1, <1>7, <2>1, <4>3, <5>2, <5>3, NextCall
          <5>5. QED
            BY <1>3, <2>1, <4>1, <5>4
        <4>4. QED
          BY <2>4, <4>2, <4>3
      <3>8. QED
        BY <3>5, <3>6, <3>7
    <2>5. QED
      BY <1>3, <1>5, <2>1, <2>3, <2>4
  <1>8. CASE serving[w] = c /\ (LockDb(w) \/ Seek(w))
    <2>1. /\ pc[w] \in {"lock", "seek"} /\ pc'[w] \in {"seek", "access"}
          /\ serving' = serving /\ request' = request /\ db' = db
      BY <1>0, <1>8 DEF LockDb, Seek, At
    <2>2. clientPc[c] \in {"await", "gone"}
      BY <1>0, <1>8, <2>1, WhoseTurn
    <2>3. callOf(c) = QuestionOf(request[w]) /\ callOf(c)' = QuestionOf(request[w])
      BY <1>0, <1>1, <1>8, <2>1, <2>2, NextCall DEF CallIs
    <2>4. QED
      BY <1>3, <2>1, <2>3
  <1>9. CASE serving[w] = c /\ UnlockDb(w)
    <2>1. /\ pc[w] = "unlock" /\ pc'[w] = "write" /\ toServer' = toServer
          /\ serving' = serving /\ request' = request /\ db' = db
      BY <1>0, <1>9 DEF UnlockDb, At, wireVars
    <2>2. clientPc[c] \in {"await", "gone"} /\ toServer[c] = <<>>
      BY <1>0, <1>9, <2>1, WhoseTurn
    <2>3. callOf(c)' = callOf(c)
      <3>1. CASE clientPc[c] = "await"
        BY <1>0, <1>1, <1>9, <2>1, <3>1, NextCall DEF CallIs
      <3>2. CASE clientPc[c] = "gone"
        BY <1>0, <1>1, <1>4, <1>9, <2>1, <2>2, <3>2, NextCall DEF CallIs, Served
      <3>3. QED
        BY <2>2, <3>1, <3>2
    <2>4. QED
      BY <1>3, <2>1, <2>3
  <1>10. CASE serving[w] = c /\ Write(w)
    <2>1. /\ pc[w] = "write" /\ pc'[w] \in {"read", "close"} /\ toServer' = toServer
          /\ serving' = serving /\ db' = db
      BY <1>0, <1>10 DEF Write, At, dbVars
    <2>2. clientPc[c] \in {"await", "gone"} /\ toServer[c] = <<>>
      BY <1>0, <1>10, <2>1, WhoseTurn
    <2>3. callOf(c)' = callOf(c)
      <3>1. CASE clientPc[c] = "await"
        <4>1. socket[c] = "open" /\ toClient[c] = <<>>
          BY <1>0, <1>10, <2>1, <3>1, WhoseTurn DEF Turn, Answering
        <4>2. toClient'[c] = <<request[w]>> /\ request[w] \in Requests
          BY <1>0, <1>10, <4>1 DEF Write
        <4>3. QED
          BY <1>0, <1>1, <1>10, <2>1, <3>1, <4>2, NextCall DEF CallIs
      <3>2. CASE clientPc[c] = "gone"
        BY <1>0, <1>1, <1>4, <1>10, <2>1, <2>2, <3>2, NextCall DEF CallIs, Served
      <3>3. QED
        BY <2>2, <3>1, <3>2
    <2>4. QED
      BY <1>3, <2>1, <2>3
  <1>11. CASE serving[w] = c /\ CloseSession(w)
    <2>1. /\ pc[w] = "close" /\ toServer' = toServer /\ db' = db
          /\ \A v \in Consumers : serving'[v] # c
      BY <1>0, <1>4, <1>11 DEF CloseSession, At, dbVars
    <2>2. clientPc[c] \in {"close", "gone"} /\ toServer[c] = <<>>
      BY <1>0, <1>11, <2>1, WhoseTurn
    <2>3. callOf(c)' = callOf(c)
      BY <1>0, <1>1, <1>4, <1>5, <1>11, <2>1, <2>2, NextCall DEF CallIs, Served
    <2>4. QED
      BY <1>3, <2>1, <2>3
  <1>12. ASSUME serving[w] = c, Get(w) \/ Put(w)
         PROVE  /\ pc[w] = "access" /\ pc'[w] = "unlock" /\ serving' = serving
                /\ toServer' = toServer /\ toServer[c] = <<>>
                /\ clientPc[c] \in {"await", "gone"}
                /\ clientPc[c] = "await" => IsCall(request[w])
                /\ filePosition = request[w].key
                /\ callOf(c) = QuestionOf(request[w])
                /\ callOf(c)' = IF clientPc[c] = "await" THEN AnswerOf(request'[w]) ELSE S!NoCall
    <2>1. /\ pc[w] = "access" /\ pc'[w] = "unlock" /\ serving' = serving
          /\ toServer' = toServer /\ request[w].operation \in {"PUT", "GET"}
      BY <1>0, <1>12 DEF Get, Put, At, wireVars
    <2>2. /\ clientPc[c] \in {"await", "gone"} /\ toServer[c] = <<>>
          /\ clientPc[c] = "await" => request[w] \in RequestsOf(c)
      BY <1>0, <1>12, <2>1, WhoseTurn
    <2>3. clientPc[c] = "await" => IsCall(request[w])
      BY <1>0, <2>1, <2>2, AsksForAStation
    <2>4. callOf(c) = QuestionOf(request[w])
      BY <1>0, <1>12, <2>1, <2>2 DEF CallIs
    <2>5. clientPc[c] = "await" => callOf(c)' = AnswerOf(request'[w])
      BY <1>1, <1>12, <2>1, NextCall
    <2>6. clientPc[c] = "gone" => callOf(c)' = S!NoCall
      BY <1>1, <1>4, <1>12, <2>1, <2>2, NextCall
    <2>7. QED
      BY <1>0, <2>1, <2>2, <2>3, <2>4, <2>5, <2>6 DEF FileIsMine
  <1>13. CASE serving[w] = c /\ Get(w)
    <2> DEFINE k == request[w].key
    <2>1. /\ request[w].operation = "GET" /\ db' = db
          /\ request'[w] = IF db[k] # None THEN Request("GET_OK", k, db[k])
                           ELSE Zeroed("GET_ERROR")
      BY <1>0, <1>12, <1>13 DEF Get, dbVars
    <2>2. CASE IsCall(request[w])
      <3>1. k \in Keys \ {EmptyKey}
        BY <1>0, <2>2 DEF IsCall, Requests
      <3>2. callOf(c) = S!AskedGet(k)
        BY <1>12, <1>13, <2>1, <2>2 DEF QuestionOf
      <3>3. AnswerOf(request'[w]) = IF db[k] = None THEN S!Answered("GET_ERROR", None)
                                    ELSE S!Answered("GET_OK", db[k])
        BY <2>1, ZeroedType DEF AnswerOf, Request, Operations
      <3>4. \A j \in Keys \ {EmptyKey} : db'[j] = db[j]
        BY <2>1
      <3> HIDE DEF k
      <3>5. callOf(c)' \in {S!NoCall, IF db[k] = None THEN S!Answered("GET_ERROR", None)
                                      ELSE S!Answered("GET_OK", db[k])}
        BY <1>12, <1>13, <3>3
      <3>6. QED
        BY <1>2, <3>1, <3>2, <3>4, <3>5, Gets
    <2>3. CASE ~IsCall(request[w])
      BY <1>3, <1>12, <1>13, <2>1, <2>3 DEF QuestionOf
    <2>4. QED
      BY <2>2, <2>3
  <1>14. CASE serving[w] = c /\ Put(w)
    <2> DEFINE k == request[w].key
               v == request[w].value
    <2>1. /\ request[w].operation = "PUT"
          /\ \/ db' = [db EXCEPT ![k] = v] /\ request'[w] = [request[w] EXCEPT !.operation = "PUT_OK"]
             \/ db' = db /\ request'[w] = Zeroed("PUT_ERROR")
      BY <1>0, <1>12, <1>14 DEF Put
    <2>2. db \in [Keys -> Values \cup {None}] /\ k \in Keys
      BY <1>0 DEF Shape, FileTypes, Requests
    <2>3. CASE IsCall(request[w])
      <3>1. k \in Keys \ {EmptyKey}
        BY <2>2, <2>3 DEF IsCall
      <3>2. callOf(c) = S!AskedPut(k, v)
        BY <1>12, <1>14, <2>1, <2>3 DEF QuestionOf
      <3>3. CASE db' = [db EXCEPT ![k] = v] /\ request'[w] = [request[w] EXCEPT !.operation = "PUT_OK"]
        <4>1. AnswerOf(request'[w]) = S!Answered("PUT_OK", v)
          BY <1>0, <3>3 DEF AnswerOf, Requests
        <4>2. db'[k] = v /\ \A j \in Keys \ {EmptyKey, k} : db'[j] = db[j]
          BY <2>2, <3>3
        <4> HIDE DEF k, v
        <4>3. callOf(c)' \in {S!NoCall, S!Answered("PUT_OK", v)}
          BY <1>12, <1>14, <4>1
        <4>4. QED
          BY <1>2, <3>1, <3>2, <4>2, <4>3, Puts
      <3>4. CASE db' = db /\ request'[w] = Zeroed("PUT_ERROR")
        <4>1. AnswerOf(request'[w]) = S!Answered("PUT_ERROR", None)
          BY <3>4, ZeroedType DEF AnswerOf, Operations
        <4>2. \A j \in Keys \ {EmptyKey} : db'[j] = db[j]
          BY <3>4
        <4> HIDE DEF k, v
        <4>3. callOf(c)' \in {S!NoCall, S!Answered("PUT_ERROR", None)}
          BY <1>12, <1>14, <4>1
        <4>4. QED
          BY <1>2, <3>1, <3>2, <4>2, <4>3, Refuses
      <3>5. QED
        BY <2>1, <3>3, <3>4
    <2>4. CASE ~IsCall(request[w])
      <3>1. k = EmptyKey
        BY <2>1, <2>4 DEF IsCall
      <3>2. \A j \in Keys \ {EmptyKey} : db'[j] = db[j]
        BY <2>1, <2>2, <3>1
      <3>3. callOf(c) = S!NoCall /\ callOf(c)' = S!NoCall
        BY <1>12, <1>14, <2>4 DEF QuestionOf
      <3>4. QED
        BY <1>2, <3>2, <3>3, Unseen
    <2>5. QED
      BY <2>3, <2>4
  <1>15. QED
    BY <1>6, <1>7, <1>8, <1>9, <1>10, <1>11, <1>13, <1>14

LEMMA StepSimulates ==
    IInv /\ CallsAre /\ CallsAre' /\ [Next]_vars => S!vars' = S!vars \/ S!Next
  <1> SUFFICES ASSUME IInv, CallsAre, CallsAre', [Next]_vars
               PROVE  S!vars' = S!vars \/ S!Next
    OBVIOUS
  <1>1. ASSUME NEW c \in Clients,
               Connect(c) \/ SendRequest(c) \/ Receive(c) \/ SendEnd(c) \/ Close(c)
               \/ Die(c) \/ ResetArrives(c)
        PROVE  S!vars' = S!vars \/ S!Next
    BY <1>1, ClientSimulates DEF S!Next
  <1>2. ASSUME NEW w \in Consumers, ConsumerStep(w)
        PROVE  S!vars' = S!vars \/ S!Next
    <2>1. CASE Take(w)
      <3>1. Head(waiting) \in Clients
        BY <2>1 DEF Take, IInv, Shape, WireTypes
      <3>2. QED
        BY <2>1, <3>1, ConsumerSimulates DEF S!Next
    <2>2. CASE ~Take(w)
      <3>1. serving[w] \in Clients
        <4>1. pc[w] # "idle"
          BY <1>2, <2>2 DEF ConsumerStep, Read, LockDb, Seek, Get, Put, UnlockDb, Write,
                            CloseSession, At
        <4>2. QED
          BY <4>1 DEF IInv, OneServer, Shape, ConsumerTypes
      <3>2. QED
        BY <1>2, <2>2, <3>1, ConsumerSimulates DEF ConsumerStep, S!Next
    <2>3. QED
      BY <2>1, <2>2
  <1>3. CASE UNCHANGED vars
    <2>1. \A c \in Clients : SameMessages(c)
      BY <1>3 DEF vars, clientVars, wireVars, SameMessages
    <2>2. \A c \in Clients : callOf(c)' = callOf(c)
      BY <2>1, CallFrame
    <2>3. db' = db
      BY <1>3 DEF vars, dbVars
    <2>4. QED
      BY <2>2, <2>3, Unseen
  <1>4. QED
    BY <1>1, <1>2, <1>3 DEF Next, ClientStep

LEMMA InitSimulates == Init => S!Init
  <1> SUFFICES ASSUME Init PROVE S!Init
    OBVIOUS
  <1>1. \A c \in Clients : callOf(c) = S!NoCall
    BY CallOfNone DEF Init
  <1>2. \A k \in Keys \ {EmptyKey} : db[k] = None
    BY DEF Init
  <1>3. QED
    BY <1>1, <1>2 DEF S!Init

\* Each GET and PUT acts on the table as if alone, once, at one moment between
\* the request and the answer; nothing else changes the table; and a client
\* that has gone gets no answer but its request still acts (server.c:105-159).
THEOREM Implementation == Spec => ImplementsStore
  <1>1. Init => S!Init
    BY InitSimulates
  <1>2. IInv => CallsAre
    BY CallsAlways
  <1>3. IInv /\ CallsAre /\ CallsAre' /\ [Next]_vars => S!vars' = S!vars \/ S!Next
    BY StepSimulates
  <1>4. QED
    BY <1>1, <1>2, <1>3, Invariance, PTL DEF Spec, ImplementsStore
=============================================================================
