------------------------- MODULE SessionRefinement -------------------------
(***************************************************************************)
(* The mapping from Session to Store.  The moment a call takes effect is   *)
(* the consumer's access to the file.                                      *)
(***************************************************************************)
EXTENDS Session

\* A read of nothing leaves a request with the empty key: nobody's call.
IsCall(r) == r.operation \in {"GET", "PUT"} /\ r.key # EmptyKey

\* The requests of c on their way to the file.
Pending(c) ==
    {r \in {toServer[c][i] : i \in DOMAIN toServer[c]} : IsCall(r)}
    \cup {request[w] : w \in {v \in Consumers : /\ serving[v] = c
                                                /\ pc[v] \in {"lock", "seek", "access"}
                                                /\ IsCall(request[v])}}

\* The answers on their way back to c, as long as c waits for one.
Returning(c) ==
    IF clientPc[c] # "await" THEN {}
    ELSE {r \in {toClient[c][i] : i \in DOMAIN toClient[c]}
                \cup {request[w] : w \in {v \in Consumers : /\ serving[v] = c
                                                            /\ pc[v] \in {"unlock", "write"}}} :
             r.operation \in {"GET_OK", "GET_ERROR", "PUT_OK", "PUT_ERROR"}}

callOf(c) ==
    IF clientPc[c] \notin {"await", "gone"} \/ Pending(c) \cup Returning(c) = {}
    THEN [state |-> "none"]
    ELSE LET r == CHOOSE r \in Pending(c) \cup Returning(c) : TRUE IN
         CASE r.operation = "GET" ->
                 [state |-> "asked", operation |-> "GET", key |-> r.key]
           [] r.operation = "PUT" ->
                 [state |-> "asked", operation |-> "PUT", key |-> r.key, value |-> r.value]
           [] r.operation \in {"GET_OK", "PUT_OK"} ->
                 [state |-> "answered", answer |-> r.operation, value |-> r.value]
           [] OTHER ->
                 [state |-> "answered", answer |-> r.operation, value |-> None]

S == INSTANCE Store WITH
         Keys <- Keys \ {EmptyKey}, Missing <- None,
         table <- [k \in Keys \ {EmptyKey} |-> db[k]],
         call <- [c \in Clients |-> callOf(c)]

\* Every answer is true of one moment between the request and the answer:
\* whatever the other consumers do to the file in between, each GET and each
\* PUT acts on the table as if alone, once, also for a client that has gone,
\* and nothing but a client's PUT changes it (server.c:105-159).
\* (S!Spec, with the stutter first, as most steps are one.)
ImplementsStore ==
    S!Init /\ [][S!vars' = S!vars \/ S!Next]_(S!vars)
=============================================================================
