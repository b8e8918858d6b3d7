------------------------------- MODULE Store -------------------------------
(***************************************************************************)
(* What the key/value server promises its clients, without connections,    *)
(* threads or files: a table, and per client at most one call at a time,   *)
(* which takes effect at one moment between the asking and the answer.     *)
(* Module Session is shown to implement it.                                *)
(***************************************************************************)
CONSTANTS Clients, Keys, Values,
          Missing    \* what a key has that was never put; not one of Values

VARIABLES table,     \* the stored pairs
          call       \* what each client is about

vars == <<table, call>>

NoCall == [state |-> "none"]
AskedGet(key) == [state |-> "asked", operation |-> "GET", key |-> key]
AskedPut(key, value) ==
    [state |-> "asked", operation |-> "PUT", key |-> key, value |-> value]
Answered(answer, value) == [state |-> "answered", answer |-> answer, value |-> value]

Questions == {AskedGet(k) : k \in Keys} \cup {AskedPut(k, v) : k \in Keys, v \in Values}
Answers == {Answered(a, v) : a \in {"GET_OK", "PUT_OK"}, v \in Values}
           \cup {Answered(a, Missing) : a \in {"GET_ERROR", "PUT_ERROR"}}

TypeOK ==
    /\ table \in [Keys -> Values \cup {Missing}]
    /\ call \in [Clients -> {NoCall} \cup Questions \cup Answers]

Init ==
    /\ table = [k \in Keys |-> Missing]
    /\ call = [c \in Clients |-> NoCall]

Ask(c) ==
    /\ call[c] = NoCall
    /\ \E q \in Questions : call' = [call EXCEPT ![c] = q]
    /\ UNCHANGED table

\* A client that has gone gets no answer.
Reply(c, answer) == \E a \in {answer, NoCall} : call' = [call EXCEPT ![c] = a]

Get(c) ==
    /\ call[c].state = "asked" /\ call[c].operation = "GET"
    /\ Reply(c, IF table[call[c].key] = Missing THEN Answered("GET_ERROR", Missing)
                ELSE Answered("GET_OK", table[call[c].key]))
    /\ UNCHANGED table

Put(c) ==
    /\ call[c].state = "asked" /\ call[c].operation = "PUT"
    /\ table' = [table EXCEPT ![call[c].key] = call[c].value]
    /\ Reply(c, Answered("PUT_OK", call[c].value))

RefusePut(c) ==
    /\ call[c].state = "asked" /\ call[c].operation = "PUT"
    /\ Reply(c, Answered("PUT_ERROR", Missing))
    /\ UNCHANGED table

\* The client learns its answer, or leaves before.
Learn(c) ==
    /\ call[c].state = "answered"
    /\ call' = [call EXCEPT ![c] = NoCall]
    /\ UNCHANGED table

Next == \E c \in Clients : Ask(c) \/ Get(c) \/ Put(c) \/ RefusePut(c) \/ Learn(c)

Spec == Init /\ [][Next]_vars
=============================================================================
