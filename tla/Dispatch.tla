------------------------------ MODULE Dispatch ------------------------------
(***************************************************************************)
(* What the connection queue of server.c promises, without its threads,    *)
(* locks and ring: connections are admitted to a bounded waiting line in   *)
(* the order they arrive, each is taken by one consumer, oldest first, and *)
(* is served until that consumer closes it.                                *)
(***************************************************************************)
EXTENDS Integers, Sequences

CONSTANTS Consumers, Capacity, MaxConnections

VARIABLES admitted,  \* how many connections have entered the line
          waiting,   \* the line, oldest first
          serving,   \* the connection each consumer serves, 0 for none
          served     \* connections that are done

vars == <<admitted, waiting, serving, served>>

Init ==
    /\ admitted = 0
    /\ waiting = <<>>
    /\ serving = [c \in Consumers |-> 0]
    /\ served = {}

Admit ==
    /\ admitted < MaxConnections
    /\ Len(waiting) < Capacity
    /\ admitted' = admitted + 1
    /\ waiting' = Append(waiting, admitted + 1)
    /\ UNCHANGED <<serving, served>>

Take(c) ==
    /\ serving[c] = 0
    /\ waiting # <<>>
    /\ serving' = [serving EXCEPT ![c] = Head(waiting)]
    /\ waiting' = Tail(waiting)
    /\ UNCHANGED <<admitted, served>>

Finish(c) ==
    /\ serving[c] # 0
    /\ served' = served \cup {serving[c]}
    /\ serving' = [serving EXCEPT ![c] = 0]
    /\ UNCHANGED <<admitted, waiting>>

Next == Admit \/ \E c \in Consumers : Take(c) \/ Finish(c)

Spec == Init /\ [][Next]_vars
=============================================================================
