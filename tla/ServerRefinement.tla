-------------------------- MODULE ServerRefinement --------------------------
(* The threads and the ring of Server, seen as the waiting line of         *)
(* Dispatch.                                                               *)
EXTENDS Server, Sequences

\* A connection is admitted when queueInsert succeeds, not when accept does.
Line == [k \in 1 .. currentSize |-> clients[SlotAt(k - 1)]]
Serving == [c \in Consumers |-> IF c \in Busy THEN clientInfo[c] ELSE 0]

D == INSTANCE Dispatch
        WITH Capacity <- MAX_PENDING_CONNECTIONS,
             admitted <- accepted - InHand,
             waiting  <- Line,
             serving  <- Serving,
             served   <- closed

\* Whatever the interleaving of the threads in server.c:204-285, the queue
\* is a bounded first-in first-out line whose every connection goes to one
\* consumer.
ImplementsDispatch == D!Spec
=============================================================================
