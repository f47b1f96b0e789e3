----------------------------- MODULE MCEnqOnce -----------------------------
(***************************************************************************)
(* Small instances of EnqOnce for TLC: the reply queue of an application   *)
(* thread, which may be forwarded to the op queue of the main thread, and  *)
(* a timer thread.  An op waits for a broker to come up and for a delay.   *)
(***************************************************************************)
EXTENDS EnqOnce

CONSTANTS app, main, timer,  \* threads
          rep, opq,          \* the queues of app and main
          low, high, once,   \* ops
          broker, delay      \* sources

MCOwner == [q \in Queues |-> IF q = rep THEN app ELSE main]
MCPrio == [o \in Ops |-> IF o = high THEN 1 ELSE 0]
MCForwards == {<<rep, opq>>}

\* Requests of the application, and sends to its queue by two threads.
MCSends == {<<app, opq, low>>, <<main, rep, low>>, <<timer, rep, high>>}
MCRequests == {<<app, opq, high>>}

\* Sources are told apart by nothing but being two.
MCSourceSymmetry == Permutations(Sources)
=============================================================================
