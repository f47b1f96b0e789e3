-------------------------- MODULE RdKafkaProducer --------------------------
(***************************************************************************)
(* The librdkafka producer handle that KafkaProducer.cpp drives, and the   *)
(* broker behind it: what becomes of a message between the moment          *)
(* produce() accepts it and the moment its delivery report is called.      *)
(*                                                                         *)
(* The accounting (rk_curr_msgs) is inline code of rdkafka_int.h and is    *)
(* translated from it; the transmission itself is not in the repository    *)
(* and is modelled from the documentation of the vendored headers.         *)
(*                                                                         *)
(* An op is what the reply queue rk_rep carries: the delivery report of a  *)
(* message, or an event (error, stats, log, throttle).  Each message is    *)
(* one call of send(); a call that is sent again is another message.       *)
(***************************************************************************)
EXTENDS Naturals, FiniteSets

CONSTANTS Msgs,     \* the calls of KafkaProducer::send
          Events,   \* the events librdkafka raises for event_cb
          MaxMsgs   \* queue.buffering.max.messages

ASSUME OpsAssumption ==
  IsFiniteSet(Msgs) /\ IsFiniteSet(Events) /\ Msgs \cap Events = {}
ASSUME MaxMsgsAssumption == MaxMsgs \in Nat \ {0}

VARIABLES stage,    \* where each op is
          status,   \* rkm_status of each message
          wire,     \* messages with a request on its way to the broker
          log,      \* messages the broker has written to the topic log
          currMsgs  \* rk_curr_msgs.cnt

rkVars == <<stage, status, wire, log, currMsgs>>

Ops == Msgs \cup Events

Stages == {"new",       \* not yet produced, or not yet raised
           "rejected",  \* produce() returned an error
           "outq",      \* accepted, waiting to be transmitted
           "inflight",  \* in a ProduceRequest
           "repq",      \* on the reply queue, to be served by poll()
           "taken",     \* moved to the batch of a thread that is in poll()
           "done",      \* its callback has returned
           "lost"}      \* purged by rd_kafka_destroy(), never reported

Statuses == {"NOT_PERSISTED", "POSSIBLY_PERSISTED", "PERSISTED"}

\* The messages "in-queue from the point they are accepted by produce() until
\* their corresponding delivery report callback returns".
InQueue == {"outq", "inflight", "repq", "taken"}
Outstanding == {m \in Msgs : stage[m] \in InQueue}

RepQ == {o \in Ops : stage[o] = "repq"}

\* Mutant: the drain loop looks at the reply queue only.
OutqLen_RepliesOnly == Cardinality(RepQ)

\* rd_kafka_outq_len(): current messages plus the ops on the reply queue.
OutqLen == currMsgs + Cardinality(RepQ)

RkTypeOK ==
  /\ stage \in [Ops -> Stages]
  /\ status \in [Msgs -> Statuses]
  /\ wire \subseteq Msgs
  /\ log \subseteq Msgs
  /\ currMsgs \in Nat

RkInit ==
  /\ stage = [o \in Ops |-> "new"]
  /\ status = [m \in Msgs |-> "NOT_PERSISTED"]
  /\ wire = {}
  /\ log = {}
  /\ currMsgs = 0

SetStage(o, s) == stage' = [stage EXCEPT ![o] = s]

-----------------------------------------------------------------------------
(* Calls of the application threads.                                       *)

\* Mutant: one message more than the limit is let in.
CurrMsgsAdd_OffByOne ==
  /\ currMsgs <= MaxMsgs
  /\ currMsgs' = currMsgs + 1

\* Mutant: an accepted message is not counted.
CurrMsgsAdd_Uncounted ==
  /\ currMsgs + 1 <= MaxMsgs
  /\ UNCHANGED currMsgs

\* rd_kafka_curr_msgs_add without RK_MSG_BLOCK, as produce() uses it.
CurrMsgsAdd ==
  /\ currMsgs + 1 <= MaxMsgs
  /\ currMsgs' = currMsgs + 1

CurrMsgsSub == currMsgs' = currMsgs - 1

\* produce() returns ERR_NO_ERROR: the message is copied and queued.
RkAccept(m) ==
  /\ CurrMsgsAdd
  /\ SetStage(m, "outq")
  /\ UNCHANGED <<status, wire, log>>

\* produce() returns an error.  QUEUE_FULL is one of several reasons (message
\* too large, unknown topic or partition), so an error is always possible.
RkReject(m) ==
  /\ SetStage(m, "rejected")
  /\ UNCHANGED <<status, wire, log, currMsgs>>

\* Mutant: the ops stay on the queue they were taken from.
RkTakeAll_NoReset == UNCHANGED rkVars

\* rd_kafka_q_concat0 inside poll(): all the ops at once become the caller's.
RkTakeAll ==
  /\ stage' = [o \in Ops |-> IF o \in RepQ THEN "taken" ELSE stage[o]]
  /\ UNCHANGED <<status, wire, log, currMsgs>>

\* The callback of op o has returned: the message is freed and leaves the
\* accounting only now.
RkServed(o) ==
  /\ SetStage(o, "done")
  /\ IF o \in Msgs THEN CurrMsgsSub ELSE UNCHANGED currMsgs
  /\ UNCHANGED <<status, wire, log>>

\* rd_kafka_destroy(): disables and purges the queues.  What is still
\* in-queue is never reported; requests already sent may yet reach the broker.
RkDestroy ==
  /\ stage' = [o \in Ops |->
                 IF stage[o] \in InQueue THEN "lost" ELSE stage[o]]
  /\ currMsgs' = 0
  /\ UNCHANGED <<status, wire, log>>

-----------------------------------------------------------------------------
(* The broker threads of librdkafka, the network and the broker.           *)

\* rkm_status is never downgraded: a message that may have been written by an
\* earlier attempt stays possibly persisted whatever a later attempt returns.
MaybeWritten(m) ==
  IF status[m] = "NOT_PERSISTED" THEN "POSSIBLY_PERSISTED" ELSE status[m]

Transmit(m) ==
  /\ stage[m] = "outq"
  /\ SetStage(m, "inflight")
  /\ wire' = wire \cup {m}
  /\ UNCHANGED <<status, log, currMsgs>>

\* The broker handles a request, perhaps long after the client gave up on it.
BrokerAppend(m) ==
  /\ m \in wire
  /\ wire' = wire \ {m}
  /\ log' = log \cup {m}
  /\ UNCHANGED <<stage, status, currMsgs>>

\* The connection breaks: the request never reaches the broker.
RequestLost(m) ==
  /\ m \in wire
  /\ wire' = wire \ {m}
  /\ UNCHANGED <<stage, status, log, currMsgs>>

\* The ProduceResponse arrives without error.
Ack(m) ==
  /\ stage[m] = "inflight"
  /\ m \in log \ wire
  /\ SetStage(m, "repq")
  /\ status' = [status EXCEPT ![m] = "PERSISTED"]
  /\ UNCHANGED <<wire, log, currMsgs>>

\* The broker answers that it has not written the message.  The error is
\* permanent (report it) or retriable (RD_KAFKA_ERR_ACTION_RETRY).  A copy of
\* an earlier attempt may still be on its way.
Refuse(m) ==
  /\ stage[m] = "inflight"
  /\ m \in wire
  /\ \E next \in {"repq", "outq"} : SetStage(m, next)
  /\ \/ wire' = wire \ {m}
     \/ status[m] # "NOT_PERSISTED" /\ wire' = wire
  /\ UNCHANGED <<status, log, currMsgs>>

\* No answer (timeout, disconnect): the message is queued again.
Retry(m) ==
  /\ stage[m] = "inflight"
  /\ SetStage(m, "outq")
  /\ status' = [status EXCEPT ![m] = MaybeWritten(m)]
  /\ UNCHANGED <<wire, log, currMsgs>>

\* message.timeout.ms expires, in the queue or while waiting for an answer.
GiveUp(m) ==
  /\ \/ stage[m] = "outq" /\ UNCHANGED status
     \/ stage[m] = "inflight"
        /\ status' = [status EXCEPT ![m] = MaybeWritten(m)]
  /\ SetStage(m, "repq")
  /\ UNCHANGED <<wire, log, currMsgs>>

\* An event is raised.  Each element of Events is raised once: the bound on
\* the events of a run.
EventArrive(e) ==
  /\ stage[e] = "new"
  /\ SetStage(e, "repq")
  /\ UNCHANGED <<status, wire, log, currMsgs>>

=============================================================================
