--------------------------- MODULE KafkaProducer ---------------------------
(***************************************************************************)
(* KafkaProducer.cpp: the threads of an application around one producer.   *)
(* Owner is the thread that calls initKafka and closeKafka; AppThreads may *)
(* call send and pollEvent; PollThread is the thread initKafka creates to  *)
(* run EventPoll::eventPoll.  Delivery reports and events are served by    *)
(* whatever thread is in poll(): the polling thread, a thread in           *)
(* pollEvent, or the owner draining the queue in closeKafka.               *)
(*                                                                         *)
(* A producer is initialised only when no handle is live, as the example   *)
(* program does.                                                           *)
(***************************************************************************)
EXTENDS RdKafkaProducer, Sequences

CONSTANTS Owner, AppThreads, PollThread,
          NoOp,              \* no op, no message
          Quiesce,           \* closeKafka is called only when no application
                             \* thread is in, or will enter, send or pollEvent
          PollBlocks,        \* initKafka was given nTimeOut = -1
          ThreadCreateFails, \* pthread_create may fail
          ResendInCallback,  \* the send callback may itself call send
          MaxOpens           \* bound on the calls of initKafka

Callers == AppThreads \cup {Owner}
Threads == Callers \cup {PollThread}

ASSUME ThreadsAssumption ==
  /\ IsFiniteSet(AppThreads)
  /\ Owner \notin AppThreads
  /\ PollThread \notin Callers
ASSUME NoOpAssumption == NoOp \notin Ops
ASSUME FlagsAssumption ==
  {Quiesce, PollBlocks, ThreadCreateFails, ResendInCallback} \subseteq BOOLEAN
ASSUME MaxOpensAssumption == MaxOpens \in Nat

VARIABLES producer,  \* KafkaProducer::producer
          conf,      \* KafkaProducer::_globalConf
          bRun,      \* EventPoll::bRun
          tid,       \* KafkaProducer::_pollingThreadId
          closing,   \* the owner is in closeKafka
          opens,     \* number of calls of initKafka
          pc,        \* where each thread is
          batch,     \* ops a thread in poll() took and has yet to serve
          current,   \* the op whose callback a thread is running
          sending,   \* the message a thread is producing
          reports    \* the calls of success and fail made for each message

kpVars == <<producer, conf, bRun, tid, closing, opens>>
thVars == <<pc, batch, current, sending, reports>>
vars == <<rkVars, kpVars, thVars>>

Verdicts == {"success", "fail"}

PCs == {"none",      \* PollThread: not created
        "check",     \* PollThread: while (bRun)
        "exited",    \* PollThread: pthread_exit
        "idle",      \* a caller outside KafkaProducer
        "produce",   \* in producer->produce()
        "poll",      \* in producer->poll(), waiting for ops
        "serve",     \* in producer->poll(), between two callbacks
        "callback",  \* in producer->poll(), in dr_cb or event_cb
        "drain",     \* Owner: while (outq_len() > 0)
        "stop",      \* Owner: if (_eventPoll.bRun)
        "join",      \* Owner: pthread_join
        "delete",    \* Owner: delete producer, delete _globalConf
        "crashed"}   \* the process died, in pthread_join of a bad thread id

TypeOK ==
  /\ RkTypeOK
  /\ producer \in {"NULL", "handle"}
  /\ conf \in {"NULL", "conf"}
  /\ bRun \in BOOLEAN
  /\ tid \in {"zero", "bad", "valid"}
  /\ closing \in BOOLEAN
  /\ opens \in 0 .. MaxOpens
  /\ pc \in [Threads -> PCs]
  /\ batch \in [Threads -> SUBSET Ops]
  /\ current \in [Threads -> Ops \cup {NoOp}]
  /\ sending \in [Threads -> Msgs \cup {NoOp}]
  /\ reports \in [Msgs -> Seq(Verdicts)]

\* The constructor leaves _pollingThreadId uninitialised; EventPoll() clears
\* bRun.
Init ==
  /\ RkInit
  /\ producer = "NULL"
  /\ conf = "NULL"
  /\ bRun = FALSE
  /\ tid \in {"zero", "bad"}
  /\ closing = FALSE
  /\ opens = 0
  /\ pc = [t \in Threads |-> IF t = PollThread THEN "none" ELSE "idle"]
  /\ batch = [t \in Threads |-> {}]
  /\ current = [t \in Threads |-> NoOp]
  /\ sending = [t \in Threads |-> NoOp]
  /\ reports = [m \in Msgs |-> <<>>]

Goto(t, place) == pc' = [pc EXCEPT ![t] = place]

\* Where a thread continues when poll() returns.
Caller(t) ==
  IF t = PollThread THEN "check"
  ELSE IF t = Owner /\ closing THEN "drain" ELSE "idle"

-----------------------------------------------------------------------------
(* initKafka                                                               *)

InitBegin ==
  /\ pc[Owner] = "idle"
  /\ producer = "NULL"
  /\ opens < MaxOpens
  /\ opens' = opens + 1
  /\ conf' = "conf"

\* A configuration value is refused or Producer::create returns NULL: false
\* is returned with _globalConf allocated.
InitFails ==
  /\ InitBegin
  /\ UNCHANGED <<rkVars, thVars, producer, bRun, tid, closing>>

InitOK ==
  /\ InitBegin
  /\ producer' = "handle"
  /\ bRun' = TRUE
  /\ tid' = "valid"
  /\ Goto(PollThread, "check")
  /\ UNCHANGED <<rkVars, closing, batch, current, sending, reports>>

\* pthread_create fails.  It returns a positive error number, which the test
\* "< 0" does not see: initKafka returns true.  The thread id is left
\* indeterminate: what the memory held, or a stale or unusable identifier.
InitNoThread ==
  /\ ThreadCreateFails
  /\ InitBegin
  /\ producer' = "handle"
  /\ bRun' = TRUE
  /\ tid' \in {"zero", "bad"}
  /\ UNCHANGED <<rkVars, thVars, closing>>

-----------------------------------------------------------------------------
(* send                                                                    *)

\* A caller may enter send or pollEvent: there is a handle, and if the
\* application keeps the calling protocol nobody is closing it.
MayEnter(t) ==
  /\ t \in Callers
  /\ pc[t] = "idle"
  /\ Quiesce => ~closing

\* The send callback of a message may send another one.
MayResend(t) ==
  /\ ResendInCallback
  /\ pc[t] = "callback"
  /\ current[t] \in Msgs

\* The headers are built and produce() is entered on the handle, which send
\* does not test: an application that sends without a producer is not modelled.
SendBegin(t) ==
  /\ MayEnter(t) \/ MayResend(t)
  /\ producer = "handle"
  /\ \E m \in Msgs :
       /\ stage[m] = "new"
       /\ \A u \in Threads : sending[u] # m
       /\ sending' = [sending EXCEPT ![t] = m]
  /\ Goto(t, "produce")
  /\ UNCHANGED <<rkVars, kpVars, batch, current, reports>>

\* produce() queues the message (send returns true) or refuses it (send
\* deletes the headers and returns false).  On a deleted handle the call is
\* undefined behaviour, which NoUseAfterDelete excludes.
SendProduce(t) ==
  /\ pc[t] = "produce"
  /\ producer = "handle"
  /\ RkAccept(sending[t]) \/ RkReject(sending[t])
  /\ sending' = [sending EXCEPT ![t] = NoOp]
  /\ Goto(t, IF current[t] = NoOp THEN "idle" ELSE "callback")
  /\ UNCHANGED <<kpVars, batch, current, reports>>

-----------------------------------------------------------------------------
(* poll, from pollEvent, EventPoll::eventPoll or closeKafka                *)

\* pollEvent on a NULL producer returns false and changes nothing.
PollEvent(t) ==
  /\ MayEnter(t)
  /\ producer = "handle"
  /\ Goto(t, "poll")
  /\ UNCHANGED <<rkVars, kpVars, batch, current, sending, reports>>

PollTake(t) ==
  /\ pc[t] = "poll"
  /\ producer = "handle"
  /\ RepQ # {}
  /\ RkTakeAll
  /\ batch' = [batch EXCEPT ![t] = RepQ]
  /\ Goto(t, "serve")
  /\ UNCHANGED <<kpVars, current, sending, reports>>

PollTimeout(t) ==
  /\ pc[t] = "poll"
  /\ producer = "handle"
  /\ RepQ = {}
  /\ ~(t = PollThread /\ PollBlocks)
  /\ Goto(t, Caller(t))
  /\ UNCHANGED <<rkVars, kpVars, batch, current, sending, reports>>

\* Mutant: a message that is only possibly persisted is reported as failed.
Verdict_Strict(m) == IF status[m] = "PERSISTED" THEN "success" ELSE "fail"

\* ProducerCallback::dr_cb: only a message that was certainly not written is
\* reported as failed.
Verdict(m) == IF status[m] = "NOT_PERSISTED" THEN "fail" ELSE "success"

\* The next op of the batch is taken up and its callback entered.
ServeOp(t, o) ==
  /\ pc[t] = "serve"
  /\ producer = "handle"
  /\ o \in batch[t]
  /\ batch' = [batch EXCEPT ![t] = @ \ {o}]
  /\ current' = [current EXCEPT ![t] = o]
  /\ Goto(t, "callback")
  /\ UNCHANGED <<rkVars, kpVars, sending>>

DrCb(t) ==
  \E m \in Msgs :
    /\ ServeOp(t, m)
    /\ reports' = [reports EXCEPT ![m] = Append(@, Verdict(m))]

\* ProducerEventCallback::event_cb only prints.
EventCb(t) == \E e \in Events : ServeOp(t, e) /\ UNCHANGED reports

CallbackReturn(t) ==
  /\ pc[t] = "callback"
  /\ producer = "handle"
  /\ RkServed(current[t])
  /\ current' = [current EXCEPT ![t] = NoOp]
  /\ Goto(t, IF batch[t] = {} THEN Caller(t) ELSE "serve")
  /\ UNCHANGED <<kpVars, batch, sending, reports>>

-----------------------------------------------------------------------------
(* EventPoll::eventPoll                                                    *)

\* Mutant: the condition of the loop is inverted.
ThreadCheck_Inverted ==
  /\ pc[PollThread] = "check"
  /\ Goto(PollThread, IF bRun THEN "exited" ELSE "poll")
  /\ UNCHANGED <<rkVars, kpVars, batch, current, sending, reports>>

ThreadCheck ==
  /\ pc[PollThread] = "check"
  /\ Goto(PollThread, IF bRun THEN "poll" ELSE "exited")
  /\ UNCHANGED <<rkVars, kpVars, batch, current, sending, reports>>

-----------------------------------------------------------------------------
(* closeKafka                                                              *)

CloseBegin ==
  /\ pc[Owner] = "idle"
  /\ ~(producer = "NULL" /\ conf = "NULL")
  /\ Quiesce => \A t \in AppThreads : pc[t] = "idle"
  /\ closing' = TRUE
  /\ Goto(Owner, "drain")
  /\ UNCHANGED <<rkVars, producer, conf, bRun, tid, opens,
                 batch, current, sending, reports>>

Drain ==
  /\ pc[Owner] = "drain"
  /\ Goto(Owner, IF producer = "handle" /\ OutqLen > 0 THEN "poll" ELSE "stop")
  /\ UNCHANGED <<rkVars, kpVars, batch, current, sending, reports>>

\* Mutant: closeKafka does not wait for the polling thread.
Stop_NoJoin ==
  /\ pc[Owner] = "stop"
  /\ bRun' = FALSE
  /\ Goto(Owner, "delete")
  /\ UNCHANGED <<rkVars, producer, conf, tid, closing, opens,
                 batch, current, sending, reports>>

\* Mutant: closeKafka joins the polling thread without telling it to stop.
Stop_StillRunning ==
  /\ pc[Owner] = "stop"
  /\ Goto(Owner, IF bRun /\ tid # "zero" THEN "join" ELSE "delete")
  /\ UNCHANGED <<rkVars, kpVars, batch, current, sending, reports>>

Stop ==
  /\ pc[Owner] = "stop"
  /\ bRun' = FALSE
  /\ Goto(Owner, IF bRun /\ tid # "zero" THEN "join" ELSE "delete")
  /\ UNCHANGED <<rkVars, producer, conf, tid, closing, opens,
                 batch, current, sending, reports>>

Join ==
  /\ pc[Owner] = "join"
  /\ tid = "valid"
  /\ pc[PollThread] = "exited"
  /\ Goto(Owner, "delete")
  /\ UNCHANGED <<rkVars, kpVars, batch, current, sending, reports>>

\* pthread_join of an identifier that names no thread is undefined behaviour:
\* it fails with ESRCH, which is ignored, or the process dies.
JoinBad ==
  /\ pc[Owner] = "join"
  /\ tid = "bad"
  /\ \/ Goto(Owner, "delete")
     \/ pc' = [t \in Threads |-> "crashed"]
  /\ UNCHANGED <<rkVars, kpVars, batch, current, sending, reports>>

Delete ==
  /\ pc[Owner] = "delete"
  /\ IF producer = "handle" THEN RkDestroy ELSE UNCHANGED rkVars
  /\ producer' = "NULL"
  /\ conf' = "NULL"
  /\ closing' = FALSE
  /\ Goto(Owner, "idle")
  /\ UNCHANGED <<bRun, tid, opens, batch, current, sending, reports>>

-----------------------------------------------------------------------------

\* The process runs: a crash takes every thread with it.
Alive == pc[Owner] # "crashed"

\* The broker threads of a live handle.
BrokerThreads ==
  /\ Alive
  /\ producer = "handle"
  /\ \/ \E m \in Msgs :
          Transmit(m) \/ Ack(m) \/ Refuse(m) \/ Retry(m) \/ GiveUp(m)
     \/ \E e \in Events : EventArrive(e)
  /\ UNCHANGED <<kpVars, thVars>>

\* Requests already sent outlive the handle and the process.
Network ==
  /\ \E m \in Msgs : BrokerAppend(m) \/ RequestLost(m)
  /\ UNCHANGED <<kpVars, thVars>>

\* The steps of a thread inside the library.
InLibrary(t) ==
  \/ SendProduce(t)
  \/ PollTake(t)
  \/ PollTimeout(t)
  \/ DrCb(t)
  \/ EventCb(t)
  \/ CallbackReturn(t)

CloseStep == Drain \/ Stop \/ Join \/ JoinBad \/ Delete

\* Nothing is left to do: the process has died, or the last producer has been
\* closed, and no request is on its way to the broker.
Quiet ==
  /\ wire = {}
  /\ ~Alive \/ (producer = "NULL" /\ conf = "NULL" /\ opens = MaxOpens)
  /\ UNCHANGED vars

Next ==
  \/ InitFails
  \/ InitOK
  \/ InitNoThread
  \/ \E t \in Threads : SendBegin(t) \/ PollEvent(t) \/ InLibrary(t)
  \/ ThreadCheck
  \/ CloseBegin
  \/ CloseStep
  \/ BrokerThreads
  \/ Network
  \/ Quiet

Spec == Init /\ [][Next]_vars

\* message.timeout.ms is finite.
Expire(m) ==
  /\ Alive
  /\ producer = "handle"
  /\ GiveUp(m)
  /\ UNCHANGED <<kpVars, thVars>>

\* Threads that are in the library or in closeKafka are scheduled, and every
\* message expires.  Nothing obliges the application to make a call, nor the
\* broker to answer.
FairSpec ==
  /\ Spec
  /\ \A t \in Threads : WF_vars(InLibrary(t))
  /\ WF_vars(CloseStep)
  /\ WF_vars(ThreadCheck)
  /\ \A m \in Msgs : WF_vars(Expire(m))

-----------------------------------------------------------------------------
(* Safety.                                                                 *)

\* send() has accepted m.
Accepted == {m \in Msgs : stage[m] \notin {"new", "rejected"}}

\* After closeKafka every message that send() accepted has been reported, and
\* once: the drain loop waits for the callbacks to return, not for the reply
\* queue to be empty, and another thread may be serving the last report.
ClosedMeansReported ==
  producer = "NULL" => \A m \in Accepted : Len(reports[m]) = 1

\* No thread is inside the handle when closeKafka has deleted it: the polling
\* thread is joined, and the other threads are out of send and pollEvent.
NoUseAfterDelete ==
  producer = "NULL" =>
    \A t \in Threads : pc[t] \notin {"produce", "poll", "serve", "callback"}

\* The counter that bounds the queue and that the drain loop reads counts the
\* messages whose callback has not returned, however accepts, refusals and
\* callbacks of several threads interleave, and it never passes the limit.
OutqCounts ==
  /\ currMsgs = Cardinality(Outstanding)
  /\ currMsgs <= MaxMsgs

\* A report that a thread took from the reply queue is in the hands of that
\* thread alone: polling from several threads serves no report twice, and
\* none is dropped between the queue and its callback.
TakenByOne ==
  \A o \in Ops :
    Cardinality({t \in Threads : o \in batch[t] \cup {current[t]}}) =
      IF stage[o] = "taken" THEN 1 ELSE 0

\* A message reported through fail() is neither in the log nor on its way to
\* the broker, whatever attempts were made before: sending it again from the
\* callback does not duplicate it.
FailMeansNotWritten ==
  \A m \in Msgs : reports[m] = <<"fail">> => m \notin wire \cup log

\* A message reported through success() is in the topic log.  It is not so:
\* dr_cb calls success() for a message that is only possibly persisted.
SuccessMeansWritten ==
  \A m \in Msgs : reports[m] = <<"success">> => m \in log

\* When initKafka has returned true the polling thread runs until closeKafka.
\* It is not so: the failure of pthread_create goes unnoticed.
InitStartsPolling ==
  producer = "handle" /\ ~closing => pc[PollThread] \notin {"none", "exited"}

-----------------------------------------------------------------------------
(* What the component promises.                                            *)

Contract == INSTANCE DeliveryContract
              WITH open <- producer = "handle",
                   accepted <- Accepted,
                   result <- reports,
                   written <- log

\* Every behaviour of the producer is one the contract allows.
ImplementsContract == Contract!Spec

-----------------------------------------------------------------------------
(* Liveness, under FairSpec.                                               *)

\* closeKafka returns: the drain loop empties the queue and the polling
\* thread notices bRun and exits.
CloseTerminates == closing ~> ~closing

\* Every message send() accepts is eventually reported, without any help of
\* the application: the polling thread serves it.
EveryAcceptedReported ==
  \A m \in Msgs : m \in Accepted ~> reports[m] # <<>>
=============================================================================
