------------------------- MODULE ProducerLifecycle -------------------------
(***************************************************************************)
(* What one KafkaProducer object owns over a sequence of initKafka and     *)
(* closeKafka and at its destruction: configurations, handles, polling     *)
(* threads and the send callback (ProducerCallback.cpp).                   *)
(*                                                                         *)
(* Each call of initKafka is a generation g: it allocates configuration g  *)
(* and, when it succeeds, handle g and polling thread g.  All the          *)
(* generations share one EventPoll and one ProducerCallback, members of    *)
(* the object.  What is sent, and by whom, is KafkaProducer's subject:     *)
(* here a handle only has, or has not, reports to deliver.                 *)
(***************************************************************************)
EXTENDS Naturals

CONSTANTS Callbacks,       \* the send callbacks the application may hand over
          Default,         \* the ProducerDefaultSendCallback
          NoCallback,      \* NULL
          MaxInits,        \* bound on the calls of initKafka
          CloseFirst,      \* the application calls closeKafka before it calls
                           \* initKafka again, or the destructor
          FreshCallbacks   \* no callback is handed over twice

ASSUME CallbacksAssumption ==
  /\ Default # NoCallback
  /\ {Default, NoCallback} \cap Callbacks = {}
ASSUME MaxInitsAssumption == MaxInits \in Nat
ASSUME DisciplineAssumption == {CloseFirst, FreshCallbacks} \subseteq BOOLEAN

Gens == 1 .. MaxInits
NULL == 0
Objects == Callbacks \cup {Default}

VARIABLES
  inits,         \* calls of initKafka so far
  alive,         \* the object exists
  pc,            \* where the owner is
  conf,          \* _globalConf: the generation it points to
  producer,      \* producer
  tid,           \* _pollingThreadId
  bRun,          \* _eventPoll.bRun
  evProducer,    \* _eventPoll.producer
  sendCallback,  \* _producerCallback._sendCallback
  isDefault,     \* _producerCallback._isDefaultCallback
  confs,         \* configurations allocated
  handles,       \* handles allocated
  busy,          \* handles that have reports to deliver
  tpc,           \* where each polling thread is
  polling,       \* the handle each polling thread is in poll() of
  calling,       \* the callback each polling thread is running
  handed,        \* callbacks the application has handed over
  mine,          \* the callback the application still has to delete itself
  frees          \* how often each callback object has been deleted

members == <<alive, conf, producer, tid, bRun, evProducer>>
callbacks == <<sendCallback, isDefault, handed, mine, frees>>
heap == <<confs, handles, busy>>
threads == <<tpc, polling, calling>>
vars == <<inits, pc, members, callbacks, heap, threads>>

PCs == {"idle", "drain", "stop", "join", "delete"}
ThreadPCs == {"none", "check", "poll", "callback", "exited"}

\* The last conjunct is part of the promise: nothing is deleted twice.
TypeOK ==
  /\ inits \in 0 .. MaxInits
  /\ alive \in BOOLEAN
  /\ pc \in PCs
  /\ {conf, producer, tid, evProducer} \subseteq Gens \cup {NULL}
  /\ bRun \in BOOLEAN
  /\ sendCallback \in Objects \cup {NoCallback}
  /\ isDefault \in BOOLEAN
  /\ confs \subseteq Gens
  /\ handles \subseteq Gens
  /\ busy \subseteq handles
  /\ tpc \in [Gens -> ThreadPCs]
  /\ polling \in [Gens -> Gens \cup {NULL}]
  /\ calling \in [Gens -> Objects \cup {NoCallback}]
  /\ handed \subseteq Callbacks
  /\ mine \in Callbacks \cup {NoCallback}
  /\ frees \in [Objects -> 0 .. 1]

\* The constructors.  _pollingThreadId is left uninitialised; it is read only
\* after initKafka has set it, so its value does not matter here.
Init ==
  /\ inits = 0
  /\ alive = TRUE
  /\ pc = "idle"
  /\ conf = NULL
  /\ producer = NULL
  /\ tid = NULL
  /\ bRun = FALSE
  /\ evProducer = NULL
  /\ sendCallback = Default
  /\ isDefault = TRUE
  /\ confs = {}
  /\ handles = {}
  /\ busy = {}
  /\ tpc = [g \in Gens |-> "none"]
  /\ polling = [g \in Gens |-> NULL]
  /\ calling = [g \in Gens |-> NoCallback]
  /\ handed = {}
  /\ mine = NoCallback
  /\ frees = [o \in Objects |-> 0]

Free(o) == frees' = [frees EXCEPT ![o] = @ + 1]

-----------------------------------------------------------------------------
(* initKafka                                                               *)

\* Mutant: the callback that is replaced is not deleted.
SetSendCallback_NoDelete(cb) ==
  /\ sendCallback' = cb
  /\ isDefault' = FALSE
  /\ handed' = handed \cup {cb}
  /\ mine' = cb
  /\ UNCHANGED frees

\* ProducerCallback::setSendCallback
SetSendCallback(cb) ==
  /\ Free(sendCallback)
  /\ sendCallback' = cb
  /\ isDefault' = FALSE
  /\ handed' = handed \cup {cb}
  /\ mine' = cb

InitBegin ==
  /\ pc = "idle"
  /\ alive
  /\ CloseFirst => producer = NULL /\ conf = NULL
  /\ inits < MaxInits
  /\ inits' = inits + 1
  /\ conf' = inits + 1
  /\ confs' = confs \cup {inits + 1}

\* bootstrap.servers or event_cb is refused.
InitFailsEarly ==
  /\ InitBegin
  /\ UNCHANGED <<pc, alive, producer, tid, bRun, evProducer, callbacks,
                 handles, busy, threads>>

\* The application hands a callback over, or NULL.
HandOver ==
  \/ UNCHANGED callbacks
  \/ \E cb \in Callbacks :
       (FreshCallbacks => cb \notin handed) /\ SetSendCallback(cb)

\* dr_cb or a value of the configuration map is refused, with the callback
\* already handed over.
InitFailsLate ==
  /\ InitBegin
  /\ HandOver
  /\ UNCHANGED <<pc, alive, producer, tid, bRun, evProducer, handles, busy,
                 threads>>

\* Producer::create returns NULL, which is assigned to producer.
InitNoProducer ==
  /\ InitBegin
  /\ HandOver
  /\ producer' = NULL
  /\ UNCHANGED <<pc, alive, tid, bRun, evProducer, handles, busy, threads>>

InitOK ==
  /\ InitBegin
  /\ HandOver
  /\ producer' = inits'
  /\ handles' = handles \cup {inits'}
  /\ bRun' = TRUE
  /\ evProducer' = inits'
  /\ tid' = inits'
  /\ tpc' = [tpc EXCEPT ![inits'] = "check"]
  /\ UNCHANGED <<pc, alive, busy, polling, calling>>

\* Messages are sent on the handle.
Send ==
  /\ pc = "idle"
  /\ alive
  /\ producer # NULL
  /\ busy' = busy \cup {producer}
  /\ UNCHANGED <<inits, pc, members, callbacks, confs, handles, threads>>

-----------------------------------------------------------------------------
(* EventPoll::eventPoll, in the thread of generation g.  It reads the      *)
(* members of the one EventPoll, whatever generation they are of.          *)

ThreadCheck(g) ==
  /\ tpc[g] = "check"
  /\ tpc' = [tpc EXCEPT ![g] = IF bRun THEN "poll" ELSE "exited"]
  /\ polling' = [polling EXCEPT ![g] = IF bRun THEN evProducer ELSE NULL]
  /\ UNCHANGED <<inits, pc, members, callbacks, heap, calling>>

ThreadPollReturns(g) ==
  /\ tpc[g] = "poll"
  /\ tpc' = [tpc EXCEPT ![g] = "check"]
  /\ polling' = [polling EXCEPT ![g] = NULL]
  /\ UNCHANGED <<inits, pc, members, callbacks, heap, calling>>

\* dr_cb calls success() or fail() of the callback that is in place.
ThreadReport(g) ==
  /\ tpc[g] = "poll"
  /\ polling[g] \in busy
  /\ tpc' = [tpc EXCEPT ![g] = "callback"]
  /\ calling' = [calling EXCEPT ![g] = sendCallback]
  /\ UNCHANGED <<inits, pc, members, callbacks, heap, polling>>

\* It returns; the report may have been the last one of the handle.
ThreadReported(g) ==
  /\ tpc[g] = "callback"
  /\ tpc' = [tpc EXCEPT ![g] = "poll"]
  /\ calling' = [calling EXCEPT ![g] = NoCallback]
  /\ busy' \in {busy, busy \ {polling[g]}}
  /\ UNCHANGED <<inits, pc, members, callbacks, confs, handles, polling>>

-----------------------------------------------------------------------------
(* closeKafka and the destructor                                           *)

CloseBegin ==
  /\ pc = "idle"
  /\ alive
  /\ ~(producer = NULL /\ conf = NULL)
  /\ pc' = "drain"
  /\ UNCHANGED <<inits, members, callbacks, heap, threads>>

\* The owner polls until the handle has nothing left to report.  The reports
\* it serves itself end in the same state.
Drain ==
  /\ pc = "drain"
  /\ pc' = "stop"
  /\ IF producer = NULL THEN UNCHANGED busy
     ELSE /\ \A g \in Gens : tpc[g] = "callback" => polling[g] # producer
          /\ busy' = busy \ {producer}
  /\ UNCHANGED <<inits, members, callbacks, confs, handles, threads>>

\* Mutant: bRun is cleared and the thread is not waited for.
Stop_NoJoin ==
  /\ pc = "stop"
  /\ pc' = "delete"
  /\ bRun' = FALSE
  /\ UNCHANGED <<inits, alive, conf, producer, tid, evProducer, callbacks,
                 heap, threads>>

Stop ==
  /\ pc = "stop"
  /\ pc' = IF bRun /\ tid # NULL THEN "join" ELSE "delete"
  /\ bRun' = FALSE
  /\ UNCHANGED <<inits, alive, conf, producer, tid, evProducer, callbacks,
                 heap, threads>>

Join ==
  /\ pc = "join"
  /\ tpc[tid] = "exited"
  /\ pc' = "delete"
  /\ UNCHANGED <<inits, members, callbacks, heap, threads>>

Delete ==
  /\ pc = "delete"
  /\ pc' = "idle"
  /\ handles' = handles \ {producer}
  /\ confs' = confs \ {conf}
  /\ busy' = busy \ {producer}
  /\ producer' = NULL
  /\ conf' = NULL
  /\ UNCHANGED <<inits, alive, tid, bRun, evProducer, callbacks, threads>>

\* Mutant: the destructor deletes the callback whoever made it.
Destroy_Always ==
  /\ pc = "idle"
  /\ alive
  /\ CloseFirst => producer = NULL /\ conf = NULL
  /\ alive' = FALSE
  /\ Free(sendCallback)
  /\ sendCallback' = NoCallback
  /\ UNCHANGED <<inits, pc, conf, producer, tid, bRun, evProducer, isDefault,
                 handed, mine, heap, threads>>

\* wait_destroyed(5000) waits and deletes nothing; then the members are
\* destroyed, of which ProducerCallback deletes the callback it made itself.
Destroy ==
  /\ pc = "idle"
  /\ alive
  /\ CloseFirst => producer = NULL /\ conf = NULL
  /\ alive' = FALSE
  /\ IF isDefault THEN Free(sendCallback) /\ sendCallback' = NoCallback
     ELSE UNCHANGED <<sendCallback, frees>>
  /\ UNCHANGED <<inits, pc, conf, producer, tid, bRun, evProducer, isDefault,
                 handed, mine, heap, threads>>

\* What is left to the application is the callback it handed over last.
AppDelete ==
  /\ ~alive
  /\ mine # NoCallback
  /\ Free(mine)
  /\ mine' = NoCallback
  /\ UNCHANGED <<inits, pc, members, sendCallback, isDefault, handed, heap,
                 threads>>

-----------------------------------------------------------------------------

Thread(g) ==
  \/ ThreadCheck(g)
  \/ ThreadPollReturns(g)
  \/ ThreadReport(g)
  \/ ThreadReported(g)

Next ==
  \/ InitFailsEarly
  \/ InitFailsLate
  \/ InitNoProducer
  \/ InitOK
  \/ Send
  \/ \E g \in Gens : Thread(g)
  \/ CloseBegin
  \/ Drain
  \/ Stop
  \/ Join
  \/ Delete
  \/ Destroy
  \/ AppDelete

Spec == Init /\ [][Next]_vars

-----------------------------------------------------------------------------
(* Properties, of an application that closes first and does not hand a     *)
(* callback over twice.                                                    *)

Running(g) == tpc[g] \notin {"none", "exited"}

\* Whatever initialisations failed and at which step, no polling thread
\* polls a deleted handle, runs a deleted callback, or outlives the object
\* whose EventPoll it reads.
NoUseAfterFree ==
  \A g \in Gens :
    /\ tpc[g] \in {"poll", "callback"} => polling[g] \in handles
    /\ tpc[g] = "callback" => frees[calling[g]] = 0
    /\ Running(g) => alive

\* Once the object is destroyed nothing it made or was given is left: no
\* handle, no configuration, no thread, no callback but the one handed over
\* last, which stays the application's.
NothingLeft ==
  ~alive =>
    /\ handles = {} /\ confs = {}
    /\ \A g \in Gens : ~Running(g)
    /\ \A o \in handed \cup {Default} : o # mine => frees[o] = 1

=============================================================================
