--------------------------- MODULE KafkaConsumer ---------------------------
(***************************************************************************)
(* KafkaConsumer.cpp: processes that each run one KafkaConsumer from one   *)
(* thread, as the example program does, die and are started again.  The    *)
(* processes share a group.id (consumerId), so they share a partition.     *)
(*                                                                         *)
(* A consumer is initialised again only after closeKafka, or after an      *)
(* initKafka that returned false.                                          *)
(***************************************************************************)
EXTENDS RdKafkaConsumer

CONSTANT CloseAfterFailure  \* closeKafka is called after a failed initKafka

ASSUME CloseAfterFailureAssumption == CloseAfterFailure \in BOOLEAN

VARIABLES consumer,   \* KafkaConsumer::consumer
          conf,       \* KafkaConsumer::_globalConf
          started,    \* initKafka has returned true
          pc,         \* where the thread of each process is
          message,    \* the message consume() is handling
          unfreed,    \* Message objects not deleted yet
          received,   \* history: the offsets consume() has returned
          dropped     \* history: the offsets consume() was handling when its
                      \* process died

objVars == <<consumer, conf, started>>
history == <<received, dropped>>
vars == <<rkVars, objVars, pc, message, unfreed, history>>

PCs == {"idle",    \* outside KafkaConsumer
        "switch",  \* in consume, with what consumer->consume() returned
        "close",   \* in closeKafka, at consumer->close()
        "delete",  \* in closeKafka, after close()
        "dead"}    \* the process has died

\* What consumer->consume() returns when it has no record: an error event, or
\* ERR__TIMED_OUT after the poll period.
ErrorEvent == -2

TypeOK ==
  /\ RkTypeOK
  /\ consumer \in [Consumers -> {"NULL", "handle"}]
  /\ conf \in [Consumers -> {"NULL", "conf"}]
  /\ started \in [Consumers -> BOOLEAN]
  /\ pc \in [Consumers -> PCs]
  /\ message \in [Consumers -> Offsets \cup {None, ErrorEvent}]
  /\ unfreed \in [Consumers -> 0 .. 1]
  /\ received \subseteq Offsets
  /\ dropped \subseteq Offsets

Init ==
  /\ RkInit
  /\ consumer = [c \in Consumers |-> "NULL"]
  /\ conf = [c \in Consumers |-> "NULL"]
  /\ started = [c \in Consumers |-> FALSE]
  /\ pc = [c \in Consumers |-> "idle"]
  /\ message = [c \in Consumers |-> None]
  /\ unfreed = [c \in Consumers |-> 0]
  /\ received = {}
  /\ dropped = {}

Goto(c, place) == pc' = [pc EXCEPT ![c] = place]

-----------------------------------------------------------------------------
(* initKafka                                                               *)

\* The configuration is created, over whatever a failed call left.
InitBegin(c) ==
  /\ pc[c] = "idle"
  /\ ~started[c]
  /\ conf' = [conf EXCEPT ![c] = "conf"]

\* A configuration value is refused: consumer is left as it was.
InitFails(c) ==
  /\ InitBegin(c)
  /\ UNCHANGED <<rkVars, consumer, started, pc, message, unfreed, history>>

\* KafkaConsumer::create returns NULL.
InitNoConsumer(c) ==
  /\ InitBegin(c)
  /\ consumer' = [consumer EXCEPT ![c] = "NULL"]
  /\ UNCHANGED <<rkVars, started, pc, message, unfreed, history>>

\* subscribe refuses the list of topics: the consumer stays, out of the group.
InitNoSubscription(c) ==
  /\ InitBegin(c)
  /\ consumer' = [consumer EXCEPT ![c] = "handle"]
  /\ UNCHANGED <<rkVars, started, pc, message, unfreed, history>>

InitOK(c) ==
  /\ InitBegin(c)
  /\ consumer' = [consumer EXCEPT ![c] = "handle"]
  /\ started' = [started EXCEPT ![c] = TRUE]
  /\ UNCHANGED <<rkVars, pc, message, unfreed, history>>

-----------------------------------------------------------------------------
(* consume                                                                 *)

\* consumer->consume() returns a Message that the caller must delete.
NewMessage(c, m) ==
  /\ pc[c] = "idle"
  /\ started[c]
  /\ message' = [message EXCEPT ![c] = m]
  /\ unfreed' = [unfreed EXCEPT ![c] = @ + 1]
  /\ Goto(c, "switch")
  /\ UNCHANGED <<objVars, history>>

Fetch(c) == NewMessage(c, position[c]) /\ RkFetch(c)

FetchError(c) == NewMessage(c, ErrorEvent) /\ UNCHANGED rkVars

DeleteMessage(c) ==
  /\ message' = [message EXCEPT ![c] = None]
  /\ unfreed' = [unfreed EXCEPT ![c] = @ - 1]

\* Mutant: the message of the failed call is not deleted.
ConsumeFails_NoDelete(c) ==
  /\ pc[c] = "switch"
  /\ message[c] = ErrorEvent
  /\ message' = [message EXCEPT ![c] = None]
  /\ Goto(c, "idle")
  /\ UNCHANGED <<rkVars, objVars, unfreed, history>>

\* consume returns false.
ConsumeFails(c) ==
  /\ pc[c] = "switch"
  /\ message[c] = ErrorEvent
  /\ DeleteMessage(c)
  /\ Goto(c, "idle")
  /\ UNCHANGED <<rkVars, objVars, history>>

\* Mutant: a message without headers is taken for a failure.
ConsumeReturns_NoHeaders(c) ==
  /\ pc[c] = "switch"
  /\ message[c] \in Offsets \ keyless
  /\ received' \in {received, received \cup {message[c]}}
  /\ DeleteMessage(c)
  /\ Goto(c, "idle")
  /\ UNCHANGED <<rkVars, objVars, dropped>>

\* Key, headers and body are copied into the ReceivedMessage, the message is
\* deleted and consume returns true.
ConsumeReturns(c) ==
  /\ pc[c] = "switch"
  /\ message[c] \in Offsets \ keyless
  /\ received' = received \cup {message[c]}
  /\ DeleteMessage(c)
  /\ Goto(c, "idle")
  /\ UNCHANGED <<rkVars, objVars, dropped>>

-----------------------------------------------------------------------------
(* closeKafka                                                              *)

CloseBegin(c) ==
  /\ pc[c] = "idle"
  /\ ~(consumer[c] = "NULL" /\ conf[c] = "NULL")
  /\ CloseAfterFailure \/ started[c]
  /\ Goto(c, "close")
  /\ UNCHANGED <<rkVars, objVars, message, unfreed, history>>

\* consumer->close() on a consumer that exists.
CloseConsumer(c) ==
  /\ pc[c] = "close"
  /\ consumer[c] = "handle"
  /\ RkClose(c)
  /\ Goto(c, "delete")
  /\ UNCHANGED <<objVars, message, unfreed, history>>

\* delete consumer blocks while a message has not been deleted.
Delete(c) ==
  /\ pc[c] = "delete"
  /\ unfreed[c] = 0
  /\ consumer' = [consumer EXCEPT ![c] = "NULL"]
  /\ conf' = [conf EXCEPT ![c] = "NULL"]
  /\ started' = [started EXCEPT ![c] = FALSE]
  /\ Goto(c, "idle")
  /\ UNCHANGED <<rkVars, message, unfreed, history>>

-----------------------------------------------------------------------------
(* Death and restart of a process.                                         *)

\* Nothing of the process is left; the group does not know yet.
Perish(c) ==
  /\ Goto(c, "dead")
  /\ dropped' = dropped \cup ({message[c]} \cap Offsets)
  /\ message' = [message EXCEPT ![c] = None]
  /\ unfreed' = [unfreed EXCEPT ![c] = 0]
  /\ consumer' = [consumer EXCEPT ![c] = "NULL"]
  /\ conf' = [conf EXCEPT ![c] = "NULL"]
  /\ started' = [started EXCEPT ![c] = FALSE]
  /\ Forget(c)
  /\ UNCHANGED <<groupVars, received>>

\* The process is killed, or ends without closeKafka: the destructor does not
\* close the consumer.
Die(c) == pc[c] # "dead" /\ Perish(c)

\* consume dereferences message->key(), which is NULL.
NullKey(c) ==
  /\ pc[c] = "switch"
  /\ message[c] \in keyless
  /\ Perish(c)

\* closeKafka calls consumer->close() before it tests consumer.
NullClose(c) ==
  /\ pc[c] = "close"
  /\ consumer[c] = "NULL"
  /\ Perish(c)

Restart(c) ==
  /\ pc[c] = "dead"
  /\ Goto(c, "idle")
  /\ UNCHANGED <<rkVars, objVars, message, unfreed, history>>

-----------------------------------------------------------------------------

ConsumeStep(c) == ConsumeFails(c) \/ ConsumeReturns(c) \/ NullKey(c)
CloseStep(c) == CloseConsumer(c) \/ Delete(c) \/ NullClose(c)

\* The threads of librdkafka and the coordinator.  A member joins the group
\* once it has subscribed.
Library(c) ==
  /\ \/ started[c] /\ pc[c] \in {"idle", "switch"} /\ Assign(c)
     \/ AutoCommit(c)
     \/ Revoke(c)
     \/ Expel(c)
     \/ Notice(c)
  /\ UNCHANGED <<objVars, pc, message, unfreed, history>>

Producers == Append /\ UNCHANGED <<objVars, pc, message, unfreed, history>>

Next ==
  \/ \E c \in Consumers :
       \/ InitFails(c)
       \/ InitNoConsumer(c)
       \/ InitNoSubscription(c)
       \/ InitOK(c)
       \/ Fetch(c)
       \/ FetchError(c)
       \/ ConsumeStep(c)
       \/ CloseBegin(c)
       \/ CloseStep(c)
       \/ Die(c)
       \/ Restart(c)
       \/ Library(c)
  \/ Producers

Spec == Init /\ [][Next]_vars

\* A thread in consume or closeKafka is scheduled.
FairSpec ==
  /\ Spec
  /\ \A c \in Consumers : WF_vars(ConsumeStep(c)) /\ WF_vars(CloseStep(c))

\* The offsets being handled by some consume().
Held == {message[c] : c \in Consumers} \cap Offsets

-----------------------------------------------------------------------------
(* What a consumer that has the group to itself promises.                  *)

Contract == INSTANCE ConsumeContract
              WITH written <- end,
                   open <- \E c \in Consumers : started[c],
                   delivered <- received,
                   lost <- {o \in Offsets : o < committed}
                             \ (received \cup Held)

\* With one member and auto.offset.reset=earliest, every behaviour of the
\* consumer is one the contract allows: deaths and restarts, expulsions and
\* commits at any moment lose one record at most each, and none is overtaken.
ImplementsContract == Contract!Spec

-----------------------------------------------------------------------------
(* Properties.                                                             *)

\* No offset the group has committed is lost, however rebalances, expelled
\* members, commits, closes and restarts interleave: consume() has returned
\* it, or is about to, or its process died in consume(), or it was there
\* before the group's first offset and auto.offset.reset jumped over it.
LossOnlyByDeath ==
  \A o \in Offsets :
    o < committed => o \in received \cup Held \cup dropped \cup skipped

\* What the members of a group have returned together has no gap but what is
\* still being handled: the member that takes the partition over does not run
\* ahead of what the others were given.  (A record may be returned after a
\* later one: its member was handling it when the partition moved.)
NoGap ==
  \A o \in received : \A p \in 0 .. o - 1 :
    p \in received \cup Held \cup dropped \cup skipped

\* closeKafka calls close() on a consumer that exists.  It is not so after an
\* initKafka that created the configuration only.
CloseHasConsumer ==
  \A c \in Consumers : pc[c] = "close" => consumer[c] = "handle"

\* closeKafka returns: consume() leaves no message behind that would block
\* the deletion of the consumer.
CloseReturns ==
  \A c \in Consumers : pc[c] \in {"close", "delete"} ~> pc[c] \in {"idle", "dead"}

=============================================================================
