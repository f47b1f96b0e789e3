------------------------------ MODULE EnqOnce ------------------------------
(***************************************************************************)
(* rdkafka_queue.h: rd_kafka_enq_once_t, an op that several sources (a     *)
(* timer, a broker that comes up, ...) may trigger and that is enqueued by *)
(* the first of them only, together with the queues it is enqueued on.     *)
(*                                                                         *)
(* One eonce.  Its owner creates it, hands out references to sources, and  *)
(* gives it up; a source triggers once, from any thread.  Each action is   *)
(* the section under eonce->lock; the enqueue that follows a trigger is    *)
(* made of OpQueue's steps.                                                *)
(***************************************************************************)
EXTENDS OpQueue

CONSTANTS Sources,    \* what may trigger the eonce
          EonceOwner, \* the thread that owns it
          EonceOps    \* the ops it is made for

ASSUME SourcesAssumption == IsFiniteSet(Sources)
ASSUME EonceOwnerAssumption == EonceOwner \in Threads
ASSUME EonceOpsAssumption == EonceOps \subseteq Ops

VARIABLES erefcnt,   \* eonce->refcnt
          erko,      \* eonce->rko
          ereplyq,   \* eonce->replyq.q
          emade,     \* rd_kafka_enq_once_new has been called
          efreed,    \* rd_kafka_enq_once_destroy0 has been called
          eowned,    \* the owner holds its reference
          sources    \* the sources that hold one

eVars == <<erefcnt, erko, ereplyq, emade, efreed, eowned, sources>>
vars == <<qVars, eVars>>

TypeOK ==
  /\ QTypeOK
  /\ erefcnt \in Nat
  /\ erko \in Ops \cup {NoOp}
  /\ ereplyq \in Queues \cup {NoQueue}
  /\ emade \in BOOLEAN
  /\ efreed \in BOOLEAN
  /\ eowned \in BOOLEAN
  /\ sources \subseteq Sources

Init ==
  /\ QInit
  /\ erefcnt = 0
  /\ erko = NoOp
  /\ ereplyq = NoQueue
  /\ emade = FALSE
  /\ efreed = FALSE
  /\ eowned = FALSE
  /\ sources = {}

-----------------------------------------------------------------------------

\* The owner of the eonce, between two calls.
Owner(t) == t = EonceOwner /\ pc[t] = "idle"

\* rd_kafka_enq_once_new, with a replyq made for it.
New(t, o, q) ==
  /\ Owner(t)
  /\ ~emade
  /\ o \in EonceOps \ sent
  /\ owned[q]
  /\ sent' = sent \cup {o}
  /\ Keep(q)
  /\ erko' = o
  /\ ereplyq' = q
  /\ erefcnt' = 1
  /\ emade' = TRUE
  /\ eowned' = TRUE
  /\ UNCHANGED <<ops, qlen, ready, nudged, fwd, freed, owned, replyq, settled,
                 answering, ahead, threadVars, efreed, sources>>

\* Mutant: the source is not counted.
AddSource_NoRef(t, s) ==
  /\ Owner(t)
  /\ eowned
  /\ s \notin sources
  /\ sources' = sources \cup {s}
  /\ UNCHANGED <<qVars, erefcnt, erko, ereplyq, emade, efreed, eowned>>

\* rd_kafka_enq_once_add_source
AddSource(t, s) ==
  /\ Owner(t)
  /\ eowned
  /\ s \notin sources
  /\ sources' = sources \cup {s}
  /\ erefcnt' = erefcnt + 1
  /\ UNCHANGED <<qVars, erko, ereplyq, emade, efreed, eowned>>

\* The source's reference is dropped, and the eonce freed if it was the last.
DropSource(s) ==
  /\ s \in sources
  /\ sources' = sources \ {s}
  /\ erefcnt' = erefcnt - 1
  /\ efreed' = (erefcnt = 1)

\* rd_kafka_enq_once_del_source, by an owner that undoes add_source, and
\* rd_kafka_enq_once_del_source_return, by a source on the owner's thread
\* (what it returns stays the owner's).
DelSource(t, s) ==
  /\ Owner(t)
  /\ DropSource(s)
  /\ UNCHANGED <<qVars, erko, ereplyq, emade, eowned>>

\* rd_kafka_enq_once_trigger: op and queue are detached from the eonce, and
\* enqueued by rd_kafka_replyq_enq once the lock is released.
Trigger(t, s) ==
  /\ pc[t] = "idle"
  /\ DropSource(s)
  /\ \/ /\ erko = NoOp
        /\ UNCHANGED <<threadVars, ahead, erko, ereplyq>>
     \/ /\ erko # NoOp
        /\ SetOut(t, erko, ereplyq)
        /\ erko' = NoOp
        /\ ereplyq' = NoQueue
        /\ UNCHANGED local
  /\ UNCHANGED <<queueVars, replyq, sent, settled, answering, emade, eowned>>

\* rd_kafka_enq_once_reenable: the owner is given the op to handle, and sets
\* the eonce up again with it.  The queue it had was detached by the trigger.
Reenable(t, q) ==
  /\ t = EonceOwner
  /\ pc[t] = "serve"
  /\ eowned
  /\ erko = NoOp
  /\ owned[q]
  /\ \E o \in Ops :
       local[t] # <<>> /\ o = Head(local[t]) /\ replyq[o] = NoQueue /\ erko' = o
  /\ local' = [local EXCEPT ![t] = Tail(@)]
  /\ ereplyq' = q
  /\ Keep(q)
  /\ UNCHANGED <<ops, qlen, ready, nudged, fwd, freed, owned, opVars, pc, at,
                 path, carry, erefcnt, emade, efreed, eowned, sources>>

\* Mutant: the queue reference of the op is not dropped.
Disown_KeepQueue(t) ==
  /\ Owner(t)
  /\ eowned
  /\ eowned' = FALSE
  /\ erefcnt' = erefcnt - 1
  /\ efreed' = (erefcnt = 1)
  /\ settled' = settled \cup ({erko} \ {NoOp})
  /\ erko' = NoOp
  /\ ereplyq' = NoQueue
  /\ UNCHANGED <<queueVars, replyq, sent, answering, ahead, threadVars, emade,
                 sources>>

\* rd_kafka_enq_once_destroy and rd_kafka_enq_once_disable: the owner gives the
\* eonce up and takes the op back, if nobody has triggered it, to destroy or to
\* handle it itself.
Disown(t) ==
  /\ Owner(t)
  /\ eowned
  /\ eowned' = FALSE
  /\ erefcnt' = erefcnt - 1
  /\ efreed' = (erefcnt = 1)
  /\ settled' = settled \cup ({erko} \ {NoOp})
  /\ erko' = NoOp
  /\ ereplyq' = NoQueue
  /\ IF ereplyq = NoQueue THEN UNCHANGED refcnt ELSE Drop(ereplyq)
  /\ UNCHANGED <<ops, qlen, ready, nudged, fwd, freed, owned, replyq, sent,
                 answering, ahead, threadVars, emade, sources>>

-----------------------------------------------------------------------------

EonceStep(t) ==
  \/ \E o \in Ops, q \in Queues : New(t, o, q)
  \/ \E s \in Sources : AddSource(t, s) \/ DelSource(t, s) \/ Trigger(t, s)
  \/ \E q \in Queues : Reenable(t, q)
  \/ Disown(t)

\* The eonce has no part in it.
Q(step) == step /\ UNCHANGED eVars

Next ==
  \/ Q(QNext)
  \/ \E t \in Threads : EonceStep(t)

Spec == Init /\ [][Next]_vars

\* A thread in a call is scheduled, an owner polls its queue again unless it
\* gives it up, and what has to be answered is answered, whatever else the
\* threads do between two calls.  Nothing says that a wait times out.
FairSpec ==
  /\ Spec
  /\ \A t \in Threads :
       WF_vars(Q(CallStep(t))) /\ SF_vars(Q(\E o \in Ops : Reply(t, o)))
  /\ \A q \in Queues : WF_vars(Q(Final(q))) /\ SF_vars(Q(Poll(OwnerOf[q], q)))

-----------------------------------------------------------------------------
(* Properties.                                                             *)

\* Who holds a reference to queue q: its owner, queues that are forwarded to
\* it, ops to be answered there, the eonce, and calls, at some depth.
Owning(q) == IF owned[q] THEN 1 ELSE 0
Arming(q) == IF ereplyq = q THEN 1 ELSE 0
Forwarding(q) == {p \in Queues : fwd[p] = q}
Asking(q) == {o \in Ops : replyq[o] = q}
Calling(q) == UNION {{<<t, i>> : i \in {i \in 1 .. Len(path[t]) :
                                          path[t][i] = q}} : t \in Threads}

\* The reference counter of a queue is the number of its holders, between any
\* two steps of any calls.
RefcntExact ==
  \A q \in Queues :
    refcnt[q] = Owning(q) + Arming(q) + Cardinality(Forwarding(q))
                  + Cardinality(Asking(q)) + Cardinality(Calling(q))

\* Nothing leads to a queue that has been freed, no thread is about to lock it,
\* and nothing was left in it.
NoUseAfterFree ==
  \A q \in Queues : freed[q] =>
    /\ ~owned[q] /\ ereplyq # q
    /\ Forwarding(q) = {} /\ Asking(q) = {} /\ Calling(q) = {}
    /\ \A t \in Threads : at[t] # q
    /\ ops[q] = <<>>

\* Where an op is found: at a stage of its life, with a thread that carries it
\* or has to answer it, and at a position of what a thread has moved out or of
\* a queue.
StageSpots(o) ==
  {x \in {"unsent", "settled", "eonce"} \X {0} :
      \/ x[1] = "unsent" /\ o \notin sent
      \/ x[1] = "settled" /\ o \in settled
      \/ x[1] = "eonce" /\ o = erko}
CarrySpots(o) == {<<"carry", t>> : t \in {s \in Threads : carry[s] = o}}
AnswerSpots(o) == {<<"answer", t>> : t \in {s \in Threads : o \in answering[s]}}
LocalSpots(o) ==
  UNION {{<<t, i>> : i \in {k \in DOMAIN local[t] : local[t][k] = o}} : t \in Threads}
ListSpots(o) ==
  UNION {{<<q, i>> : i \in {k \in DOMAIN ops[q] : ops[q][k] = o}} : q \in Queues}
Spots(o) ==
  StageSpots(o) \cup CarrySpots(o) \cup AnswerSpots(o) \cup LocalSpots(o) \cup ListSpots(o)

\* Every op is in one place: not sent, on the eonce, carried by a thread,
\* waiting in a queue, moved out of it, being handled, or settled.  The length
\* of a queue is the number of those that wait in it.
OnePlace ==
  /\ \A o \in Ops : Cardinality(Spots(o)) = 1
  /\ \A q \in Queues : qlen[q] = Len(ops[q])

\* An op without priority never overtakes one that waited, when its call began,
\* where that call leads: not while it follows forwards that are set and taken
\* away, nor when lists are concatenated, moved out and put back.  (Where all
\* forwards lead to one queue.  Otherwise a third queue that takes the op while
\* the forwards change may be concatenated before the one with the earlier op.)
NoOvertaking ==
  \A q \in Queues : \A j \in DOMAIN ops[q] : \A i \in 1 .. j - 1 :
    ops[q][j] \notin ahead[ops[q][i]]

\* A queue that its owner has disabled and purged stays empty: nothing is left
\* on a queue that nobody polls.  (Only a put-back of another thread could
\* leave something: it does not look at READY.)
NothingStranded ==
  \A q \in Queues :
    ops[q] # <<>> => owned[q] \/ \E t \in Threads : pc[t] = "purge"

\* The assertions of rd_kafka_enq_once_destroy0 and del_source_return.
EonceAsserts ==
  /\ erefcnt = Cardinality(sources) + IF eowned THEN 1 ELSE 0
  /\ efreed <=> emade /\ erefcnt = 0
  /\ ~emade => erefcnt = 0
  /\ ~eowned => erko = NoOp
  /\ erko = NoOp <=> ereplyq = NoQueue

InPlay(o) == \/ \E t \in Threads : \/ o \in answering[t] \cup Range(local[t])
                                   \/ o = carry[t]
             \/ \E q \in Queues : o \in Range(ops[q])

\* An op that is on its way is served, destroyed or given back to its eonce in
\* the end, whatever is forwarded, disabled and destroyed in the meantime.
OpsEnd == \A o \in Ops : InPlay(o) ~> ~InPlay(o)

\* When the owners have given up every queue and the eonce, the last reference
\* to each queue is dropped in the end, and it is freed: no op that waits in a
\* queue keeps the queue of its own reply alive for ever.
AllFreed ==
  (\A q \in Queues : ~owned[q]) /\ ~eowned ~> \A q \in Queues : freed[q]
=============================================================================
