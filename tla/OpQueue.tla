------------------------------ MODULE OpQueue ------------------------------
(***************************************************************************)
(* rdkafka_queue.h: the op queues through which the threads of librdkafka  *)
(* and of the application talk.  A delivery report reaches the wrapper's   *)
(* polling thread, and a record its consume(), through one of them.        *)
(*                                                                         *)
(* A queue is owned by the thread that polls it.  Everybody else holds a   *)
(* counted reference: a call that is on its way to the queue, a queue that *)
(* is forwarded to it, an op that wants its reply there, an eonce (module  *)
(* EnqOnce).  A call follows the forwards queue by queue, keeping each one *)
(* and letting go of the lock before it takes the next, so that forwards,  *)
(* disables and destructions come in between.                              *)
(*                                                                         *)
(* Each action is one section of a call under one queue's lock (concat and *)
(* prepend hold the locks of both queues).  rd_kafka_q_serve, _purge0,     *)
(* _fwd_set0, _destroy_final and the ops' handlers are not in the          *)
(* repository: they are modelled from how the header uses and documents    *)
(* them.  Timeouts, IO events, op sizes and versions are left out.         *)
(***************************************************************************)
EXTENDS Integers, Sequences, SequencesExt

CONSTANTS Queues,
          Ops,       \* each op is sent once
          Threads,
          NoQueue,   \* NULL, for a queue
          NoOp,      \* NULL, for an op
          Prio,      \* rko_prio of each op
          OwnerOf,   \* the thread that owns, and polls, each queue
          Sends,     \* the triples <<t, q, o>> such that t sends o to q
          Forwards,  \* the pairs <<q, d>> such that q is forwarded to d
          Nudgers,   \* the threads that call rd_kafka_q_yield
          Yielding   \* the threads whose callbacks call rd_kafka_yield

ASSUME SetsAssumption ==
  IsFiniteSet(Queues) /\ IsFiniteSet(Ops) /\ IsFiniteSet(Threads)
ASSUME NullAssumption == NoQueue \notin Queues /\ NoOp \notin Ops
ASSUME PrioAssumption == Prio \in [Ops -> 0 .. 3]
ASSUME OwnerAssumption == OwnerOf \in [Queues -> Threads]
ASSUME CallsAssumption ==
  Sends \subseteq Threads \X Queues \X Ops /\ Forwards \subseteq Queues \X Queues
ASSUME YieldingAssumption == Nudgers \cup Yielding \subseteq Threads

VARIABLES
  \* rd_kafka_q_t
  ops,       \* rkq_q: the ops that wait, first one first
  qlen,      \* rkq_qlen
  ready,     \* RD_KAFKA_Q_F_READY
  nudged,    \* RD_KAFKA_Q_F_YIELD
  fwd,       \* rkq_fwdq
  refcnt,    \* rkq_refcnt
  freed,     \* rd_kafka_q_destroy_final has freed it
  owned,     \* the owner still holds its reference
  \* rd_kafka_op_t
  replyq,    \* rko_replyq.q
  sent,      \* ops that have been sent
  settled,   \* ops that have been served, or destroyed unserved
  answering, \* ops each thread has handled and still has to answer
  ahead,     \* history: the ops that each one may not overtake
  \* threads
  pc,        \* the call each thread is in
  at,        \* the queue whose lock it takes next
  path,      \* the queues it has to destroy its reference to, last one first
  carry,     \* the op it has to enqueue
  local      \* the ops it has moved out of a queue to serve or destroy them

queueVars == <<ops, qlen, ready, nudged, fwd, refcnt, freed, owned>>
opVars == <<replyq, sent, settled, answering, ahead>>
threadVars == <<pc, at, path, carry, local>>
qVars == <<queueVars, opVars, threadVars>>

Places == {"idle",
           "enq",      \* in rd_kafka_q_enq1
           "yield",    \* in rd_kafka_q_yield
           "poll",     \* in rd_kafka_q_serve, before the lock
           "asleep",   \* in rd_kafka_q_serve, in cnd_timedwait
           "awake",    \* in rd_kafka_q_serve, the wait has been signalled
           "serve",    \* in rd_kafka_q_serve, with ops to handle
           "purge",    \* in rd_kafka_q_purge0, before the lock
           "destroy",  \* in rd_kafka_q_purge0, with ops to destroy
           "return"}   \* on its way out, dropping references

QTypeOK ==
  /\ ready \in [Queues -> BOOLEAN]
  /\ nudged \in [Queues -> BOOLEAN]
  /\ fwd \in [Queues -> Queues \cup {NoQueue}]
  /\ refcnt \in [Queues -> Nat]
  /\ freed \in [Queues -> BOOLEAN]
  /\ owned \in [Queues -> BOOLEAN]
  /\ replyq \in [Ops -> Queues \cup {NoQueue}]
  /\ sent \subseteq Ops
  /\ settled \subseteq Ops
  /\ answering \in [Threads -> SUBSET Ops]
  /\ ahead \in [Ops -> SUBSET Ops]
  /\ pc \in [Threads -> Places]
  /\ at \in [Threads -> Queues \cup {NoQueue}]
  /\ path \in [Threads -> Seq(Queues)]
  /\ carry \in [Threads -> Ops \cup {NoOp}]

\* rd_kafka_q_init0: an empty list (rd_kafka_q_reset), the READY flag and the
\* owner's reference; only the reset of the list is in the repository.
QInit ==
  /\ ops = [q \in Queues |-> <<>>]
  /\ qlen = [q \in Queues |-> 0]
  /\ ready = [q \in Queues |-> TRUE]
  /\ nudged = [q \in Queues |-> FALSE]
  /\ fwd = [q \in Queues |-> NoQueue]
  /\ refcnt = [q \in Queues |-> 1]
  /\ freed = [q \in Queues |-> FALSE]
  /\ owned = [q \in Queues |-> TRUE]
  /\ replyq = [o \in Ops |-> NoQueue]
  /\ sent = {}
  /\ settled = {}
  /\ answering = [t \in Threads |-> {}]
  /\ ahead = [o \in Ops |-> {}]
  /\ pc = [t \in Threads |-> "idle"]
  /\ at = [t \in Threads |-> NoQueue]
  /\ path = [t \in Threads |-> <<>>]
  /\ carry = [t \in Threads |-> NoOp]
  /\ local = [t \in Threads |-> <<>>]

-----------------------------------------------------------------------------
(* The list of a queue.                                                    *)

\* TAILQ_INSERT_SORTED: before the first op of lower priority.
Sorted(s, o) ==
  LET n == CHOOSE i \in 1 .. Len(s) + 1 :
             /\ i <= Len(s) => Prio[s[i]] < Prio[o]
             /\ \A j \in 1 .. i - 1 : Prio[s[j]] >= Prio[o]
  IN  InsertAt(s, n, o)

\* rd_kafka_q_enq0, at_head = 0
Enq0(s, o) == IF Prio[o] = 0 THEN Append(s, o) ELSE Sorted(s, o)

\* rd_kafka_q_concat0: the prioritised ops at the head of src go to their
\* place in s, the others to its tail.
Concat(s, src) ==
  LET n == CHOOSE i \in 0 .. Len(src) :
             /\ \A j \in 1 .. i : Prio[src[j]] > 0
             /\ i < Len(src) => Prio[src[i + 1]] = 0
      moved[i \in 0 .. n] == IF i = 0 THEN s ELSE Sorted(moved[i - 1], src[i])
  IN  moved[n] \o SubSeq(src, n + 1, Len(src))

-----------------------------------------------------------------------------
(* References.                                                             *)

\* rd_kafka_q_keep
Keep(q) == refcnt' = [refcnt EXCEPT ![q] = @ + 1]

\* Mutant: a temporary reference is not destroyed.
Drop_Never(q) == refcnt' = refcnt

\* rd_kafka_q_destroy: the queue is freed by Final once nobody is left.
Drop(q) == refcnt' = [refcnt EXCEPT ![q] = @ - 1]

\* rd_kafka_op_destroy: the op's own reference goes with it.
DestroyOp(o) ==
  /\ settled' = settled \cup {o}
  /\ replyq' = [replyq EXCEPT ![o] = NoQueue]
  /\ IF replyq[o] = NoQueue THEN UNCHANGED refcnt ELSE Drop(replyq[o])

\* The thread has done what it came for.
Leave(t) ==
  /\ pc' = [pc EXCEPT ![t] = IF path[t] = <<>> THEN "idle" ELSE "return"]
  /\ at' = [at EXCEPT ![t] = NoQueue]

\* rd_kafka_q_destroy(fwdq) after the call it was kept for, and
\* rd_kafka_q_destroy(rkq) at the end of rd_kafka_replyq_enq.
Return(t) ==
  /\ pc[t] = "return"
  /\ \E q \in Queues : q = Last(path[t]) /\ Drop(q)
  /\ path' = [path EXCEPT ![t] = Front(@)]
  /\ pc' = [pc EXCEPT ![t] = IF Len(path[t]) = 1 THEN "idle" ELSE @]
  /\ at' = [at EXCEPT ![t] = NoQueue]
  /\ UNCHANGED <<ops, qlen, ready, nudged, fwd, freed, owned, opVars, carry,
                 local>>

\* rd_kafka_q_destroy_final: the forward, then the ops, then the queue.
Final(q) ==
  /\ refcnt[q] = 0
  /\ ~freed[q]
  /\ \/ /\ fwd[q] # NoQueue
        /\ Drop(fwd[q])
        /\ fwd' = [fwd EXCEPT ![q] = NoQueue]
        /\ UNCHANGED <<ops, qlen, freed, opVars>>
     \/ /\ fwd[q] = NoQueue
        /\ \E o \in Ops : ops[q] # <<>> /\ o = Head(ops[q]) /\ DestroyOp(o)
        /\ ops' = [ops EXCEPT ![q] = Tail(@)]
        /\ qlen' = [qlen EXCEPT ![q] = @ - 1]
        /\ UNCHANGED <<fwd, freed, sent, answering, ahead>>
     \/ /\ fwd[q] = NoQueue
        /\ ops[q] = <<>>
        /\ freed' = [freed EXCEPT ![q] = TRUE]
        /\ UNCHANGED <<ops, qlen, fwd, refcnt, opVars>>
  /\ UNCHANGED <<ready, nudged, owned, threadVars>>

-----------------------------------------------------------------------------
(* Following the forwards: rd_kafka_q_fwd_get in enq1, yield, serve, purge.  *)

\* Mutant: the destination is not kept.
Follow_NoKeep(t) ==
  /\ pc[t] \in {"enq", "yield", "poll", "purge"}
  /\ fwd[at[t]] # NoQueue
  /\ pc[t] \in {"enq", "yield"} => ready[at[t]]
  /\ path' = [path EXCEPT ![t] = Append(@, fwd[at[t]])]
  /\ at' = [at EXCEPT ![t] = fwd[at[t]]]
  /\ UNCHANGED <<queueVars, opVars, pc, carry, local>>

\* A disabled queue is not followed by enq1 and yield.
Follow(t) ==
  /\ pc[t] \in {"enq", "yield", "poll", "purge"}
  /\ fwd[at[t]] # NoQueue
  /\ pc[t] \in {"enq", "yield"} => ready[at[t]]
  /\ Keep(fwd[at[t]])
  /\ path' = [path EXCEPT ![t] = Append(@, fwd[at[t]])]
  /\ at' = [at EXCEPT ![t] = fwd[at[t]]]
  /\ UNCHANGED <<ops, qlen, ready, nudged, fwd, freed, owned, opVars, pc,
                 carry, local>>

\* A set of queues that no forward leads out of, and where q leads to in the
\* end: d is in every such set that has q.
Closed(S) == \A q \in S : fwd[q] # NoQueue => fwd[q] \in S
EndOf(q, d) ==
  fwd[d] = NoQueue /\ \A S \in SUBSET Queues : Closed(S) /\ q \in S => d \in S

\* Thread t enters call c on queue q with a reference that it will drop.
Enter(t, c, q) ==
  /\ pc' = [pc EXCEPT ![t] = c]
  /\ at' = [at EXCEPT ![t] = q]
  /\ path' = [path EXCEPT ![t] = <<q>>]

-----------------------------------------------------------------------------
(* rd_kafka_q_enq                                                          *)

\* An op without priority may not overtake one that waits, when its call
\* begins, where that leads.
NoteAhead(o, q) ==
  ahead' = [x \in Ops |->
              IF x # o THEN ahead[x] \ {o}
              ELSE {a \in Ops : /\ Prio[o] = 0 /\ Prio[a] = 0
                                /\ \E d \in Queues : EndOf(q, d) /\ a \in Range(ops[d])}]

\* Thread t sets out to enqueue op o on queue q.
SetOut(t, o, q) ==
  /\ carry' = [carry EXCEPT ![t] = o]
  /\ NoteAhead(o, q)
  /\ Enter(t, "enq", q)

\* rd_kafka_replyq_make and rd_kafka_op_set_replyq: thread t sends op o to
\* queue q, and asks for the answer on a queue r of its own, or for none.
Send(t, q, o, r) ==
  /\ pc[t] = "idle"
  /\ <<t, q, o>> \in Sends
  /\ o \notin sent
  /\ owned[q]
  /\ r # NoQueue => r # q /\ owned[r] /\ OwnerOf[r] = t
  /\ refcnt' = [p \in Queues |-> refcnt[p] + IF p \in {q, r} THEN 1 ELSE 0]
  /\ replyq' = [replyq EXCEPT ![o] = r]
  /\ sent' = sent \cup {o}
  /\ SetOut(t, o, q)
  /\ UNCHANGED <<ops, qlen, ready, nudged, fwd, freed, owned, settled,
                 answering, local>>

\* A handler answers, before its thread polls again: rd_kafka_replyq_enq takes
\* over the op's reference.
Reply(t, o) ==
  /\ pc[t] = "idle"
  /\ o \in answering[t]
  /\ answering' = [answering EXCEPT ![t] = @ \ {o}]
  /\ replyq' = [replyq EXCEPT ![o] = NoQueue]
  /\ \E r \in Queues : r = replyq[o] /\ SetOut(t, o, r)
  /\ UNCHANGED <<queueVars, sent, settled, local>>

Asleep(q) == {s \in Threads : pc[s] = "asleep" /\ at[s] = q}

\* Mutant: nobody is signalled.
EnqHere_NoSignal(t) ==
  /\ pc[t] = "enq"
  /\ ready[at[t]]
  /\ fwd[at[t]] = NoQueue
  /\ ops' = [ops EXCEPT ![at[t]] = Enq0(@, carry[t])]
  /\ qlen' = [qlen EXCEPT ![at[t]] = @ + 1]
  /\ pc' = [pc EXCEPT ![t] = "return"]
  /\ carry' = [carry EXCEPT ![t] = NoOp]
  /\ at' = [at EXCEPT ![t] = NoQueue]
  /\ UNCHANGED <<ready, nudged, fwd, refcnt, freed, owned, opVars, path, local>>

\* The op is put in the list; cnd_signal wakes one of those that wait.
EnqHere(t) ==
  /\ pc[t] = "enq"
  /\ ready[at[t]]
  /\ fwd[at[t]] = NoQueue
  /\ ops' = [ops EXCEPT ![at[t]] = Enq0(@, carry[t])]
  /\ qlen' = [qlen EXCEPT ![at[t]] = @ + 1]
  /\ \/ /\ Asleep(at[t]) = {}
        /\ pc' = [pc EXCEPT ![t] = "return"]
     \/ \E s \in Asleep(at[t]) :
          pc' = [pc EXCEPT ![t] = "return", ![s] = "awake"]
  /\ carry' = [carry EXCEPT ![t] = NoOp]
  /\ at' = [at EXCEPT ![t] = NoQueue]
  /\ UNCHANGED <<ready, nudged, fwd, refcnt, freed, owned, opVars, path, local>>

\* Mutant: the refused op is forgotten instead of failed.
EnqRefused_Leak(t) ==
  /\ pc[t] = "enq"
  /\ ~ready[at[t]]
  /\ carry' = [carry EXCEPT ![t] = NoOp]
  /\ pc' = [pc EXCEPT ![t] = "return"]
  /\ at' = [at EXCEPT ![t] = NoQueue]
  /\ UNCHANGED <<queueVars, opVars, path, local>>

\* The queue is disabled: rd_kafka_op_reply fails the op to its reply queue,
\* if it has one, or destroys it.
EnqRefused(t) ==
  /\ pc[t] = "enq"
  /\ ~ready[at[t]]
  /\ \E o \in Ops : o = carry[t] /\
     \/ /\ replyq[o] = NoQueue
        /\ settled' = settled \cup {o}
        /\ carry' = [carry EXCEPT ![t] = NoOp]
        /\ pc' = [pc EXCEPT ![t] = "return"]
        /\ at' = [at EXCEPT ![t] = NoQueue]
        /\ UNCHANGED <<replyq, path, ahead>>
     \/ /\ replyq[o] # NoQueue
        /\ replyq' = [replyq EXCEPT ![o] = NoQueue]
        /\ at' = [at EXCEPT ![t] = replyq[o]]
        /\ path' = [path EXCEPT ![t] = Append(@, replyq[o])]
        /\ NoteAhead(o, replyq[o])
        /\ UNCHANGED <<settled, carry, pc>>
  /\ UNCHANGED <<queueVars, sent, answering, local>>

-----------------------------------------------------------------------------
(* rd_kafka_q_yield                                                        *)

\* A thread that holds the queue wakes those that wait on it.
Nudge(t, q) ==
  /\ t \in Nudgers
  /\ pc[t] = "idle"
  /\ owned[q]
  /\ Keep(q)
  /\ Enter(t, "yield", q)
  /\ UNCHANGED <<ops, qlen, ready, nudged, fwd, freed, owned, opVars, carry,
                 local>>

NudgeHere(t) ==
  /\ pc[t] = "yield"
  /\ ready[at[t]] => fwd[at[t]] = NoQueue
  /\ LET woken == IF ready[at[t]] THEN Asleep(at[t]) ELSE {}
     IN  pc' = [s \in Threads |-> IF s = t THEN "return"
                                  ELSE IF s \in woken THEN "awake" ELSE pc[s]]
  /\ nudged' = [nudged EXCEPT ![at[t]] = @ \/ ready[at[t]]]
  /\ at' = [at EXCEPT ![t] = NoQueue]
  /\ UNCHANGED <<ops, qlen, ready, fwd, refcnt, freed, owned, opVars, path,
                 carry, local>>

-----------------------------------------------------------------------------
(* rd_kafka_q_serve, called by the owner of a queue.                       *)

Poll(t, q) ==
  /\ pc[t] = "idle"
  /\ answering[t] = {}
  /\ owned[q]
  /\ OwnerOf[q] = t
  /\ pc' = [pc EXCEPT ![t] = "poll"]
  /\ at' = [at EXCEPT ![t] = q]
  /\ UNCHANGED <<queueVars, opVars, path, carry, local>>

\* The thread has the lock of the queue it waits on.  A sleeper that is woken
\* does not look at the forward again.
Looking(t) == \/ pc[t] = "poll" /\ fwd[at[t]] = NoQueue
              \/ pc[t] = "awake"

\* All that wait are moved to a queue of the thread's own.
Take(t) ==
  /\ Looking(t)
  /\ ops[at[t]] # <<>>
  /\ local' = [local EXCEPT ![t] = ops[at[t]]]
  /\ ops' = [ops EXCEPT ![at[t]] = <<>>]
  /\ qlen' = [qlen EXCEPT ![at[t]] = 0]
  /\ pc' = [pc EXCEPT ![t] = "serve"]
  /\ UNCHANGED <<ready, nudged, fwd, refcnt, freed, owned, opVars, at, path,
                 carry>>

Wait(t) ==
  /\ Looking(t)
  /\ ops[at[t]] = <<>>
  /\ ~nudged[at[t]]
  /\ pc' = [pc EXCEPT ![t] = "asleep"]
  /\ UNCHANGED <<queueVars, opVars, at, path, carry, local>>

\* rd_kafka_q_check_yield: the wait ends, once, without an op.
Yielded(t) ==
  /\ Looking(t)
  /\ ops[at[t]] = <<>>
  /\ nudged[at[t]]
  /\ nudged' = [nudged EXCEPT ![at[t]] = FALSE]
  /\ Leave(t)
  /\ UNCHANGED <<ops, qlen, ready, fwd, refcnt, freed, owned, opVars, path,
                 carry, local>>

\* The wait may also time out.
Timeout(t) ==
  /\ pc[t] = "asleep"
  /\ Leave(t)
  /\ UNCHANGED <<queueVars, opVars, path, carry, local>>

\* The op's handler is called: the op has to be answered, or is done with.
Handle(t, o) ==
  IF replyq[o] = NoQueue
  THEN settled' = settled \cup {o} /\ UNCHANGED answering
  ELSE answering' = [answering EXCEPT ![t] = @ \cup {o}] /\ UNCHANGED settled

Serve(t) ==
  /\ pc[t] = "serve"
  /\ \E o \in Ops : local[t] # <<>> /\ o = Head(local[t]) /\ Handle(t, o)
  /\ local' = [local EXCEPT ![t] = Tail(@)]
  /\ UNCHANGED <<queueVars, replyq, sent, ahead, pc, at, path, carry>>

Served(t) ==
  /\ pc[t] = "serve"
  /\ local[t] = <<>>
  /\ Leave(t)
  /\ UNCHANGED <<queueVars, opVars, path, carry, local>>

\* Mutant: what the thread puts back goes behind what has come in since.
PutBack_Behind(s, rest) == s \o rest

\* rd_kafka_q_prepend0, whatever the priorities.
PutBack(s, rest) == rest \o s

\* rd_kafka_yield was called in the callback: the rest is put back at the head
\* of the queue.  Nobody is signalled, and the queue need not be ready.
ServeYield(t) ==
  /\ t \in Yielding
  /\ pc[t] = "serve"
  /\ \E o \in Ops : Len(local[t]) > 1 /\ o = Head(local[t]) /\ Handle(t, o)
  /\ \E d \in Queues :
       /\ EndOf(at[t], d)
       /\ ops' = [ops EXCEPT ![d] = PutBack(@, Tail(local[t]))]
       /\ qlen' = [qlen EXCEPT ![d] = @ + Len(local[t]) - 1]
  /\ local' = [local EXCEPT ![t] = <<>>]
  /\ UNCHANGED <<ready, nudged, fwd, refcnt, freed, owned, replyq, sent,
                 ahead, pc, at, path, carry>>

-----------------------------------------------------------------------------
(* The owner forwards its queue, and gives it up.                          *)

\* rd_kafka_q_fwd_set0: the reference to an earlier destination is destroyed
\* and the new one is kept.  What waits is concatenated to the destination,
\* or to where that leads, and a waiter there is signalled.  Callers forward
\* to queues in use, and never in a circle.
Forward(t, q, d) ==
  /\ pc[t] = "idle"
  /\ owned[q]
  /\ OwnerOf[q] = t
  /\ owned[d]
  /\ <<q, d>> \in Forwards
  /\ d # fwd[q]
  /\ \E S \in SUBSET Queues : Closed(S) /\ d \in S /\ q \notin S
  /\ refcnt' = [p \in Queues |-> refcnt[p] + (IF p = d THEN 1 ELSE 0)
                                           - (IF p = fwd[q] THEN 1 ELSE 0)]
  /\ fwd' = [fwd EXCEPT ![q] = d]
  /\ \/ ops[q] = <<>> /\ UNCHANGED <<ops, qlen, pc>>
     \/ \E e \in Queues :
          /\ ops[q] # <<>>
          /\ EndOf(d, e)
          /\ ready[e]
          /\ ops' = [ops EXCEPT ![e] = Concat(@, ops[q]), ![q] = <<>>]
          /\ qlen' = [qlen EXCEPT ![e] = @ + qlen[q], ![q] = 0]
          /\ \/ Asleep(e) = {} /\ UNCHANGED pc
             \/ \E s \in Asleep(e) : pc' = [pc EXCEPT ![s] = "awake"]
  /\ UNCHANGED <<ready, nudged, freed, owned, opVars, at, path, carry, local>>

Unforward(t, q) ==
  /\ pc[t] = "idle"
  /\ owned[q]
  /\ OwnerOf[q] = t
  /\ fwd[q] # NoQueue
  /\ Drop(fwd[q])
  /\ fwd' = [fwd EXCEPT ![q] = NoQueue]
  /\ UNCHANGED <<ops, qlen, ready, nudged, freed, owned, opVars, threadVars>>

\* Mutant: the queue is not disabled.
DestroyOwner_NoDisable(t, q) ==
  /\ pc[t] = "idle"
  /\ owned[q]
  /\ OwnerOf[q] = t
  /\ owned' = [owned EXCEPT ![q] = FALSE]
  /\ Enter(t, "purge", q)
  /\ UNCHANGED <<ops, qlen, ready, nudged, fwd, refcnt, freed, opVars, carry,
                 local>>

\* rd_kafka_q_destroy_owner: the queue is disabled, then purged, then the
\* owner's reference is dropped.
DestroyOwner(t, q) ==
  /\ pc[t] = "idle"
  /\ owned[q]
  /\ OwnerOf[q] = t
  /\ ready' = [ready EXCEPT ![q] = FALSE]
  /\ owned' = [owned EXCEPT ![q] = FALSE]
  /\ Enter(t, "purge", q)
  /\ UNCHANGED <<ops, qlen, nudged, fwd, refcnt, freed, opVars, carry, local>>

\* rd_kafka_q_purge0, of the queue the purged one is forwarded to.
Purge(t) ==
  /\ pc[t] = "purge"
  /\ fwd[at[t]] = NoQueue
  /\ local' = [local EXCEPT ![t] = ops[at[t]]]
  /\ ops' = [ops EXCEPT ![at[t]] = <<>>]
  /\ qlen' = [qlen EXCEPT ![at[t]] = 0]
  /\ pc' = [pc EXCEPT ![t] = "destroy"]
  /\ at' = [at EXCEPT ![t] = NoQueue]
  /\ UNCHANGED <<ready, nudged, fwd, refcnt, freed, owned, opVars, path, carry>>

DestroyNext(t) ==
  /\ pc[t] = "destroy"
  /\ \E o \in Ops : local[t] # <<>> /\ o = Head(local[t]) /\ DestroyOp(o)
  /\ local' = [local EXCEPT ![t] = Tail(@)]
  /\ UNCHANGED <<ops, qlen, ready, nudged, fwd, freed, owned, sent, answering,
                 ahead, pc, at, path, carry>>

Purged(t) ==
  /\ pc[t] = "destroy"
  /\ local[t] = <<>>
  /\ Leave(t)
  /\ UNCHANGED <<queueVars, opVars, path, carry, local>>

-----------------------------------------------------------------------------

\* A call goes on as soon as its thread is scheduled, unless it waits.
CallStep(t) ==
  \/ Return(t) \/ Follow(t)
  \/ EnqHere(t) \/ EnqRefused(t) \/ NudgeHere(t)
  \/ Take(t) \/ Wait(t) \/ Yielded(t)
  \/ Serve(t) \/ ServeYield(t) \/ Served(t)
  \/ Purge(t) \/ DestroyNext(t) \/ Purged(t)

OwnerStep(t, q) ==
  \/ \E d \in Queues : Forward(t, q, d)
  \/ Unforward(t, q)
  \/ DestroyOwner(t, q)

QNext ==
  \/ \E t \in Threads :
       \/ CallStep(t)
       \/ Timeout(t)
       \/ \E o \in Ops : Reply(t, o)
       \/ \E q \in Queues :
            \/ Nudge(t, q)
            \/ Poll(t, q)
            \/ OwnerStep(t, q)
            \/ \E o \in Ops, r \in Queues \cup {NoQueue} : Send(t, q, o, r)
  \/ \E q \in Queues : Final(q)
=============================================================================
