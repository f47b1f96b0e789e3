------------------------ MODULE KafkaProducerProofs ------------------------
(***************************************************************************)
(* Theorems about KafkaProducer, for every number of messages, events and  *)
(* threads, every limit and every number of initialisations, when the      *)
(* application keeps its threads out of send and pollEvent while it calls  *)
(* closeKafka (Quiesce).                                                   *)
(***************************************************************************)
EXTENDS KafkaProducer, FiniteSetTheorems, TLAPS

InCall == {"produce", "poll", "serve", "callback"}
Closing == {"drain", "stop", "join", "delete"}
Drained == {"stop", "join", "delete"}

\* The ops a thread has taken from the reply queue and not finished serving.
Held(t) == batch[t] \cup ({current[t]} \ {NoOp})

\* The accounting is exact.
CountInv ==
  /\ currMsgs = Cardinality(Outstanding)
  /\ currMsgs <= MaxMsgs

\* Every taken op is held by exactly one thread.
HolderInv ==
  /\ \A t \in Threads : \A o \in Held(t) : stage[o] = "taken"
  /\ \A t, u \in Threads : t # u => Held(t) \cap Held(u) = {}
  /\ \A t \in Threads : current[t] \notin batch[t]
  /\ \A o \in Ops : stage[o] = "taken" => \E t \in Threads : o \in Held(t)

\* What a thread holds, according to where it is.
PlaceInv ==
  /\ \A t \in Threads :
       /\ pc[t] \notin {"serve", "callback", "produce", "crashed"} =>
            batch[t] = {} /\ current[t] = NoOp
       /\ pc[t] = "serve" => current[t] = NoOp
       /\ pc[t] = "callback" => current[t] \in Ops
       /\ pc[t] = "produce" =>
            /\ sending[t] \in Msgs
            /\ stage[sending[t]] = "new"
            /\ current[t] \in Msgs \cup {NoOp}
            /\ current[t] = NoOp => batch[t] = {}
  /\ \A t, u \in Threads :
       t # u /\ pc[t] = "produce" /\ pc[u] = "produce" => sending[t] # sending[u]

\* Which places belong to which thread.
RoleInv ==
  /\ pc[PollThread] \in InCall \cup {"none", "check", "exited", "crashed"}
  /\ pc[Owner] \in InCall \cup Closing \cup {"idle", "crashed"}
  /\ \A t \in AppThreads : pc[t] \in InCall \cup {"idle", "crashed"}
  /\ \A t \in Threads : pc[t] = "crashed" <=> pc[Owner] = "crashed"

\* The protocol of closeKafka.
CloseInv ==
  /\ closing => \A t \in AppThreads : pc[t] \notin InCall
  /\ pc[Owner] \in Closing => closing
  /\ pc[Owner] = "idle" => ~closing
  /\ pc[PollThread] = "produce" => current[PollThread] # NoOp
  /\ closing /\ pc[Owner] = "produce" => current[Owner] # NoOp
  /\ \A t \in Threads : pc[t] \in InCall => producer = "handle"
  /\ pc[PollThread] \in InCall \cup {"check"} =>
       producer = "handle" /\ tid = "valid" /\ (bRun \/ pc[Owner] = "join")
  /\ pc[Owner] \in {"join", "delete"} => ~bRun
  /\ producer = "NULL" \/ pc[Owner] \in Drained => Outstanding = {}

\* A message has been reported exactly when its callback has been entered.
ReportInv ==
  \A m \in Msgs :
    /\ stage[m] # "lost"
    /\ reports[m] \in {<<>>, <<"success">>, <<"fail">>}
    /\ stage[m] = "done" => reports[m] # <<>>
    /\ stage[m] \notin {"done", "taken"} => reports[m] = <<>>
    /\ \A t \in Threads :
         /\ current[t] = m => reports[m] # <<>>
         /\ m \in batch[t] => reports[m] = <<>>

\* While the client believes a message is not persisted, at most the request
\* it is waiting for may change that.
WriteInv ==
  \A m \in Msgs :
    /\ m \in wire \cup log => m \in Accepted
    /\ status[m] = "NOT_PERSISTED" =>
         /\ stage[m] # "inflight" => m \notin wire \cup log
         /\ ~(m \in wire /\ m \in log)
    /\ reports[m] = <<"fail">> => status[m] = "NOT_PERSISTED"

\* The inductive invariant.
IInv ==
  /\ TypeOK
  /\ CountInv
  /\ HolderInv
  /\ PlaceInv
  /\ RoleInv
  /\ CloseInv
  /\ ReportInv
  /\ WriteInv

-----------------------------------------------------------------------------
(* Facts about the sets.                                                   *)

LEMMA ThreadFacts ==
  /\ Owner \in Threads /\ PollThread \in Threads /\ Owner # PollThread
  /\ \A t \in AppThreads : t \in Threads /\ t # Owner /\ t # PollThread
  /\ \A t \in Threads : t = Owner \/ t = PollThread \/ t \in AppThreads
  /\ \A t \in Callers : t \in Threads /\ t # PollThread
  /\ \A o \in Ops : o # NoOp
  /\ \A m \in Msgs : m \in Ops /\ m \notin Events /\ m # NoOp
BY ThreadsAssumption, NoOpAssumption, OpsAssumption
   DEF Threads, Callers, Ops

LEMMA OutstandingFinite == IsFiniteSet(Outstanding)
BY OpsAssumption, FS_Subset DEF Outstanding

LEMMA RepQFinite == IsFiniteSet(RepQ)
<1>1. IsFiniteSet(Ops)
  BY OpsAssumption, FS_Union DEF Ops
<1> QED BY <1>1, FS_Subset DEF RepQ

\* A message in the accounting keeps the counter positive.
LEMMA CountPositive ==
  ASSUME CountInv, NEW m \in Outstanding
  PROVE  currMsgs \in Nat \ {0}
<1>1. Cardinality(Outstanding) \in Nat
  BY OutstandingFinite, FS_CardinalityType
<1>2. Cardinality(Outstanding) # 0
  BY OutstandingFinite, FS_EmptySet
<1> QED BY <1>1, <1>2 DEF CountInv

\* A message whose callback is running is in the accounting.
LEMMA ServedOutstanding ==
  ASSUME HolderInv, NEW t \in Threads, current[t] \in Msgs
  PROVE  current[t] \in Outstanding
BY ThreadFacts DEF HolderInv, Held, Outstanding, InQueue

-----------------------------------------------------------------------------
(* Types.                                                                  *)

LEMMA TypePreserved ==
  ASSUME IInv, [Next]_vars
  PROVE  TypeOK'
<1> USE ThreadFacts DEF TypeOK, RkTypeOK, Goto, SetStage, kpVars, thVars,
        rkVars
<1> TypeOK /\ CountInv /\ HolderInv /\ PlaceInv
  BY DEF IInv
<1>1. CASE InitFails \/ InitOK \/ InitNoThread
  <2>1. opens' \in 0 .. MaxOpens /\ conf' = "conf"
    BY <1>1, MaxOpensAssumption
       DEF InitFails, InitOK, InitNoThread, InitBegin
  <2> QED BY <1>1, <2>1 DEF InitFails, InitOK, InitNoThread, PCs
<1>2. ASSUME NEW t \in Threads, SendBegin(t)
      PROVE  TypeOK'
  BY <1>2 DEF SendBegin, PCs
<1>3. ASSUME NEW t \in Threads, PollEvent(t) \/ PollTimeout(t)
      PROVE  TypeOK'
  BY <1>3 DEF PollEvent, PollTimeout, Caller, PCs
<1>4. ASSUME NEW t \in Threads, SendProduce(t)
      PROVE  TypeOK'
  BY <1>4 DEF SendProduce, RkAccept, RkReject, CurrMsgsAdd, PCs, Stages,
              PlaceInv
<1>5. ASSUME NEW t \in Threads, PollTake(t)
      PROVE  TypeOK'
  BY <1>5 DEF PollTake, RkTakeAll, RepQ, PCs, Stages
<1>6. ASSUME NEW t \in Threads, DrCb(t)
      PROVE  TypeOK'
  BY <1>6 DEF DrCb, ServeOp, Verdict, Verdicts, PCs
<1>7. ASSUME NEW t \in Threads, EventCb(t)
      PROVE  TypeOK'
  BY <1>7 DEF EventCb, ServeOp, PCs, Ops
<1>8. ASSUME NEW t \in Threads, CallbackReturn(t)
      PROVE  TypeOK'
  <2>1. current[t] \in Msgs => currMsgs - 1 \in Nat
    BY CountPositive, ServedOutstanding
  <2>2. current[t] \in Ops
    BY <1>8 DEF CallbackReturn, PlaceInv
  <2>3. currMsgs' \in Nat
    BY <1>8, <2>1 DEF CallbackReturn, RkServed, CurrMsgsSub
  <2>4. stage' \in [Ops -> Stages]
    BY <1>8, <2>2 DEF CallbackReturn, RkServed, Stages
  <2>5. pc' \in [Threads -> PCs]
    BY <1>8 DEF CallbackReturn, Caller, PCs
  <2>6. current' \in [Threads -> Ops \cup {NoOp}]
    BY <1>8 DEF CallbackReturn
  <2>7. UNCHANGED <<status, wire, log, kpVars, batch, sending, reports>>
    BY <1>8 DEF CallbackReturn, RkServed
  <2> QED BY <2>3, <2>4, <2>5, <2>6, <2>7
<1>9. CASE ThreadCheck \/ CloseBegin \/ Drain \/ Stop \/ Join \/ JoinBad
  BY <1>9 DEF ThreadCheck, CloseBegin, Drain, Stop, Join, JoinBad, PCs
<1>10. CASE Delete
  <2>1. RkTypeOK'
    <3>1. CASE producer = "handle"
      BY <1>10, <3>1 DEF Delete, RkDestroy, Stages
    <3>2. CASE producer = "NULL"
      BY <1>10, <3>2 DEF Delete
    <3> QED BY <3>1, <3>2
  <2>2. UNCHANGED <<bRun, tid, opens, batch, current, sending, reports>>
    BY <1>10 DEF Delete
  <2>3. producer' = "NULL" /\ conf' = "NULL" /\ closing' = FALSE
        /\ pc' = [pc EXCEPT ![Owner] = "idle"]
    BY <1>10 DEF Delete
  <2> QED BY <2>1, <2>2, <2>3 DEF PCs
<1>11. CASE BrokerThreads \/ Network
  BY <1>11 DEF BrokerThreads, Network, Transmit, Ack, Refuse, Retry, GiveUp,
       EventArrive, BrokerAppend, RequestLost, MaybeWritten, Stages, Statuses,
       Ops
<1>12. CASE UNCHANGED vars
  BY <1>12 DEF vars
<1> QED BY <1>1, <1>2, <1>3, <1>4, <1>5, <1>6, <1>7, <1>8, <1>9, <1>10, <1>11,
           <1>12 DEF Next, InLibrary, CloseStep, Quiet

-----------------------------------------------------------------------------
(* The accounting.                                                         *)

\* Steps that leave every message inside or outside the accounting.
LEMMA SameOutstanding ==
  ASSUME CountInv, UNCHANGED currMsgs,
         \A m \in Msgs : stage'[m] \in InQueue <=> stage[m] \in InQueue
  PROVE  CountInv'
<1>1. Outstanding' = Outstanding
  BY DEF Outstanding
<1> QED BY <1>1 DEF CountInv

LEMMA CountPreserved ==
  ASSUME Quiesce, IInv, [Next]_vars
  PROVE  CountInv'
<1> USE ThreadFacts DEF Goto, SetStage, kpVars, thVars, rkVars
<1> TypeOK /\ CountInv /\ HolderInv /\ PlaceInv /\ CloseInv
  BY DEF IInv
<1> stage \in [Ops -> Stages] /\ currMsgs \in Nat
  BY DEF TypeOK, RkTypeOK
<1>1. CASE InitFails \/ InitOK \/ InitNoThread
  BY <1>1, SameOutstanding DEF InitFails, InitOK, InitNoThread, InitBegin
<1>2. ASSUME NEW t \in Threads, SendBegin(t) \/ PollEvent(t) \/ PollTimeout(t)
      PROVE  CountInv'
  BY <1>2, SameOutstanding DEF SendBegin, PollEvent, PollTimeout
<1>3. ASSUME NEW t \in Threads, SendProduce(t)
      PROVE  CountInv'
  <2> DEFINE m == sending[t]
  <2>1. m \in Msgs /\ stage[m] = "new"
    BY <1>3 DEF SendProduce, PlaceInv
  <2>2. CASE RkReject(m)
    BY <2>1, <2>2, SameOutstanding DEF RkReject, InQueue
  <2>3. CASE RkAccept(m)
    <3>1. Outstanding' = Outstanding \cup {m}
      BY <2>1, <2>3 DEF RkAccept, Outstanding, InQueue
    <3>2. m \notin Outstanding
      BY <2>1 DEF Outstanding, InQueue
    <3>3. Cardinality(Outstanding') = Cardinality(Outstanding) + 1
      BY <3>1, <3>2, OutstandingFinite, FS_AddElement
    <3> QED BY <3>3, <2>3 DEF RkAccept, CurrMsgsAdd, CountInv
  <2> QED BY <1>3, <2>2, <2>3 DEF SendProduce
<1>4. ASSUME NEW t \in Threads, PollTake(t)
      PROVE  CountInv'
  BY <1>4, SameOutstanding DEF PollTake, RkTakeAll, RepQ, InQueue
<1>5. ASSUME NEW t \in Threads, DrCb(t) \/ EventCb(t)
      PROVE  CountInv'
  BY <1>5, SameOutstanding DEF DrCb, EventCb, ServeOp
<1>6. ASSUME NEW t \in Threads, CallbackReturn(t)
      PROVE  CountInv'
  <2> DEFINE o == current[t]
  <2>1. o \in Ops /\ RkServed(o)
    BY <1>6 DEF CallbackReturn, PlaceInv
  <2>2. CASE o \in Msgs
    <3>1. o \in Outstanding
      BY <2>2, ServedOutstanding
    <3>2. Outstanding' = Outstanding \ {o}
      BY <2>1, <2>2 DEF RkServed, Outstanding, InQueue
    <3>3. Cardinality(Outstanding') = Cardinality(Outstanding) - 1
      BY <3>1, <3>2, OutstandingFinite, FS_RemoveElement
    <3>4. currMsgs' = currMsgs - 1
      BY <2>1, <2>2 DEF RkServed, CurrMsgsSub
    <3> QED BY <3>3, <3>4, MaxMsgsAssumption DEF CountInv
  <2>3. CASE o \notin Msgs
    BY <2>1, <2>3, SameOutstanding DEF RkServed
  <2> QED BY <2>2, <2>3
<1>7. CASE ThreadCheck \/ CloseBegin \/ Drain \/ Stop \/ Join \/ JoinBad
  BY <1>7, SameOutstanding
     DEF ThreadCheck, CloseBegin, Drain, Stop, Join, JoinBad
<1>8. CASE Delete
  <2>1. Outstanding = {} /\ currMsgs = 0
    BY <1>8, FS_EmptySet DEF Delete, CloseInv, Drained, CountInv
  <2>2. CASE producer = "handle"
    <3>1. Outstanding' = {} /\ currMsgs' = 0
      BY <1>8, <2>2 DEF Delete, RkDestroy, Outstanding, InQueue
    <3> QED BY <3>1, FS_EmptySet, MaxMsgsAssumption DEF CountInv
  <2>3. CASE producer # "handle"
    BY <1>8, <2>3, SameOutstanding DEF Delete
  <2> QED BY <2>2, <2>3
<1>9. CASE BrokerThreads
  <2>1. ASSUME NEW m \in Msgs,
               Transmit(m) \/ Ack(m) \/ Refuse(m) \/ Retry(m) \/ GiveUp(m)
        PROVE  CountInv'
    BY <2>1, SameOutstanding
       DEF Transmit, Ack, Refuse, Retry, GiveUp, InQueue
  <2>2. ASSUME NEW e \in Events, EventArrive(e)
        PROVE  CountInv'
    BY <2>2, SameOutstanding DEF EventArrive
  <2> QED BY <1>9, <2>1, <2>2 DEF BrokerThreads
<1>10. CASE Network
  BY <1>10, SameOutstanding DEF Network, BrokerAppend, RequestLost
<1>11. CASE UNCHANGED vars
  BY <1>11, SameOutstanding DEF vars
<1> QED BY <1>1, <1>2, <1>3, <1>4, <1>5, <1>6, <1>7, <1>8, <1>9, <1>10, <1>11
        DEF Next, InLibrary, CloseStep, Quiet

-----------------------------------------------------------------------------
(* Who holds what was taken from the reply queue.                          *)

LEMMA HeldOps ==
  ASSUME TypeOK
  PROVE  \A t \in Threads : Held(t) \subseteq Ops
BY DEF TypeOK, Held

\* Steps that leave every taken op taken, take none, and leave the threads'
\* batches alone.
LEMMA SameHolders ==
  ASSUME TypeOK, HolderInv, UNCHANGED <<batch, current>>,
         \A o \in Ops : stage'[o] = "taken" <=> stage[o] = "taken"
  PROVE  HolderInv'
<1>1. \A t \in Threads : Held(t)' = Held(t)
  BY DEF Held
<1> QED BY <1>1, HeldOps DEF HolderInv

LEMMA HolderPreserved ==
  ASSUME Quiesce, IInv, [Next]_vars
  PROVE  HolderInv'
<1> USE ThreadFacts DEF Goto, SetStage, kpVars, thVars, rkVars
<1> TypeOK /\ HolderInv /\ PlaceInv /\ RoleInv /\ CloseInv
  BY DEF IInv
<1>0. /\ stage \in [Ops -> Stages]
      /\ batch \in [Threads -> SUBSET Ops]
      /\ current \in [Threads -> Ops \cup {NoOp}]
  BY DEF TypeOK, RkTypeOK
<1>1. CASE InitFails \/ InitOK \/ InitNoThread
  BY <1>1, SameHolders DEF InitFails, InitOK, InitNoThread, InitBegin
<1>2. ASSUME NEW t \in Threads, SendBegin(t) \/ PollEvent(t) \/ PollTimeout(t)
      PROVE  HolderInv'
  BY <1>2, SameHolders DEF SendBegin, PollEvent, PollTimeout
<1>3. ASSUME NEW t \in Threads, SendProduce(t)
      PROVE  HolderInv'
  <2>1. sending[t] \in Msgs /\ stage[sending[t]] = "new"
    BY <1>3 DEF SendProduce, PlaceInv
  <2>2. \A o \in Ops : stage'[o] = "taken" <=> stage[o] = "taken"
    BY <1>0, <1>3, <2>1 DEF SendProduce, RkAccept, RkReject
  <2> QED BY <1>3, <2>2, SameHolders DEF SendProduce
<1>4. ASSUME NEW t \in Threads, PollTake(t)
      PROVE  HolderInv'
  <2>1. Held(t) = {} /\ batch[t] = {} /\ current[t] = NoOp
    BY <1>4 DEF PollTake, PlaceInv, Held
  <2>2. Held(t)' = RepQ /\ \A u \in Threads \ {t} : Held(u)' = Held(u)
    BY <1>0, <1>4, <2>1 DEF PollTake, Held
  <2>3. \A o \in Ops : stage'[o] = "taken" <=> o \in RepQ \/ stage[o] = "taken"
    BY <1>0, <1>4 DEF PollTake, RkTakeAll, RepQ
  <2>4. RepQ \subseteq Ops /\ \A o \in RepQ : stage[o] # "taken"
    BY DEF RepQ
  <2>5. \A u \in Threads : \A o \in Held(u)' : stage'[o] = "taken"
    BY <2>2, <2>3, <2>4, HeldOps DEF HolderInv
  <2>6. \A u, v \in Threads : u # v => Held(u)' \cap Held(v)' = {}
    BY <2>2, <2>4 DEF HolderInv
  <2>7. \A u \in Threads : current'[u] \notin batch'[u]
    BY <1>0, <1>4, <2>1, <2>4 DEF PollTake, HolderInv
  <2>8. \A o \in Ops : stage'[o] = "taken" => \E u \in Threads : o \in Held(u)'
    BY <2>1, <2>2, <2>3 DEF HolderInv
  <2> QED BY <2>5, <2>6, <2>7, <2>8 DEF HolderInv
<1>5. ASSUME NEW t \in Threads, NEW o \in Ops, ServeOp(t, o)
      PROVE  HolderInv'
  <2>1. current[t] = NoOp /\ o \in batch[t] /\ UNCHANGED stage
    BY <1>5 DEF ServeOp, PlaceInv
  <2>2. \A u \in Threads : Held(u)' = Held(u)
    BY <1>0, <1>5, <2>1 DEF ServeOp, Held
  <2>3. \A u \in Threads : current'[u] \notin batch'[u]
    BY <1>0, <1>5 DEF ServeOp, HolderInv
  <2> QED BY <2>1, <2>2, <2>3 DEF HolderInv
<1>6. ASSUME NEW t \in Threads, CallbackReturn(t)
      PROVE  HolderInv'
  <2> DEFINE o == current[t]
  <2>1. o \in Ops /\ o \in Held(t)
    BY <1>6 DEF CallbackReturn, PlaceInv, Held
  <2>2. Held(t)' = Held(t) \ {o} /\ \A u \in Threads \ {t} : Held(u)' = Held(u)
    BY <1>0, <1>6 DEF CallbackReturn, HolderInv, Held
  <2>3. stage' = [stage EXCEPT ![o] = "done"]
    BY <1>6 DEF CallbackReturn, RkServed
  <2>4. \A u \in Threads \ {t} : o \notin Held(u)
    BY <2>1 DEF HolderInv
  <2>5. \A u \in Threads : \A p \in Held(u)' : stage'[p] = "taken"
    BY <1>0, <2>2, <2>3, <2>4, HeldOps DEF HolderInv
  <2>6. \A u, v \in Threads : u # v => Held(u)' \cap Held(v)' = {}
    BY <2>2 DEF HolderInv
  <2>7. \A u \in Threads : current'[u] \notin batch'[u]
    BY <1>0, <1>6 DEF CallbackReturn, HolderInv
  <2>8. \A p \in Ops : stage'[p] = "taken" => \E u \in Threads : p \in Held(u)'
    <3> SUFFICES ASSUME NEW p \in Ops, stage'[p] = "taken"
                 PROVE  \E u \in Threads : p \in Held(u)'
      OBVIOUS
    <3>1. p # o /\ stage[p] = "taken"
      BY <1>0, <2>1, <2>3
    <3>2. PICK u \in Threads : p \in Held(u)
      BY <3>1 DEF HolderInv
    <3> QED BY <3>1, <3>2, <2>2
  <2> QED BY <2>5, <2>6, <2>7, <2>8 DEF HolderInv
<1>7. CASE ThreadCheck \/ CloseBegin \/ Drain \/ Stop \/ Join \/ JoinBad
  BY <1>7, SameHolders DEF ThreadCheck, CloseBegin, Drain, Stop, Join, JoinBad
<1>8. CASE Delete
  <2>1. \A t \in Threads : pc[t] \notin {"serve", "callback", "produce", "crashed"}
    BY <1>8 DEF Delete, RoleInv, CloseInv, InCall, Closing
  <2>2. \A t \in Threads : Held(t) = {}
    BY <2>1 DEF PlaceInv, Held
  <2>3. \A o \in Ops : stage[o] # "taken"
    BY <2>2 DEF HolderInv
  <2>4. \A o \in Ops : stage'[o] # "taken"
    <3>1. CASE producer = "handle"
      BY <1>8, <2>3, <3>1 DEF Delete, RkDestroy
    <3>2. CASE producer # "handle"
      BY <1>8, <2>3, <3>2 DEF Delete
    <3> QED BY <3>1, <3>2
  <2> QED BY <1>8, <2>3, <2>4, SameHolders DEF Delete
<1>9. CASE BrokerThreads
  <2>1. ASSUME NEW m \in Msgs,
               Transmit(m) \/ Ack(m) \/ Refuse(m) \/ Retry(m) \/ GiveUp(m)
        PROVE  \A o \in Ops : stage'[o] = "taken" <=> stage[o] = "taken"
    BY <1>0, <2>1 DEF Transmit, Ack, Refuse, Retry, GiveUp
  <2>2. ASSUME NEW e \in Events, EventArrive(e)
        PROVE  \A o \in Ops : stage'[o] = "taken" <=> stage[o] = "taken"
    BY <1>0, <2>2 DEF EventArrive
  <2> QED BY <1>9, <2>1, <2>2, SameHolders DEF BrokerThreads
<1>10. CASE Network
  BY <1>10, SameHolders DEF Network, BrokerAppend, RequestLost
<1>11. CASE UNCHANGED vars
  BY <1>11, SameHolders DEF vars
<1>12. ASSUME NEW t \in Threads, DrCb(t) \/ EventCb(t)
       PROVE  HolderInv'
  BY <1>5, <1>12 DEF DrCb, EventCb, Ops
<1> QED BY <1>1, <1>2, <1>3, <1>4, <1>6, <1>7, <1>8, <1>9, <1>10, <1>11, <1>12
        DEF Next, InLibrary, CloseStep, Quiet

-----------------------------------------------------------------------------
(* Where the threads are.                                                  *)

LEMMA CallerPlaces ==
  /\ Caller(PollThread) = "check"
  /\ Caller(Owner) = IF closing THEN "drain" ELSE "idle"
  /\ \A t \in AppThreads : Caller(t) = "idle"
BY ThreadFacts DEF Caller

LEMMA RolePreserved ==
  ASSUME Quiesce, IInv, [Next]_vars
  PROVE  RoleInv'
<1> USE ThreadFacts DEF Goto, kpVars, thVars, RoleInv, InCall, Closing
<1> RoleInv /\ CloseInv /\ PlaceInv
  BY DEF IInv
<1>0. pc \in [Threads -> PCs]
  BY DEF IInv, TypeOK
<1>1. CASE InitFails \/ InitOK \/ InitNoThread
  BY <1>0, <1>1 DEF InitFails, InitOK, InitNoThread, InitBegin
<1>2. ASSUME NEW t \in Threads, SendBegin(t) \/ PollEvent(t)
      PROVE  RoleInv'
  BY <1>0, <1>2 DEF SendBegin, PollEvent, MayEnter, MayResend
<1>3. ASSUME NEW t \in Threads, SendProduce(t)
      PROVE  RoleInv'
  BY <1>0, <1>3 DEF SendProduce, CloseInv
<1>4. ASSUME NEW t \in Threads, PollTimeout(t) \/ CallbackReturn(t)
      PROVE  RoleInv'
  <2>1. \/ pc' = [pc EXCEPT ![t] = Caller(t)]
        \/ pc' = [pc EXCEPT ![t] = "serve"]
    BY <1>4 DEF PollTimeout, CallbackReturn
  <2>2. pc[t] \in InCall
    BY <1>4 DEF PollTimeout, CallbackReturn
  <2>3. pc[t] # "crashed" /\ pc[Owner] # "crashed"
    BY <2>2
  <2> QED BY <1>0, <2>1, <2>3, CallerPlaces
<1>5. ASSUME NEW t \in Threads, PollTake(t) \/ DrCb(t) \/ EventCb(t)
      PROVE  RoleInv'
  BY <1>0, <1>5 DEF PollTake, DrCb, EventCb, ServeOp
<1>6. CASE ThreadCheck \/ CloseBegin \/ Drain \/ Stop \/ Join \/ Delete
  BY <1>0, <1>6 DEF ThreadCheck, CloseBegin, Drain, Stop, Join, Delete
<1>7. CASE JoinBad
  BY <1>0, <1>7 DEF JoinBad
<1>8. CASE BrokerThreads \/ Network \/ UNCHANGED vars
  BY <1>8 DEF BrokerThreads, Network, vars
<1> QED BY <1>1, <1>2, <1>3, <1>4, <1>5, <1>6, <1>7, <1>8
        DEF Next, InLibrary, CloseStep, Quiet

\* Steps of one thread that enter or leave no call of produce, and leave what
\* the threads hold alone.
LEMMA SamePlace ==
  ASSUME PlaceInv, UNCHANGED <<pc, batch, current, sending>>,
         \A m \in Msgs : stage[m] = "new" => stage'[m] = "new"
  PROVE  PlaceInv'
BY DEF PlaceInv

LEMMA PlacePreserved ==
  ASSUME Quiesce, IInv, [Next]_vars
  PROVE  PlaceInv'
<1> USE ThreadFacts DEF Goto, SetStage, kpVars, thVars, rkVars
<1> PlaceInv /\ RoleInv /\ CloseInv
  BY DEF IInv
<1>0. /\ stage \in [Ops -> Stages]
      /\ pc \in [Threads -> PCs]
      /\ batch \in [Threads -> SUBSET Ops]
      /\ current \in [Threads -> Ops \cup {NoOp}]
      /\ sending \in [Threads -> Msgs \cup {NoOp}]
  BY DEF IInv, TypeOK, RkTypeOK
<1>1. CASE InitFails \/ InitNoThread
  BY <1>1, SamePlace DEF InitFails, InitNoThread, InitBegin
<1>2. CASE InitOK
  <2>1. pc[PollThread] \in {"none", "exited"}
    BY <1>2 DEF InitOK, InitBegin, RoleInv, CloseInv, InCall
  <2> QED BY <1>0, <1>2, <2>1 DEF InitOK, InitBegin, PlaceInv
<1>3. ASSUME NEW t \in Threads, SendBegin(t)
      PROVE  PlaceInv'
  <2>1. PICK m \in Msgs : /\ stage[m] = "new"
                          /\ \A u \in Threads : sending[u] # m
                          /\ sending' = [sending EXCEPT ![t] = m]
    BY <1>3 DEF SendBegin
  <2>2. /\ current[t] \in Msgs \cup {NoOp}
        /\ current[t] = NoOp => batch[t] = {}
    BY <1>3 DEF SendBegin, MayEnter, MayResend, PlaceInv
  <2>3. pc' = [pc EXCEPT ![t] = "produce"] /\ UNCHANGED <<stage, batch, current>>
    BY <1>3 DEF SendBegin
  <2> QED BY <1>0, <2>1, <2>2, <2>3 DEF PlaceInv
<1>4. ASSUME NEW t \in Threads, SendProduce(t)
      PROVE  PlaceInv'
  <2>1. /\ sending[t] \in Msgs
        /\ current[t] \in Msgs \cup {NoOp}
        /\ pc[t] = "produce"
    BY <1>4 DEF SendProduce, PlaceInv
  <2>2. \A m \in Msgs \ {sending[t]} : stage'[m] = stage[m]
    BY <1>0, <1>4 DEF SendProduce, RkAccept, RkReject
  <2>3. /\ pc' = [pc EXCEPT ![t] = IF current[t] = NoOp THEN "idle" ELSE "callback"]
        /\ sending' = [sending EXCEPT ![t] = NoOp]
        /\ UNCHANGED <<batch, current>>
    BY <1>4 DEF SendProduce
  <2>4. current[t] = NoOp => batch[t] = {}
    BY <1>4 DEF SendProduce, PlaceInv
  <2> QED BY <1>0, <2>1, <2>2, <2>3, <2>4 DEF PlaceInv
<1>5. ASSUME NEW t \in Threads, PollEvent(t) \/ PollTimeout(t)
      PROVE  PlaceInv'
  BY <1>0, <1>5 DEF PollEvent, PollTimeout, MayEnter, Caller, PlaceInv
<1>6. ASSUME NEW t \in Threads, PollTake(t)
      PROVE  PlaceInv'
  BY <1>0, <1>6 DEF PollTake, RkTakeAll, RepQ, PlaceInv
<1>7. ASSUME NEW t \in Threads, NEW o \in Ops, ServeOp(t, o)
      PROVE  PlaceInv'
  BY <1>0, <1>7 DEF ServeOp, PlaceInv
<1>8. ASSUME NEW t \in Threads, CallbackReturn(t)
      PROVE  PlaceInv'
  <2>1. \A m \in Msgs : stage[m] = "new" => stage'[m] = "new"
    <3>1. current[t] \in Ops /\ stage[current[t]] = "taken"
      BY <1>8 DEF CallbackReturn, PlaceInv, IInv, HolderInv, Held
    <3> QED BY <1>0, <1>8, <3>1 DEF CallbackReturn, RkServed
  <2>2. /\ pc' = [pc EXCEPT ![t] = IF batch[t] = {} THEN Caller(t) ELSE "serve"]
        /\ current' = [current EXCEPT ![t] = NoOp]
        /\ UNCHANGED <<batch, sending>>
    BY <1>8 DEF CallbackReturn
  <2> QED BY <1>0, <2>1, <2>2 DEF Caller, PlaceInv
<1>9. CASE ThreadCheck \/ CloseBegin \/ Drain \/ Stop \/ Join
  BY <1>0, <1>9 DEF ThreadCheck, CloseBegin, Drain, Stop, Join, PlaceInv
<1>10. CASE JoinBad
  BY <1>0, <1>10 DEF JoinBad, PlaceInv
<1>11. CASE Delete
  <2>1. \A m \in Msgs : stage[m] = "new" => stage'[m] = "new"
    <3>1. CASE producer = "handle"
      BY <1>0, <1>11, <3>1 DEF Delete, RkDestroy, InQueue
    <3>2. CASE producer # "handle"
      BY <1>11, <3>2 DEF Delete
    <3> QED BY <3>1, <3>2
  <2>2. /\ pc' = [pc EXCEPT ![Owner] = "idle"] /\ pc[Owner] = "delete"
        /\ UNCHANGED <<batch, current, sending>>
    BY <1>11 DEF Delete
  <2> QED BY <1>0, <2>1, <2>2 DEF PlaceInv
<1>12. CASE BrokerThreads
  <2>1. ASSUME NEW m \in Msgs,
               Transmit(m) \/ Ack(m) \/ Refuse(m) \/ Retry(m) \/ GiveUp(m)
        PROVE  \A p \in Msgs : stage[p] = "new" => stage'[p] = "new"
    BY <1>0, <2>1 DEF Transmit, Ack, Refuse, Retry, GiveUp
  <2>2. ASSUME NEW e \in Events, EventArrive(e)
        PROVE  \A p \in Msgs : stage[p] = "new" => stage'[p] = "new"
    BY <1>0, <2>2 DEF EventArrive
  <2> QED BY <1>12, <2>1, <2>2, SamePlace DEF BrokerThreads
<1>13. CASE Network \/ UNCHANGED vars
  BY <1>13, SamePlace DEF Network, BrokerAppend, RequestLost, vars
<1>14. ASSUME NEW t \in Threads, DrCb(t) \/ EventCb(t)
       PROVE  PlaceInv'
  BY <1>7, <1>14 DEF DrCb, EventCb, Ops
<1> QED BY <1>1, <1>2, <1>3, <1>4, <1>5, <1>6, <1>8, <1>9, <1>10, <1>11,
           <1>12, <1>13, <1>14 DEF Next, InLibrary, CloseStep, Quiet

-----------------------------------------------------------------------------
(* closeKafka.                                                             *)

\* Once the drain loop has seen outq_len() = 0 nothing is in the accounting.
LEMMA DrainedEmpty ==
  ASSUME CountInv, currMsgs \in Nat, ~(OutqLen > 0)
  PROVE  Outstanding = {}
<1>1. Cardinality(RepQ) \in Nat
  BY RepQFinite, FS_CardinalityType
<1>2. currMsgs = 0
  BY <1>1 DEF OutqLen
<1> QED BY <1>2, OutstandingFinite, FS_EmptySet DEF CountInv

\* A thread that produces from a callback serves a message in the accounting.
LEMMA ResendOutstanding ==
  ASSUME PlaceInv, HolderInv, NEW t \in Threads,
         pc[t] = "produce", current[t] # NoOp
  PROVE  Outstanding # {}
BY ServedOutstanding DEF PlaceInv

LEMMA ClosePreserved ==
  ASSUME Quiesce, IInv, [Next]_vars
  PROVE  CloseInv'
<1> USE ThreadFacts
    DEF Goto, SetStage, kpVars, thVars, rkVars, InCall, Closing, Drained
<1> CloseInv /\ PlaceInv /\ RoleInv /\ HolderInv /\ CountInv
  BY DEF IInv
<1>0. /\ stage \in [Ops -> Stages]
      /\ producer \in {"NULL", "handle"}
      /\ pc \in [Threads -> PCs]
      /\ current \in [Threads -> Ops \cup {NoOp}]
      /\ currMsgs \in Nat
  BY DEF IInv, TypeOK, RkTypeOK
<1>1. CASE InitFails
  BY <1>1 DEF InitFails, InitBegin, CloseInv, Outstanding
<1>2. CASE InitOK
  BY <1>0, <1>2 DEF InitOK, InitBegin, CloseInv, Outstanding
<1>3. CASE InitNoThread
  BY <1>0, <1>3 DEF InitNoThread, InitBegin, CloseInv, Outstanding
<1>4. ASSUME NEW t \in Threads, SendBegin(t)
      PROVE  CloseInv'
  BY <1>0, <1>4 DEF SendBegin, MayEnter, MayResend, CloseInv, Outstanding, Callers
<1>5. ASSUME NEW t \in Threads, SendProduce(t)
      PROVE  CloseInv'
  <2>1. producer = "handle" /\ pc[t] = "produce"
    BY <1>5 DEF SendProduce
  <2>2. pc[Owner] \in Drained => t = PollThread
    BY <1>5, <2>1 DEF CloseInv
  <2>3. pc[Owner] \notin Drained
    BY <2>1, <2>2, ResendOutstanding DEF CloseInv
  <2> QED BY <1>0, <1>5, <2>1, <2>3 DEF SendProduce, CloseInv
<1>6. ASSUME NEW t \in Threads, PollEvent(t)
      PROVE  CloseInv'
  BY <1>0, <1>6 DEF PollEvent, MayEnter, Callers, CloseInv, Outstanding
<1>7. ASSUME NEW t \in Threads, PollTimeout(t)
      PROVE  CloseInv'
  BY <1>0, <1>7, CallerPlaces DEF PollTimeout, CloseInv, Outstanding
<1>8. ASSUME NEW t \in Threads, PollTake(t)
      PROVE  CloseInv'
  <2>1. Outstanding' = Outstanding
    BY <1>0, <1>8 DEF PollTake, RkTakeAll, RepQ, Outstanding, InQueue
  <2> QED BY <1>0, <1>8, <2>1 DEF PollTake, CloseInv
<1>9. ASSUME NEW t \in Threads, NEW o \in Ops, ServeOp(t, o)
      PROVE  CloseInv'
  BY <1>0, <1>9 DEF ServeOp, CloseInv, Outstanding
<1>10. ASSUME NEW t \in Threads, CallbackReturn(t)
       PROVE  CloseInv'
  <2>1. Outstanding' \subseteq Outstanding
    BY <1>0, <1>10 DEF CallbackReturn, RkServed, Outstanding, InQueue
  <2>2. /\ producer = "handle" /\ pc[t] = "callback"
        /\ \/ pc' = [pc EXCEPT ![t] = Caller(t)]
           \/ pc' = [pc EXCEPT ![t] = "serve"]
        /\ current' = [current EXCEPT ![t] = NoOp]
        /\ UNCHANGED kpVars
    BY <1>10 DEF CallbackReturn
  <2> QED BY <1>0, <2>1, <2>2, CallerPlaces DEF CloseInv
<1>11. CASE ThreadCheck
  BY <1>0, <1>11 DEF ThreadCheck, CloseInv, Outstanding
<1>12. CASE CloseBegin
  BY <1>0, <1>12 DEF CloseBegin, CloseInv, Outstanding
<1>13. CASE Drain
  <2>1. (producer = "handle" /\ OutqLen > 0) \/ Outstanding = {}
    BY <1>0, DrainedEmpty DEF CloseInv
  <2>2. UNCHANGED Outstanding
    BY <1>13 DEF Drain, Outstanding
  <2> QED BY <1>0, <1>13, <2>1, <2>2 DEF Drain, CloseInv
<1>14. CASE Stop
  BY <1>0, <1>14 DEF Stop, CloseInv, Outstanding
<1>15. CASE Join
  BY <1>0, <1>15 DEF Join, CloseInv, Outstanding
<1>16. CASE JoinBad
  BY <1>0, <1>16 DEF JoinBad, CloseInv, Outstanding
<1>17. CASE Delete
  <2>1. \A t \in Threads : pc[t] \notin InCall \cup {"check"}
    BY <1>17 DEF Delete, RoleInv, CloseInv
  <2>2. Outstanding' = {}
    <3>1. CASE producer = "handle"
      BY <1>17, <3>1 DEF Delete, RkDestroy, Outstanding, InQueue
    <3>2. CASE producer # "handle"
      BY <1>0, <1>17, <3>2 DEF Delete, CloseInv, Outstanding
    <3> QED BY <3>1, <3>2
  <2> QED BY <1>0, <1>17, <2>1, <2>2 DEF Delete, CloseInv
<1>18. CASE BrokerThreads
  <2>1. ASSUME NEW m \in Msgs,
               Transmit(m) \/ Ack(m) \/ Refuse(m) \/ Retry(m) \/ GiveUp(m)
        PROVE  Outstanding' = Outstanding
    BY <1>0, <2>1
       DEF Transmit, Ack, Refuse, Retry, GiveUp, Outstanding, InQueue
  <2>2. ASSUME NEW e \in Events, EventArrive(e)
        PROVE  Outstanding' = Outstanding
    BY <1>0, <2>2 DEF EventArrive, Outstanding
  <2> QED BY <1>18, <2>1, <2>2 DEF BrokerThreads, CloseInv
<1>19. CASE Network \/ UNCHANGED vars
  BY <1>19
     DEF Network, BrokerAppend, RequestLost, vars, CloseInv, Outstanding
<1>20. ASSUME NEW t \in Threads, DrCb(t) \/ EventCb(t)
       PROVE  CloseInv'
  BY <1>9, <1>20 DEF DrCb, EventCb, Ops
<1> QED BY <1>1, <1>2, <1>3, <1>4, <1>5, <1>6, <1>7, <1>8, <1>10, <1>11, <1>12,
           <1>13, <1>14, <1>15, <1>16, <1>17, <1>18, <1>19, <1>20
        DEF Next, InLibrary, CloseStep, Quiet

-----------------------------------------------------------------------------
(* Reports.                                                                *)

\* Steps that neither report nor finish a message, nor lose one.
LEMMA SameReports ==
  ASSUME ReportInv, UNCHANGED <<batch, current, reports>>,
         \A m \in Msgs :
           \/ stage'[m] = stage[m]
           \/ /\ stage[m] \notin {"done", "taken"}
              /\ stage'[m] \notin {"done", "taken", "lost"}
  PROVE  ReportInv'
BY DEF ReportInv

LEMMA ReportPreserved ==
  ASSUME Quiesce, IInv, [Next]_vars
  PROVE  ReportInv'
<1> USE ThreadFacts DEF Goto, SetStage, kpVars, thVars, rkVars
<1> ReportInv /\ PlaceInv /\ HolderInv /\ CloseInv
  BY DEF IInv
<1>0. /\ stage \in [Ops -> Stages]
      /\ batch \in [Threads -> SUBSET Ops]
      /\ current \in [Threads -> Ops \cup {NoOp}]
      /\ reports \in [Msgs -> Seq(Verdicts)]
  BY DEF IInv, TypeOK, RkTypeOK
<1>1. CASE InitFails \/ InitOK \/ InitNoThread
  BY <1>1, SameReports DEF InitFails, InitOK, InitNoThread, InitBegin
<1>2. ASSUME NEW t \in Threads, SendBegin(t) \/ PollEvent(t) \/ PollTimeout(t)
      PROVE  ReportInv'
  BY <1>2, SameReports DEF SendBegin, PollEvent, PollTimeout
<1>3. ASSUME NEW t \in Threads, SendProduce(t)
      PROVE  ReportInv'
  <2>1. sending[t] \in Msgs /\ stage[sending[t]] = "new"
    BY <1>3 DEF SendProduce, PlaceInv
  <2>2. \/ stage' = [stage EXCEPT ![sending[t]] = "outq"]
        \/ stage' = [stage EXCEPT ![sending[t]] = "rejected"]
    BY <1>3 DEF SendProduce, RkAccept, RkReject
  <2>3. UNCHANGED <<batch, current, reports>>
    BY <1>3 DEF SendProduce
  <2> QED BY <1>0, <2>1, <2>2, <2>3, SameReports
<1>4. ASSUME NEW t \in Threads, PollTake(t)
      PROVE  ReportInv'
  <2>1. \A m \in Msgs : stage'[m] = IF m \in RepQ THEN "taken" ELSE stage[m]
    BY <1>0, <1>4 DEF PollTake, RkTakeAll
  <2>2. \A m \in RepQ : stage[m] = "repq"
    BY DEF RepQ
  <2>3. batch' = [batch EXCEPT ![t] = RepQ] /\ UNCHANGED <<current, reports>>
    BY <1>4 DEF PollTake
  <2> QED BY <1>0, <2>1, <2>2, <2>3 DEF ReportInv
<1>5. ASSUME NEW t \in Threads, DrCb(t)
      PROVE  ReportInv'
  <2>1. PICK m \in Msgs :
          ServeOp(t, m) /\ reports' = [reports EXCEPT ![m] = Append(@, Verdict(m))]
    BY <1>5 DEF DrCb
  <2>2. m \in batch[t] /\ reports[m] = <<>>
    BY <2>1 DEF ServeOp, ReportInv
  <2>3. Verdict(m) \in {"success", "fail"}
    BY DEF Verdict
  <2>4. Append(reports[m], Verdict(m)) \in {<<"success">>, <<"fail">>}
    BY <2>2, <2>3
  <2>5. \A u \in Threads \ {t} : m \notin batch[u]
    BY <2>2 DEF HolderInv, Held
  <2>6. stage[m] = "taken" /\ UNCHANGED stage
    BY <2>1, <2>2 DEF HolderInv, Held, ServeOp
  <2>7. /\ reports'[m] \in {<<"success">>, <<"fail">>}
        /\ reports'[m] # <<>>
        /\ \A p \in Msgs \ {m} : reports'[p] = reports[p]
    BY <1>0, <2>1, <2>4
  <2>8. /\ batch' = [batch EXCEPT ![t] = @ \ {m}]
        /\ current' = [current EXCEPT ![t] = m]
    BY <2>1 DEF ServeOp
  <2> QED BY <1>0, <2>5, <2>6, <2>7, <2>8 DEF ReportInv
<1>6. ASSUME NEW t \in Threads, EventCb(t)
      PROVE  ReportInv'
  BY <1>0, <1>6 DEF EventCb, ServeOp, ReportInv
<1>7. ASSUME NEW t \in Threads, CallbackReturn(t)
      PROVE  ReportInv'
  <2>1. /\ current[t] \in Ops
        /\ stage' = [stage EXCEPT ![current[t]] = "done"]
        /\ current' = [current EXCEPT ![t] = NoOp]
        /\ UNCHANGED <<batch, reports>>
    BY <1>7 DEF CallbackReturn, RkServed, PlaceInv
  <2> QED BY <1>0, <2>1 DEF ReportInv
<1>8. CASE ThreadCheck \/ CloseBegin \/ Drain \/ Stop \/ Join \/ JoinBad
  BY <1>8, SameReports DEF ThreadCheck, CloseBegin, Drain, Stop, Join, JoinBad
<1>9. CASE Delete
  <2>1. \A m \in Msgs : stage[m] \notin InQueue
    BY <1>9 DEF Delete, CloseInv, Drained, Outstanding
  <2>2. \A m \in Msgs : stage'[m] = stage[m]
    <3>1. CASE producer = "handle"
      BY <1>9, <2>1, <3>1 DEF Delete, RkDestroy
    <3>2. CASE producer # "handle"
      BY <1>9, <3>2 DEF Delete
    <3> QED BY <3>1, <3>2
  <2> QED BY <1>9, <2>2, SameReports DEF Delete
<1>10. CASE BrokerThreads
  <2>1. ASSUME NEW m \in Msgs,
               Transmit(m) \/ Ack(m) \/ Refuse(m) \/ Retry(m) \/ GiveUp(m)
        PROVE  ReportInv'
    <3>1. stage[m] \in {"outq", "inflight"} /\ UNCHANGED <<batch, current, reports>>
      BY <1>10, <2>1 DEF BrokerThreads, Transmit, Ack, Refuse, Retry, GiveUp
    <3>2. \E next \in {"outq", "inflight", "repq"} :
            stage' = [stage EXCEPT ![m] = next]
      BY <2>1 DEF Transmit, Ack, Refuse, Retry, GiveUp
    <3> QED BY <1>0, <3>1, <3>2, SameReports
  <2>2. ASSUME NEW e \in Events, EventArrive(e)
        PROVE  ReportInv'
    BY <1>0, <1>10, <2>2, SameReports DEF BrokerThreads, EventArrive
  <2> QED BY <1>10, <2>1, <2>2 DEF BrokerThreads
<1>11. CASE Network \/ UNCHANGED vars
  BY <1>11, SameReports DEF Network, BrokerAppend, RequestLost, vars
<1> QED BY <1>1, <1>2, <1>3, <1>4, <1>5, <1>6, <1>7, <1>8, <1>9, <1>10, <1>11
        DEF Next, InLibrary, CloseStep, Quiet

-----------------------------------------------------------------------------
(* What is written.                                                        *)

LEMMA NoReport == <<>> # <<"fail">> /\ <<>> # <<"success">>
OBVIOUS

\* Steps that change neither the broker's state nor what the client knows of
\* it, and neither send a message nor take one from a request.
LEMMA SameWrites ==
  ASSUME WriteInv, UNCHANGED <<status, wire, log, reports>>,
         \A m \in Msgs :
           \/ stage'[m] = stage[m]
           \/ /\ stage[m] # "inflight"
              /\ stage'[m] \notin {"new", "rejected"}
           \/ stage[m] = "new"
  PROVE  WriteInv'
BY DEF WriteInv, Accepted

LEMMA WritePreserved ==
  ASSUME Quiesce, IInv, [Next]_vars
  PROVE  WriteInv'
<1> USE ThreadFacts DEF Goto, SetStage, kpVars, thVars, rkVars
<1> WriteInv /\ ReportInv /\ PlaceInv /\ HolderInv /\ CloseInv
  BY DEF IInv
<1>0. /\ stage \in [Ops -> Stages]
      /\ status \in [Msgs -> Statuses]
      /\ reports \in [Msgs -> Seq(Verdicts)]
  BY DEF IInv, TypeOK, RkTypeOK
<1>1. CASE InitFails \/ InitOK \/ InitNoThread
  BY <1>1, SameWrites DEF InitFails, InitOK, InitNoThread, InitBegin
<1>2. ASSUME NEW t \in Threads, SendBegin(t) \/ PollEvent(t) \/ PollTimeout(t)
      PROVE  WriteInv'
  BY <1>2, SameWrites DEF SendBegin, PollEvent, PollTimeout
<1>3. ASSUME NEW t \in Threads, SendProduce(t)
      PROVE  WriteInv'
  <2>1. sending[t] \in Msgs /\ stage[sending[t]] = "new"
    BY <1>3 DEF SendProduce, PlaceInv
  <2>2. \A m \in Msgs \ {sending[t]} : stage'[m] = stage[m]
    BY <1>0, <1>3, <2>1 DEF SendProduce, RkAccept, RkReject
  <2>3. UNCHANGED <<status, wire, log, reports>>
    BY <1>3 DEF SendProduce, RkAccept, RkReject
  <2> QED BY <2>1, <2>2, <2>3, SameWrites
<1>4. ASSUME NEW t \in Threads, PollTake(t)
      PROVE  WriteInv'
  BY <1>0, <1>4, SameWrites DEF PollTake, RkTakeAll, RepQ
<1>5. ASSUME NEW t \in Threads, DrCb(t)
      PROVE  WriteInv'
  <2>1. PICK m \in Msgs :
          ServeOp(t, m) /\ reports' = [reports EXCEPT ![m] = Append(@, Verdict(m))]
    BY <1>5 DEF DrCb
  <2>2. reports[m] = <<>>
    BY <2>1 DEF ServeOp, ReportInv
  <2>3. reports'[m] = <<"fail">> => status[m] = "NOT_PERSISTED"
    BY <1>0, <2>1, <2>2 DEF Verdict
  <2>4. \A p \in Msgs \ {m} : reports'[p] = reports[p]
    BY <1>0, <2>1
  <2>5. UNCHANGED <<stage, status, wire, log>>
    BY <2>1 DEF ServeOp
  <2> QED BY <2>3, <2>4, <2>5 DEF WriteInv, Accepted
<1>6. ASSUME NEW t \in Threads, EventCb(t)
      PROVE  WriteInv'
  BY <1>6, SameWrites DEF EventCb, ServeOp
<1>7. ASSUME NEW t \in Threads, CallbackReturn(t)
      PROVE  WriteInv'
  <2>1. current[t] \in Ops /\ stage[current[t]] = "taken"
    BY <1>7 DEF CallbackReturn, PlaceInv, HolderInv, Held
  <2> QED BY <1>0, <1>7, <2>1, SameWrites DEF CallbackReturn, RkServed
<1>8. CASE ThreadCheck \/ CloseBegin \/ Drain \/ Stop \/ Join \/ JoinBad
  BY <1>8, SameWrites DEF ThreadCheck, CloseBegin, Drain, Stop, Join, JoinBad
<1>9. CASE Delete
  <2>1. \A m \in Msgs : stage[m] \notin InQueue
    BY <1>9 DEF Delete, CloseInv, Drained, Outstanding
  <2>2. /\ \A m \in Msgs : stage'[m] = stage[m]
        /\ UNCHANGED <<status, wire, log, reports>>
    <3>1. CASE producer = "handle"
      BY <1>9, <2>1, <3>1 DEF Delete, RkDestroy
    <3>2. CASE producer # "handle"
      BY <1>9, <3>2 DEF Delete
    <3> QED BY <3>1, <3>2
  <2> QED BY <2>2, SameWrites
<1>10. ASSUME NEW m \in Msgs, Transmit(m), UNCHANGED reports
       PROVE  WriteInv'
  BY <1>0, <1>10 DEF Transmit, WriteInv, Accepted
<1>11. ASSUME NEW m \in Msgs, Ack(m), UNCHANGED reports
       PROVE  WriteInv'
  BY <1>0, <1>11 DEF Ack, WriteInv, ReportInv, Accepted
<1>12. ASSUME NEW m \in Msgs, Refuse(m), UNCHANGED reports
       PROVE  WriteInv'
  BY <1>0, <1>12 DEF Refuse, WriteInv, Accepted
<1>13. ASSUME NEW m \in Msgs, Retry(m), UNCHANGED reports
       PROVE  WriteInv'
  <2>1. stage[m] = "inflight" /\ reports[m] # <<"fail">> /\ status'[m] # "NOT_PERSISTED"
    BY <1>0, <1>13, NoReport DEF Retry, MaybeWritten, ReportInv
  <2>2. /\ stage' = [stage EXCEPT ![m] = "outq"]
        /\ \A p \in Msgs \ {m} : status'[p] = status[p]
        /\ UNCHANGED <<wire, log, reports>>
    BY <1>0, <1>13 DEF Retry
  <2> QED BY <1>0, <2>1, <2>2 DEF WriteInv, Accepted
<1>14. ASSUME NEW m \in Msgs, GiveUp(m), UNCHANGED reports
       PROVE  WriteInv'
  <2>1. reports[m] # <<"fail">> /\ stage' = [stage EXCEPT ![m] = "repq"]
        /\ UNCHANGED <<wire, log, reports>>
    BY <1>0, <1>14, NoReport DEF GiveUp, ReportInv
  <2>2. CASE stage[m] = "outq" /\ UNCHANGED status
    BY <1>0, <2>1, <2>2 DEF WriteInv, Accepted
  <2>3. CASE /\ stage[m] = "inflight"
             /\ status' = [status EXCEPT ![m] = MaybeWritten(m)]
    <3>1. status'[m] # "NOT_PERSISTED"
          /\ \A p \in Msgs \ {m} : status'[p] = status[p]
      BY <1>0, <2>3 DEF MaybeWritten
    <3> QED BY <1>0, <2>1, <2>3, <3>1 DEF WriteInv, Accepted
  <2> QED BY <1>14, <2>2, <2>3 DEF GiveUp
<1>15. ASSUME NEW e \in Events, EventArrive(e), UNCHANGED reports
       PROVE  WriteInv'
  BY <1>0, <1>15, SameWrites DEF EventArrive
<1>16. CASE Network
  BY <1>16 DEF Network, BrokerAppend, RequestLost, WriteInv, Accepted
<1>17. CASE UNCHANGED vars
  BY <1>17, SameWrites DEF vars
<1> QED BY <1>1, <1>2, <1>3, <1>4, <1>5, <1>6, <1>7, <1>8, <1>9, <1>10, <1>11,
           <1>12, <1>13, <1>14, <1>15, <1>16, <1>17
        DEF Next, InLibrary, CloseStep, BrokerThreads, Quiet

-----------------------------------------------------------------------------
(* The theorems.                                                           *)

LEMMA InitEstablishes == Init => IInv
<1> SUFFICES ASSUME Init PROVE IInv
  OBVIOUS
<1> USE ThreadFacts DEF Init, RkInit
<1>1. TypeOK
  <2>1. RkTypeOK
    BY DEF RkTypeOK, Stages, Statuses
  <2>2. reports \in [Msgs -> Seq(Verdicts)]
    OBVIOUS
  <2>3. pc \in [Threads -> PCs]
    BY DEF PCs
  <2>4. opens \in 0 .. MaxOpens
    BY MaxOpensAssumption
  <2>5. /\ batch \in [Threads -> SUBSET Ops]
        /\ current \in [Threads -> Ops \cup {NoOp}]
        /\ sending \in [Threads -> Msgs \cup {NoOp}]
    OBVIOUS
  <2> HIDE DEF RkInit
  <2> QED BY <2>1, <2>2, <2>3, <2>4, <2>5 DEF TypeOK
<1>2. CountInv
  <2>1. Outstanding = {}
    BY DEF Outstanding, InQueue
  <2> QED BY <2>1, FS_EmptySet, MaxMsgsAssumption DEF CountInv
<1>3. HolderInv /\ PlaceInv
  BY DEF HolderInv, PlaceInv, Held
<1>4. RoleInv /\ CloseInv
  BY DEF RoleInv, CloseInv, InCall, Closing, Drained, Outstanding, InQueue
<1>5. ReportInv /\ WriteInv
  BY NoOpAssumption DEF ReportInv, WriteInv
<1> QED BY <1>1, <1>2, <1>3, <1>4, <1>5 DEF IInv

\* The inductive invariant of the producer holds in every behaviour in which
\* the application keeps its threads out of the producer while closing it.
THEOREM Invariance ==
  ASSUME Quiesce
  PROVE  Spec => []IInv
<1>1. IInv /\ [Next]_vars => IInv'
  BY TypePreserved, CountPreserved, HolderPreserved, PlacePreserved,
     RolePreserved, ClosePreserved, ReportPreserved, WritePreserved DEF IInv
<1> QED BY InitEstablishes, <1>1, PTL DEF Spec

\* Every variable keeps its type; that the counter of current messages never
\* goes below zero rests on the accounting being exact.
THEOREM TypeCorrect ==
  ASSUME Quiesce
  PROVE  Spec => []TypeOK
<1>1. IInv => TypeOK
  BY DEF IInv
<1> QED BY <1>1, Invariance, PTL

\* The counter that bounds the queue, and that closeKafka waits for, is the
\* number of messages whose callback has not returned, and keeps the limit.
THEOREM AccountingExact ==
  ASSUME Quiesce
  PROVE  Spec => []OutqCounts
<1>1. IInv => OutqCounts
  BY DEF IInv, CountInv, OutqCounts
<1> QED BY <1>1, Invariance, PTL

\* closeKafka deletes the handle only when no thread is inside it.
THEOREM DeleteIsSafe ==
  ASSUME Quiesce
  PROVE  Spec => []NoUseAfterDelete
<1>1. IInv => NoUseAfterDelete
  BY DEF IInv, CloseInv, InCall, NoUseAfterDelete
<1> QED BY <1>1, Invariance, PTL

\* When the producer is closed every message send() accepted has been
\* reported, and once.
THEOREM NoReportMissing ==
  ASSUME Quiesce
  PROVE  Spec => []ClosedMeansReported
<1>1. IInv => ClosedMeansReported
  <2> SUFFICES ASSUME IInv, producer = "NULL", NEW m \in Accepted
               PROVE  Len(reports[m]) = 1
    BY DEF ClosedMeansReported
  <2>1. m \in Msgs /\ m \notin Outstanding
    BY DEF IInv, CloseInv, Accepted
  <2>2. stage[m] \in Stages /\ stage[m] # "lost"
    BY <2>1, ThreadFacts DEF IInv, TypeOK, RkTypeOK, ReportInv
  <2>3. stage[m] = "done"
    BY <2>1, <2>2 DEF Stages, Outstanding, InQueue, Accepted
  <2>4. reports[m] \in {<<"success">>, <<"fail">>}
    BY <2>1, <2>3 DEF IInv, ReportInv
  <2> QED BY <2>4
<1> QED BY <1>1, Invariance, PTL

\* Every report taken from the reply queue is in the hands of one thread.
THEOREM TakenOnce ==
  ASSUME Quiesce
  PROVE  Spec => []TakenByOne
<1>1. IInv => TakenByOne
  <2> SUFFICES ASSUME IInv, NEW o \in Ops
               PROVE  Cardinality({t \in Threads : o \in batch[t] \cup {current[t]}}) =
                        IF stage[o] = "taken" THEN 1 ELSE 0
    BY DEF TakenByOne
  <2> DEFINE holders == {t \in Threads : o \in batch[t] \cup {current[t]}}
  <2>1. \A t \in Threads : t \in holders <=> o \in Held(t)
    BY ThreadFacts DEF Held
  <2>2. CASE stage[o] = "taken"
    <3>1. PICK t \in Threads : o \in Held(t)
      BY <2>2 DEF IInv, HolderInv
    <3>2. \A u \in Threads \ {t} : o \notin Held(u)
      BY <3>1 DEF IInv, HolderInv
    <3>3. holders = {t}
      BY <2>1, <3>1, <3>2
    <3> QED BY <2>2, <3>3, FS_Singleton
  <2>3. CASE stage[o] # "taken"
    <3>1. holders = {}
      BY <2>1, <2>3 DEF IInv, HolderInv
    <3> QED BY <2>3, <3>1, FS_EmptySet
  <2> QED BY <2>2, <2>3
<1> QED BY <1>1, Invariance, PTL

\* A message reported through fail() is not in the topic log and never will
\* be: sending it again duplicates nothing.
THEOREM FailIsFinal ==
  ASSUME Quiesce
  PROVE  Spec => []FailMeansNotWritten
<1>1. IInv => FailMeansNotWritten
  <2> SUFFICES ASSUME IInv, NEW m \in Msgs, reports[m] = <<"fail">>
               PROVE  m \notin wire \cup log
    BY DEF FailMeansNotWritten
  <2>1. status[m] = "NOT_PERSISTED"
    BY DEF IInv, WriteInv
  <2>2. stage[m] # "inflight"
    BY DEF IInv, ReportInv
  <2> QED BY <2>1, <2>2 DEF IInv, WriteInv
<1> QED BY <1>1, Invariance, PTL

-----------------------------------------------------------------------------
(* The producer implements the delivery contract.                          *)

\* Steps the contract does not see.
LEMMA ContractStutter ==
  ASSUME UNCHANGED <<producer, reports, log>>,
         \A m \in Msgs :
           stage'[m] \in {"new", "rejected"} <=> stage[m] \in {"new", "rejected"}
  PROVE  UNCHANGED Contract!vars
<1>1. Accepted' = Accepted
  BY DEF Accepted
<1> QED BY <1>1 DEF Contract!vars

LEMMA ContractStep ==
  ASSUME Quiesce, IInv, [Next]_vars
  PROVE  [Contract!Next]_Contract!vars
<1> USE ThreadFacts DEF Goto, SetStage, kpVars, thVars, rkVars
<1> ReportInv /\ WriteInv /\ PlaceInv /\ HolderInv /\ CloseInv
  BY DEF IInv
<1>0. /\ stage \in [Ops -> Stages]
      /\ status \in [Msgs -> Statuses]
      /\ reports \in [Msgs -> Seq(Verdicts)]
      /\ producer \in {"NULL", "handle"}
  BY DEF IInv, TypeOK, RkTypeOK
<1>1. CASE InitFails
  BY <1>1, ContractStutter DEF InitFails, InitBegin
<1>2. CASE InitOK \/ InitNoThread
  <2>1. producer = "NULL" /\ producer' = "handle" /\ UNCHANGED <<stage, reports, log>>
    BY <1>2 DEF InitOK, InitNoThread, InitBegin
  <2>2. Contract!Open
    BY <2>1 DEF Contract!Open, Accepted
  <2> QED BY <2>2 DEF Contract!Next
<1>3. ASSUME NEW t \in Threads, SendBegin(t) \/ PollEvent(t) \/ PollTimeout(t)
      PROVE  UNCHANGED Contract!vars
  BY <1>3, ContractStutter DEF SendBegin, PollEvent, PollTimeout
<1>4. ASSUME NEW t \in Threads, SendProduce(t)
      PROVE  [Contract!Next]_Contract!vars
  <2> DEFINE m == sending[t]
  <2>1. m \in Msgs /\ stage[m] = "new" /\ producer = "handle"
    BY <1>4 DEF SendProduce, PlaceInv
  <2>2. CASE RkReject(m)
    <3>1. \A p \in Msgs : stage'[p] \in {"new", "rejected"} <=>
                          stage[p] \in {"new", "rejected"}
      BY <1>0, <2>1, <2>2 DEF RkReject
    <3> QED BY <1>4, <2>2, <3>1, ContractStutter DEF SendProduce, RkReject
  <2>3. CASE RkAccept(m)
    <3>1. m \notin Accepted /\ Accepted' = Accepted \cup {m}
      BY <1>0, <2>1, <2>3 DEF RkAccept, Accepted
    <3>2. UNCHANGED <<producer, reports, log>>
      BY <1>4, <2>3 DEF SendProduce, RkAccept
    <3>3. Contract!Accept(m)
      BY <2>1, <3>1, <3>2 DEF Contract!Accept
    <3> QED BY <2>1, <3>3 DEF Contract!Next
  <2> QED BY <1>4, <2>2, <2>3 DEF SendProduce
<1>5. ASSUME NEW t \in Threads, PollTake(t)
      PROVE  UNCHANGED Contract!vars
  BY <1>0, <1>5, ContractStutter DEF PollTake, RkTakeAll, RepQ
<1>6. ASSUME NEW t \in Threads, DrCb(t)
      PROVE  [Contract!Next]_Contract!vars
  <2>1. PICK m \in Msgs :
          ServeOp(t, m) /\ reports' = [reports EXCEPT ![m] = Append(@, Verdict(m))]
    BY <1>6 DEF DrCb
  <2>2. /\ producer = "handle"
        /\ reports[m] = <<>>
        /\ stage[m] = "taken"
        /\ UNCHANGED <<producer, stage, log>>
    BY <2>1 DEF ServeOp, ReportInv, HolderInv, Held
  <2>3. m \in Accepted /\ Accepted' = Accepted
    BY <2>2 DEF Accepted
  <2>4. Verdict(m) = "fail" => m \notin log
    BY <2>2 DEF Verdict, WriteInv
  <2>5. reports' = [reports EXCEPT ![m] = <<Verdict(m)>>]
    BY <1>0, <2>1, <2>2
  <2>6. Verdict(m) \in Contract!Verdicts
    BY DEF Verdict, Contract!Verdicts
  <2>7. Contract!Report(m, Verdict(m))
    BY <2>2, <2>3, <2>4, <2>5 DEF Contract!Report
  <2> QED BY <2>6, <2>7 DEF Contract!Next
<1>7. ASSUME NEW t \in Threads, EventCb(t)
      PROVE  UNCHANGED Contract!vars
  BY <1>7, ContractStutter DEF EventCb, ServeOp
<1>8. ASSUME NEW t \in Threads, CallbackReturn(t)
      PROVE  UNCHANGED Contract!vars
  <2>1. current[t] \in Ops /\ stage[current[t]] = "taken"
    BY <1>8 DEF CallbackReturn, PlaceInv, HolderInv, Held
  <2>2. \A m \in Msgs : stage'[m] \in {"new", "rejected"} <=>
                        stage[m] \in {"new", "rejected"}
    BY <1>0, <1>8, <2>1 DEF CallbackReturn, RkServed
  <2> QED BY <1>8, <2>2, ContractStutter DEF CallbackReturn, RkServed
<1>9. CASE ThreadCheck \/ CloseBegin \/ Drain \/ Stop \/ Join \/ JoinBad
  BY <1>9, ContractStutter
     DEF ThreadCheck, CloseBegin, Drain, Stop, Join, JoinBad
<1>10. CASE Delete
  <2>1. \A m \in Msgs : stage[m] \notin InQueue
    BY <1>10 DEF Delete, CloseInv, Drained, Outstanding
  <2>2. CASE producer = "handle"
    <3>1. \A m \in Msgs : stage'[m] = stage[m]
      BY <1>10, <2>1, <2>2 DEF Delete, RkDestroy
    <3>2. producer' = "NULL" /\ UNCHANGED <<reports, log>>
      BY <1>10, <2>2 DEF Delete, RkDestroy
    <3>3. Accepted' = Accepted
      BY <3>1 DEF Accepted
    <3>4. \A m \in Accepted : reports[m] # <<>>
      BY <1>0, <2>1 DEF ReportInv, Accepted, InQueue, Stages
    <3>5. Contract!Close
      BY <2>2, <3>2, <3>3, <3>4 DEF Contract!Close
    <3> QED BY <3>5 DEF Contract!Next
  <2>3. CASE producer = "NULL"
    BY <1>10, <2>3, ContractStutter DEF Delete
  <2> QED BY <1>0, <2>2, <2>3
<1>11. CASE BrokerThreads
  <2>1. ASSUME NEW m \in Msgs,
               Transmit(m) \/ Ack(m) \/ Refuse(m) \/ Retry(m) \/ GiveUp(m)
        PROVE  UNCHANGED Contract!vars
    <3>1. stage[m] \in {"outq", "inflight"} /\ UNCHANGED <<producer, reports, log>>
      BY <1>11, <2>1 DEF BrokerThreads, Transmit, Ack, Refuse, Retry, GiveUp
    <3>2. \E next \in {"outq", "inflight", "repq"} :
            stage' = [stage EXCEPT ![m] = next]
      BY <2>1 DEF Transmit, Ack, Refuse, Retry, GiveUp
    <3> QED BY <1>0, <3>1, <3>2, ContractStutter
  <2>2. ASSUME NEW e \in Events, EventArrive(e)
        PROVE  UNCHANGED Contract!vars
    BY <1>0, <1>11, <2>2, ContractStutter DEF BrokerThreads, EventArrive
  <2> QED BY <1>11, <2>1, <2>2 DEF BrokerThreads
<1>12. ASSUME NEW m \in Msgs, BrokerAppend(m), UNCHANGED <<kpVars, thVars>>
       PROVE  [Contract!Next]_Contract!vars
  <2>1. m \in Accepted /\ log' = log \cup {m} /\ UNCHANGED <<producer, stage, reports>>
    BY <1>12 DEF BrokerAppend, WriteInv
  <2>2. reports[m] # <<"fail">>
    BY <1>12, NoReport DEF BrokerAppend, WriteInv, ReportInv
  <2>3. CASE m \in log
    <3>1. log' = log
      BY <2>1, <2>3
    <3> QED BY <2>1, <3>1, ContractStutter
  <2>4. CASE m \notin log
    <3>1. Contract!Write(m)
      BY <2>1, <2>2, <2>4 DEF Contract!Write, Accepted
    <3> QED BY <2>1, <3>1 DEF Contract!Next, Accepted
  <2> QED BY <2>3, <2>4
<1>13. ASSUME NEW m \in Msgs, RequestLost(m), UNCHANGED <<kpVars, thVars>>
       PROVE  UNCHANGED Contract!vars
  BY <1>13, ContractStutter DEF RequestLost
<1>14. CASE UNCHANGED vars
  BY <1>14, ContractStutter DEF vars
<1> QED BY <1>1, <1>2, <1>3, <1>4, <1>5, <1>6, <1>7, <1>8, <1>9, <1>10, <1>11,
           <1>12, <1>13, <1>14 DEF Next, InLibrary, CloseStep, Network, Quiet

\* Every behaviour of the producer is one the delivery contract allows.
THEOREM Implementation ==
  ASSUME Quiesce
  PROVE  Spec => ImplementsContract
<1>1. Init => Contract!Init
  BY ThreadFacts DEF Init, RkInit, Contract!Init, Accepted
<1>2. IInv /\ [Next]_vars => [Contract!Next]_Contract!vars
  BY ContractStep
<1> QED BY <1>1, <1>2, Invariance, PTL DEF Spec, Contract!Spec, ImplementsContract
=============================================================================
