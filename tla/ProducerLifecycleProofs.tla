---------------------- MODULE ProducerLifecycleProofs ----------------------
(***************************************************************************)
(* Theorems about ProducerLifecycle, for any callbacks and any number of   *)
(* initialisations, successful or not, of an application that closes       *)
(* before it initialises again or destroys the object, and hands no        *)
(* callback over twice.                                                    *)
(***************************************************************************)
EXTENDS ProducerLifecycle, TLAPS

Disciplined == CloseFirst /\ FreshCallbacks

\* At most one handle and one configuration are allocated, and the members
\* point to them.
HeapInv ==
  /\ confs = {conf} \ {NULL}
  /\ handles = {producer} \ {NULL}
  /\ ~alive => producer = NULL /\ conf = NULL
  /\ pc # "idle" => alive
  /\ \A g \in Gens : g > inits => tpc[g] = "none"

\* At most one polling thread runs, the one closeKafka joins, on the handle
\* closeKafka deletes, and it is told to stop before it is joined.
ThreadInv ==
  /\ pc \in {"join", "delete"} => ~bRun
  /\ pc = "join" => tid # NULL
  /\ \A g \in Gens :
       /\ Running(g) =>
            /\ tid = g /\ producer = g /\ evProducer = g
            /\ bRun \/ pc = "join"
       /\ tpc[g] \in {"poll", "callback"} => polling[g] = g
       /\ tpc[g] = "callback" => calling[g] = sendCallback

\* The callback in place has not been deleted, the ones it replaced have.
CallbackInv ==
  /\ alive => sendCallback = IF isDefault THEN Default ELSE mine
  /\ ~isDefault /\ alive => mine # NoCallback
  /\ isDefault => mine = NoCallback
  /\ mine # NoCallback => mine \in handed
  /\ \A o \in Objects :
       frees[o] = IF o = mine \/ o \notin handed \cup {Default}
                       \/ (alive /\ o = sendCallback)
                  THEN 0 ELSE 1

IInv == TypeOK /\ HeapInv /\ ThreadInv /\ CallbackInv

-----------------------------------------------------------------------------

LEMMA InitHolds == Init => IInv
<1> SUFFICES ASSUME Init PROVE IInv
  OBVIOUS
<1> USE CallbacksAssumption, MaxInitsAssumption DEF Init
<1>1. TypeOK
  <2>1. /\ inits \in 0 .. MaxInits
        /\ {conf, producer, tid, evProducer} \subseteq Gens \cup {NULL}
    BY DEF Gens, NULL
  <2>2. /\ tpc \in [Gens -> ThreadPCs]
        /\ polling \in [Gens -> Gens \cup {NULL}]
        /\ calling \in [Gens -> Objects \cup {NoCallback}]
        /\ frees \in [Objects -> 0 .. 1]
    BY DEF ThreadPCs
  <2>3. pc \in PCs /\ sendCallback \in Objects \cup {NoCallback}
    BY DEF PCs, Objects
  <2>4. /\ {alive, bRun, isDefault} \subseteq BOOLEAN
        /\ confs \subseteq Gens /\ handles \subseteq Gens /\ busy \subseteq handles
        /\ handed \subseteq Callbacks /\ mine \in Callbacks \cup {NoCallback}
    OBVIOUS
  <2> QED BY <2>1, <2>2, <2>3, <2>4 DEF TypeOK
<1>2. HeapInv
  BY DEF HeapInv, NULL
<1>3. ThreadInv
  BY DEF ThreadInv, Running
<1>4. CallbackInv
  BY DEF CallbackInv, Objects
<1> QED BY <1>1, <1>2, <1>3, <1>4 DEF IInv

\* initKafka creates the next generation, of which nothing exists yet, when
\* nothing of the earlier ones is left.
LEMMA InitBeginFacts ==
  ASSUME Disciplined, IInv, InitBegin
  PROVE  /\ inits' \in Gens /\ inits' # NULL
         /\ confs' = {inits'} /\ conf' = inits'
         /\ handles = {} /\ busy = {} /\ producer = NULL
         /\ \A g \in Gens : ~Running(g)
         /\ \A g \in Gens : g >= inits' => tpc[g] = "none"
<1> USE MaxInitsAssumption
    DEF Disciplined, IInv, TypeOK, HeapInv, ThreadInv, InitBegin, Gens, NULL
<1>1. /\ inits' \in Gens /\ inits' # NULL /\ inits' = inits + 1 /\ inits \in Nat
      /\ producer = NULL /\ conf = NULL
  OBVIOUS
<1>2. confs' = {inits'} /\ conf' = inits' /\ handles = {} /\ busy = {}
  BY <1>1
<1>3. \A g \in Gens : ~Running(g)
  BY <1>1
<1>4. \A g \in Gens : g >= inits' => tpc[g] = "none"
  BY <1>1
<1> QED BY <1>1, <1>2, <1>3, <1>4

\* Handing a callback over deletes the one it replaces, once, and nobody is
\* running it.
LEMMA HandOverFacts ==
  ASSUME Disciplined, IInv, alive, alive', HandOver
  PROVE  /\ CallbackInv'
         /\ sendCallback' \in Objects \cup {NoCallback} /\ isDefault' \in BOOLEAN
         /\ handed' \subseteq Callbacks /\ mine' \in Callbacks \cup {NoCallback}
         /\ frees' \in [Objects -> 0 .. 1]
<1> USE CallbacksAssumption DEF IInv, TypeOK, CallbackInv, Disciplined, Objects
<1>1. CASE UNCHANGED callbacks
  BY <1>1 DEF callbacks
<1>2. ASSUME NEW cb \in Callbacks, cb \notin handed, SetSendCallback(cb)
      PROVE  /\ CallbackInv'
             /\ sendCallback' \in Objects \cup {NoCallback} /\ isDefault' \in BOOLEAN
             /\ handed' \subseteq Callbacks /\ mine' \in Callbacks \cup {NoCallback}
             /\ frees' \in [Objects -> 0 .. 1]
  <2>1. /\ sendCallback' = cb /\ isDefault' = FALSE /\ mine' = cb
        /\ handed' = handed \cup {cb}
        /\ sendCallback \in Objects /\ sendCallback \in handed \cup {Default}
        /\ frees' = [frees EXCEPT ![sendCallback] = @ + 1]
    BY <1>2 DEF SetSendCallback, Free
  <2>2. frees[sendCallback] = 0 /\ sendCallback # cb
    BY <1>2, <2>1
  <2>3. \A o \in Objects : frees'[o] = IF o = sendCallback THEN 1 ELSE frees[o]
    BY <2>1, <2>2
  <2>4. \A o \in Objects : o # sendCallback => o # mine
    BY <2>1
  <2>5. \A o \in Objects :
          frees'[o] = IF o = cb \/ o \notin handed \cup {cb} \cup {Default} THEN 0 ELSE 1
    <3> SUFFICES ASSUME NEW o \in Objects
                 PROVE  frees'[o] = IF o = cb \/ o \notin handed \cup {cb} \cup {Default}
                                    THEN 0 ELSE 1
      OBVIOUS
    <3>1. CASE o = sendCallback
      BY <2>1, <2>2, <2>3, <3>1
    <3>2. CASE o # sendCallback
      <4>1. frees'[o] = frees[o] /\ o # mine
        BY <2>3, <2>4, <3>2
      <4>2. frees[o] = IF o \notin handed \cup {Default} THEN 0 ELSE 1
        BY <3>2, <4>1
      <4>3. cb \notin handed \cup {Default}
        BY <1>2
      <4> QED BY <4>1, <4>2, <4>3
    <3> QED BY <3>1, <3>2
  <2>6. CallbackInv'
    BY <2>1, <2>5
  <2>7. frees' \in [Objects -> 0 .. 1]
    BY <2>1, <2>2
  <2>8. handed' \subseteq Callbacks
    BY <1>2, <2>1
  <2> QED BY <1>2, <2>1, <2>6, <2>7, <2>8
<1> QED BY <1>1, <1>2 DEF HandOver

LEMMA InitPreserved ==
  ASSUME Disciplined, IInv,
         InitFailsEarly \/ InitFailsLate \/ InitNoProducer \/ InitOK
  PROVE  IInv'
<1>1. InitBegin /\ alive /\ alive' /\ pc = "idle" /\ pc' = "idle"
  BY DEF InitFailsEarly, InitFailsLate, InitNoProducer, InitOK, InitBegin
<1>2. HandOver
  BY DEF InitFailsEarly, InitFailsLate, InitNoProducer, InitOK, HandOver
<1>3. CallbackInv'
  BY <1>1, <1>2, HandOverFacts
<1> USE MaxInitsAssumption, InitBeginFacts, HandOverFacts, <1>1, <1>2
<1>4. CASE InitFailsEarly \/ InitFailsLate \/ InitNoProducer
  <2>0. /\ UNCHANGED <<tid, bRun, evProducer, handles, busy, threads>>
        /\ producer' = NULL
    BY <1>4 DEF InitFailsEarly, InitFailsLate, InitNoProducer
  <2>1. TypeOK'
    BY <2>0 DEF IInv, TypeOK, threads, Gens, InitBegin
  <2>2. HeapInv'
    <3>1. confs' = {conf'} \ {NULL} /\ handles' = {producer'} \ {NULL}
      BY <2>0
    <3>2. \A g \in Gens : g > inits' => tpc'[g] = "none"
      BY <2>0 DEF threads, Gens
    <3> QED BY <3>1, <3>2 DEF HeapInv
  <2>3. ThreadInv'
    BY <2>0 DEF ThreadInv, IInv, TypeOK, Running, threads
  <2> QED BY <1>3, <2>1, <2>2, <2>3 DEF IInv
<1>5. CASE InitOK
  <2>0. /\ producer' = inits' /\ handles' = {inits'} /\ bRun' = TRUE
        /\ evProducer' = inits' /\ tid' = inits'
        /\ tpc' = [tpc EXCEPT ![inits'] = "check"]
        /\ UNCHANGED <<busy, polling, calling>>
    BY <1>5 DEF InitOK
  <2>1. TypeOK'
    BY <2>0 DEF IInv, TypeOK, Gens, InitBegin, ThreadPCs
  <2>2. HeapInv'
    BY <2>0 DEF HeapInv, IInv, TypeOK, NULL, Gens
  <2>3. ThreadInv'
    BY <2>0 DEF ThreadInv, IInv, TypeOK, Running
  <2> QED BY <1>3, <2>1, <2>2, <2>3 DEF IInv
<1> QED BY <1>4, <1>5

\* A polling thread polls the handle of its own generation, and calls the
\* callback in place.
LEMMA ThreadPreserved ==
  ASSUME IInv, NEW g \in Gens, Thread(g)
  PROVE  IInv'
<1> USE DEF IInv, TypeOK, Running, members, callbacks, heap, ThreadPCs
<1>1. HeapInv' /\ CallbackInv'
  BY DEF HeapInv, CallbackInv, Thread, ThreadCheck, ThreadPollReturns,
         ThreadReport, ThreadReported
<1>2. CASE ThreadCheck(g)
  BY <1>1, <1>2 DEF ThreadCheck, ThreadInv
<1>3. CASE ThreadPollReturns(g)
  BY <1>1, <1>3 DEF ThreadPollReturns, ThreadInv
<1>4. CASE ThreadReport(g)
  BY <1>1, <1>4 DEF ThreadReport, ThreadInv
<1>5. CASE ThreadReported(g)
  BY <1>1, <1>5 DEF ThreadReported, ThreadInv
<1> QED BY <1>2, <1>3, <1>4, <1>5 DEF Thread

\* closeKafka and the destructor.
LEMMA ClosePreserved ==
  ASSUME Disciplined, IInv,
         Send \/ CloseBegin \/ Drain \/ Stop \/ Join \/ Delete \/ Destroy \/ AppDelete
  PROVE  IInv'
<1> USE MaxInitsAssumption, CallbacksAssumption
    DEF IInv, TypeOK, Running, members, callbacks, heap, threads, PCs, NULL,
        Gens, Disciplined
<1>1. CASE Send
  BY <1>1 DEF Send, HeapInv, ThreadInv, CallbackInv
<1>2. CASE CloseBegin
  BY <1>2 DEF CloseBegin, HeapInv, ThreadInv, CallbackInv
<1>3. CASE Drain
  <2>1. TypeOK' /\ pc' = "stop" /\ pc # "idle"
    BY <1>3 DEF Drain
  <2>2. HeapInv' /\ CallbackInv'
    BY <1>3, <2>1 DEF Drain, HeapInv, CallbackInv
  <2>3. ThreadInv'
    BY <1>3, <2>1 DEF Drain, ThreadInv
  <2> QED BY <2>1, <2>2, <2>3
<1>4. CASE Stop
  <2>1. TypeOK' /\ HeapInv' /\ CallbackInv'
    BY <1>4 DEF Stop, HeapInv, CallbackInv
  <2>2. ThreadInv'
    <3>1. /\ UNCHANGED <<tid, producer, evProducer, sendCallback, threads>>
          /\ bRun' = FALSE /\ pc = "stop"
          /\ pc' = IF bRun /\ tid # NULL THEN "join" ELSE "delete"
      BY <1>4 DEF Stop, members, callbacks
    <3>2. ASSUME NEW g \in Gens, Running(g)
          PROVE  tid = g /\ producer = g /\ evProducer = g /\ pc' = "join"
      BY <3>1, <3>2 DEF ThreadInv
    <3>3. pc' = "join" => tid' # NULL
      BY <3>1
    <3>4. \A g \in Gens : Running(g)' => Running(g)
      BY <3>1
    <3> QED BY <3>1, <3>2, <3>3, <3>4 DEF ThreadInv
  <2> QED BY <2>1, <2>2
<1>5. CASE Join
  BY <1>5 DEF Join, HeapInv, ThreadInv, CallbackInv
<1>6. CASE Delete
  BY <1>6 DEF Delete, HeapInv, ThreadInv, CallbackInv
<1>7. CASE Destroy
  <2>1. /\ pc = "idle" /\ alive /\ producer = NULL /\ conf = NULL /\ alive' = FALSE
        /\ UNCHANGED <<inits, pc, conf, producer, tid, bRun, evProducer,
                       isDefault, handed, mine, heap, threads>>
    BY <1>7 DEF Destroy
  <2>2. HeapInv'
    BY <2>1 DEF HeapInv
  <2>3. \A g \in Gens : tpc'[g] \in {"none", "exited"}
    BY <2>1 DEF ThreadInv
  <2>4. ThreadInv'
    <3>1. \A g \in Gens : ~Running(g)' /\ tpc'[g] # "callback" /\ tpc'[g] # "poll"
      BY <2>3
    <3>2. pc' = "idle"
      BY <1>7 DEF Destroy
    <3> QED BY <3>1, <3>2, Zenon DEF ThreadInv
  <2>5. CASE isDefault
    <3>1. /\ sendCallback' = NoCallback
          /\ frees' = [frees EXCEPT ![Default] = @ + 1]
          /\ frees[Default] = 0
      BY <1>7, <2>1, <2>5 DEF Destroy, Free, CallbackInv, Objects
    <3>2. frees' \in [Objects -> 0 .. 1]
      BY <3>1 DEF Objects
    <3>3. \A o \in Objects : frees'[o] = IF o = Default THEN 1 ELSE frees[o]
      BY <3>1
    <3>4. CallbackInv'
      BY <2>1, <2>5, <3>1, <3>3 DEF CallbackInv, Objects
    <3>5. TypeOK'
      BY <2>1, <3>1, <3>2
    <3> QED BY <2>2, <2>4, <3>4, <3>5
  <2>6. CASE ~isDefault
    <3>1. UNCHANGED <<sendCallback, frees>>
      BY <1>7, <2>6 DEF Destroy
    <3>2. CallbackInv'
      BY <2>1, <2>6, <3>1 DEF CallbackInv
    <3>3. TypeOK'
      BY <2>1, <3>1
    <3> QED BY <2>2, <2>4, <3>2, <3>3
  <2> QED BY <2>5, <2>6
<1>8. CASE AppDelete
  <2>1. /\ ~alive /\ mine # NoCallback /\ mine' = NoCallback
        /\ frees' = [frees EXCEPT ![mine] = @ + 1]
        /\ UNCHANGED <<inits, pc, members, sendCallback, isDefault, handed,
                       heap, threads>>
    BY <1>8 DEF AppDelete, Free
  <2>2. mine \in Objects /\ mine \in handed /\ frees[mine] = 0 /\ ~isDefault
    BY <2>1 DEF CallbackInv, Objects
  <2>3. \A o \in Objects : frees'[o] = IF o = mine THEN 1 ELSE frees[o]
    BY <2>1, <2>2
  <2>4. frees' \in [Objects -> 0 .. 1]
    BY <2>1, <2>2
  <2>5. CallbackInv'
    BY <2>1, <2>2, <2>3 DEF CallbackInv, Objects
  <2>6. TypeOK'
    BY <2>1, <2>4
  <2>7. HeapInv' /\ ThreadInv'
    BY <2>1 DEF HeapInv, ThreadInv
  <2> QED BY <2>5, <2>6, <2>7
<1> QED BY <1>1, <1>2, <1>3, <1>4, <1>5, <1>6, <1>7, <1>8

LEMMA StutterPreserved == IInv /\ UNCHANGED vars => IInv'
BY DEF vars, members, callbacks, heap, threads, IInv, TypeOK, HeapInv,
       ThreadInv, CallbackInv, Running

-----------------------------------------------------------------------------

\* One handle, one configuration and one thread at most, all of the same
\* generation, and the ownership of the callbacks.
THEOREM Invariance == ASSUME Disciplined PROVE Spec => []IInv
<1>1. Init => IInv
  BY InitHolds
<1>2. IInv /\ [Next]_vars => IInv'
  BY InitPreserved, ThreadPreserved, ClosePreserved, StutterPreserved DEF Next
<1> QED BY <1>1, <1>2, PTL DEF Spec

\* Every variable keeps its type: no callback is deleted twice.
THEOREM TypeCorrect == ASSUME Disciplined PROVE Spec => []TypeOK
<1>1. IInv => TypeOK
  BY DEF IInv
<1> QED BY <1>1, Invariance, PTL

\* No polling thread uses a deleted handle, a deleted callback or a destroyed
\* object.
THEOREM UseIsSafe == ASSUME Disciplined PROVE Spec => []NoUseAfterFree
<1>1. IInv => NoUseAfterFree
  <2> SUFFICES ASSUME IInv, NEW g \in Gens, Running(g)
               PROVE  /\ tpc[g] \in {"poll", "callback"} => polling[g] \in handles
                      /\ tpc[g] = "callback" => frees[calling[g]] = 0
                      /\ alive
    BY DEF NoUseAfterFree, Running
  <2>1. alive /\ handles = {g}
    BY DEF IInv, HeapInv, ThreadInv, Gens, NULL
  <2>2. sendCallback \in Objects /\ frees[sendCallback] = 0
    BY <2>1, CallbacksAssumption DEF IInv, TypeOK, CallbackInv, Objects
  <2> QED BY <2>1, <2>2 DEF IInv, ThreadInv
<1> QED BY <1>1, Invariance, PTL

\* A destroyed object leaves nothing behind but the callback the application
\* owns.
THEOREM AllReleased == ASSUME Disciplined PROVE Spec => []NothingLeft
<1>1. IInv => NothingLeft
  BY DEF IInv, TypeOK, HeapInv, ThreadInv, CallbackInv, NothingLeft, Objects,
         Gens, NULL
<1> QED BY <1>1, Invariance, PTL

=============================================================================
