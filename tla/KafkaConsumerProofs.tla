------------------------ MODULE KafkaConsumerProofs ------------------------
(***************************************************************************)
(* Theorems about KafkaConsumer, for every set of members and every number *)
(* of records.  The refinement of ConsumeContract is proved for a consumer *)
(* that has the group to itself and starts at the earliest record.         *)
(***************************************************************************)
EXTENDS KafkaConsumer, TLAPS

\* What the group has dealt with or is dealing with.
Covered == received \cup Held \cup dropped \cup skipped

\* Every record before offset n is covered.
Safe(n) == \A o \in Offsets : o < n => o \in Covered

\* What consume() holds, according to where the thread is.
PlaceInv ==
  \A c \in Consumers :
    /\ unfreed[c] = IF pc[c] = "switch" THEN 1 ELSE 0
    /\ message[c] = None <=> pc[c] # "switch"
    /\ pc[c] = "switch" => started[c]

\* Nobody fetches, stores, commits, handles or has received an offset before
\* all the earlier ones are covered.
CoverInv ==
  /\ Safe(committed)
  /\ \A c \in Consumers :
       /\ Safe(position[c])
       /\ Safe(stored[c])
       /\ Safe(message[c])
  /\ \A o \in received : Safe(o)

IInv == TypeOK /\ PlaceInv /\ CoverInv

\* With one member and auto.offset.reset=earliest.
Alone == Reset = "earliest" /\ \E c \in Consumers : Consumers = {c}

\* The offsets of a member that is alone: what it has fetched and not yet
\* returned is the message it holds.
AloneAt(c) ==
  /\ committed <= end
  /\ message[c] < end
  /\ stored[c] # None => stored[c] = position[c]
  /\ position[c] # None =>
       /\ committed <= position[c]
       /\ position[c] <= end
       /\ \A p \in Offsets : committed <= p /\ p < position[c] =>
            p \in received \cup {message[c]}
  /\ \A p \in Offsets : committed <= p /\ p < message[c] => p \in received

AloneInv == \A c \in Consumers : AloneAt(c)

-----------------------------------------------------------------------------
(* Type correctness, with what consume() holds.                            *)

LEMMA InitHolds == Init => IInv
<1> SUFFICES ASSUME Init PROVE IInv
  OBVIOUS
<1> USE DEF Init, RkInit, None, Offsets, OffsetOrNone
<1>1. TypeOK
  BY MaxLogAssumption DEF TypeOK, RkTypeOK, PCs
<1>2. PlaceInv
  BY DEF PlaceInv
<1>3. CoverInv
  BY MaxLogAssumption DEF CoverInv, Safe
<1> QED BY <1>1, <1>2, <1>3 DEF IInv

\* One step of one member, and the types and places after it.
LEMMA TypePreserved ==
  ASSUME TypeOK, PlaceInv, [Next]_vars
  PROVE  TypeOK' /\ PlaceInv'
<1> USE MaxLogAssumption
    DEF TypeOK, RkTypeOK, PlaceInv, PCs, None, ErrorEvent, Offsets,
        OffsetOrNone, rkVars, groupVars, objVars, history, Goto
<1>1. ASSUME NEW c \in Consumers,
             InitFails(c) \/ InitNoConsumer(c) \/ InitNoSubscription(c) \/ InitOK(c)
      PROVE  TypeOK' /\ PlaceInv'
  BY <1>1 DEF InitFails, InitNoConsumer, InitNoSubscription, InitOK, InitBegin
<1>2. ASSUME NEW c \in Consumers, Fetch(c)
      PROVE  TypeOK' /\ PlaceInv'
  BY <1>2 DEF Fetch, NewMessage, RkFetch
<1>3. ASSUME NEW c \in Consumers, FetchError(c)
      PROVE  TypeOK' /\ PlaceInv'
  BY <1>3 DEF FetchError, NewMessage
<1>4. ASSUME NEW c \in Consumers, ConsumeFails(c) \/ ConsumeReturns(c)
      PROVE  TypeOK' /\ PlaceInv'
  <2> USE DEF DeleteMessage
  <2>1. CASE ConsumeFails(c)
    BY <2>1 DEF ConsumeFails
  <2>2. CASE ConsumeReturns(c)
    <3> USE <2>2 DEF ConsumeReturns
    <3>1. received' \subseteq Offsets
      OBVIOUS
    <3>2. message' \in [Consumers -> Offsets \cup {None, ErrorEvent}]
      OBVIOUS
    <3>3. pc' \in [Consumers -> PCs]
      OBVIOUS
    <3>4. unfreed' \in [Consumers -> 0 .. 1]
      OBVIOUS
    <3>5. PlaceInv'
      OBVIOUS
    <3> QED BY <3>1, <3>2, <3>3, <3>4, <3>5
  <2> QED BY <1>4, <2>1, <2>2
<1>5. ASSUME NEW c \in Consumers, CloseBegin(c) \/ Delete(c) \/ Restart(c)
      PROVE  TypeOK' /\ PlaceInv'
  BY <1>5 DEF CloseBegin, Delete, Restart
<1>6. ASSUME NEW c \in Consumers, CloseConsumer(c)
      PROVE  TypeOK' /\ PlaceInv'
  <2> USE <1>6 DEF CloseConsumer, RkClose, CommitStored, Release, Forget
  <2>1. committed' \in OffsetOrNone /\ assigned' \in Consumers \cup {NoOne}
    OBVIOUS
  <2>2. PlaceInv'
    OBVIOUS
  <2> QED BY <2>1, <2>2
<1>7. ASSUME NEW c \in Consumers, Perish(c)
      PROVE  TypeOK' /\ PlaceInv'
  <2> USE <1>7 DEF Perish, Forget
  <2>1. dropped' \subseteq Offsets
    OBVIOUS
  <2>2. PlaceInv'
    OBVIOUS
  <2> QED BY <2>1, <2>2
<1>8. ASSUME NEW c \in Consumers, Library(c)
      PROVE  TypeOK' /\ PlaceInv'
  <2>1. CASE Assign(c)
    <3> USE <1>8, <2>1 DEF Library, Assign, StartOffset
    <3>1. StartOffset \in OffsetOrNone /\ 0 .. StartOffset - 1 \subseteq Offsets
      BY ResetAssumption
    <3>2. skipped' \subseteq Offsets
      BY <3>1
    <3>3. position' \in [Consumers -> OffsetOrNone] /\ stored' \in [Consumers -> OffsetOrNone]
      BY <3>1
    <3> QED BY <3>2, <3>3
  <2>2. CASE AutoCommit(c) \/ Expel(c)
    BY <1>8, <2>2 DEF Library, AutoCommit, Expel
  <2>3. CASE Revoke(c)
    BY <1>8, <2>3 DEF Library, Revoke, CommitStored, Forget
  <2>4. CASE Notice(c)
    BY <1>8, <2>4 DEF Library, Notice, Forget
  <2> QED BY <1>8, <2>1, <2>2, <2>3, <2>4 DEF Library
<1>9. ASSUME Producers
      PROVE  TypeOK' /\ PlaceInv'
  <2> USE <1>9 DEF Producers, Append
  <2>1. end' \in 0 .. MaxLog
    OBVIOUS
  <2>2. keyless' \subseteq Offsets
    OBVIOUS
  <2> QED BY <2>1, <2>2
<1>10. ASSUME UNCHANGED vars
       PROVE  TypeOK' /\ PlaceInv'
  BY <1>10 DEF vars
<1> QED BY <1>1, <1>2, <1>3, <1>4, <1>5, <1>6, <1>7, <1>8, <1>9, <1>10
        DEF Next, ConsumeStep, CloseStep, Die, NullKey, NullClose

-----------------------------------------------------------------------------
(* Coverage.                                                               *)

\* An offset that is covered stays covered: a message leaves the hands of a
\* consume() only by being returned or by the death of its process.
LEMMA CoveredGrows ==
  ASSUME TypeOK, PlaceInv, [Next]_vars
  PROVE  Covered \subseteq Covered'
<1> USE DEF TypeOK, RkTypeOK, PlaceInv, Covered, Held, None, ErrorEvent,
            Offsets, rkVars, groupVars, objVars, history, Goto
<1>1. ASSUME UNCHANGED <<message, received, dropped>>, skipped \subseteq skipped'
      PROVE  Covered \subseteq Covered'
  BY <1>1
<1>2. ASSUME NEW c \in Consumers,
             InitFails(c) \/ InitNoConsumer(c) \/ InitNoSubscription(c)
               \/ InitOK(c) \/ CloseBegin(c) \/ Delete(c) \/ Restart(c)
      PROVE  Covered \subseteq Covered'
  BY <1>1, <1>2 DEF InitFails, InitNoConsumer, InitNoSubscription, InitOK,
                    CloseBegin, Delete, Restart
<1>3. ASSUME NEW c \in Consumers, NEW m, NewMessage(c, m), UNCHANGED skipped
      PROVE  Covered \subseteq Covered'
  <2>1. \A d \in Consumers : message[d] \in Offsets => message'[d] = message[d]
    BY <1>3 DEF NewMessage
  <2>2. Held \subseteq Held'
    BY <2>1
  <2> QED BY <1>3, <2>2 DEF NewMessage
<1>4. ASSUME NEW c \in Consumers, ConsumeFails(c)
      PROVE  Covered \subseteq Covered'
  <2>1. \A d \in Consumers : message[d] \in Offsets => message'[d] = message[d]
    BY <1>4 DEF ConsumeFails, DeleteMessage
  <2>2. Held \subseteq Held'
    BY <2>1
  <2> QED BY <1>4, <2>2 DEF ConsumeFails
<1>5. ASSUME NEW c \in Consumers, ConsumeReturns(c)
      PROVE  Covered \subseteq Covered'
  <2>1. \A d \in Consumers \ {c} : message'[d] = message[d]
    BY <1>5 DEF ConsumeReturns, DeleteMessage
  <2>2. Held \subseteq Held' \cup {message[c]}
    BY <2>1
  <2> QED BY <1>5, <2>2 DEF ConsumeReturns
<1>6. ASSUME NEW c \in Consumers, Perish(c)
      PROVE  Covered \subseteq Covered'
  <2>1. \A d \in Consumers \ {c} : message'[d] = message[d]
    BY <1>6 DEF Perish
  <2>2. Held \subseteq Held' \cup ({message[c]} \cap Offsets)
    BY <2>1
  <2> QED BY <1>6, <2>2 DEF Perish
<1>7. ASSUME NEW c \in Consumers, CloseConsumer(c)
      PROVE  Covered \subseteq Covered'
  BY <1>1, <1>7 DEF CloseConsumer, RkClose
<1>8. ASSUME NEW c \in Consumers, Library(c)
      PROVE  Covered \subseteq Covered'
  BY <1>1, <1>8 DEF Library, Assign, AutoCommit, Revoke, Expel, Notice
<1>9. CASE Producers
  BY <1>1, <1>9 DEF Producers, Append
<1>10. CASE UNCHANGED vars
  BY <1>1, <1>10 DEF vars
<1>11. ASSUME NEW c \in Consumers, Fetch(c) \/ FetchError(c)
       PROVE  Covered \subseteq Covered'
  BY <1>3, <1>11 DEF Fetch, FetchError, RkFetch
<1> QED BY <1>2, <1>4, <1>5, <1>6, <1>7, <1>8, <1>9, <1>10, <1>11
        DEF Next, ConsumeStep, CloseStep, Die, NullKey, NullClose

LEMMA CoverPreserved ==
  ASSUME IInv, [Next]_vars
  PROVE  CoverInv'
<1> DEFINE Kept(n) == \A o \in Offsets : o < n => o \in Covered'
<1>0. TypeOK /\ PlaceInv /\ CoverInv
  BY DEF IInv
<1>1. Covered \subseteq Covered'
  BY <1>0, CoveredGrows
<1>2. ASSUME NEW n, Safe(n)
      PROVE  Kept(n)
  BY <1>1, <1>2 DEF Safe
<1>3. Kept(None) /\ Kept(ErrorEvent)
  BY DEF None, ErrorEvent, Offsets
<1>4. Kept(committed) /\ \A o \in received : Kept(o)
  BY <1>0, <1>2 DEF CoverInv
<1>5. \A c \in Consumers : Kept(position[c]) /\ Kept(stored[c]) /\ Kept(message[c])
  BY <1>0, <1>2 DEF CoverInv
<1> DEFINE CoverNext ==
             /\ Kept(committed')
             /\ \A c \in Consumers :
                  Kept(position'[c]) /\ Kept(stored'[c]) /\ Kept(message'[c])
             /\ \A o \in received' : Kept(o)
<1>6. SUFFICES CoverNext
  BY DEF CoverInv, Safe, Offsets
<1> HIDE DEF Kept
<1> USE <1>0, <1>3, <1>4, <1>5
    DEF TypeOK, RkTypeOK, rkVars, groupVars, objVars, history, Goto
<1>7. ASSUME NEW c \in Consumers,
             InitFails(c) \/ InitNoConsumer(c) \/ InitNoSubscription(c)
               \/ InitOK(c) \/ CloseBegin(c) \/ Delete(c) \/ Restart(c)
      PROVE  CoverNext
  BY <1>7 DEF InitFails, InitNoConsumer, InitNoSubscription, InitOK,
              CloseBegin, Delete, Restart
<1>8. ASSUME NEW c \in Consumers, Fetch(c)
      PROVE  CoverNext
  <2>1. Kept(position[c] + 1)
    <3>1. position[c] \in Covered'
      <4>1. position[c] \in Offsets
        BY <1>8, MaxLogAssumption DEF Fetch, RkFetch, Offsets, OffsetOrNone, None
      <4>2. message'[c] = position[c]
        BY <1>8 DEF Fetch, NewMessage
      <4> QED BY <4>1, <4>2 DEF Covered, Held
    <3> QED BY <3>1 DEF Kept, Offsets, OffsetOrNone, None
  <2> QED BY <1>8, <2>1 DEF Fetch, NewMessage, RkFetch
<1>9. ASSUME NEW c \in Consumers, FetchError(c)
      PROVE  CoverNext
  BY <1>9 DEF FetchError, NewMessage
<1>10. ASSUME NEW c \in Consumers, ConsumeFails(c)
       PROVE  CoverNext
  BY <1>10 DEF ConsumeFails, DeleteMessage
<1>11. ASSUME NEW c \in Consumers, ConsumeReturns(c)
       PROVE  CoverNext
  BY <1>11 DEF ConsumeReturns, DeleteMessage
<1>12. ASSUME NEW c \in Consumers, Perish(c)
       PROVE  CoverNext
  BY <1>12 DEF Perish, Forget
<1>13. ASSUME NEW c \in Consumers, CloseConsumer(c)
       PROVE  CoverNext
  BY <1>13 DEF CloseConsumer, RkClose, CommitStored, Forget
<1>14. ASSUME NEW c \in Consumers, Library(c)
       PROVE  CoverNext
  <2>1. CASE Assign(c)
    <3>1. Kept(StartOffset)
      <4>1. CASE committed = None /\ Reset = "latest"
        <5>1. 0 .. end - 1 \subseteq Covered'
          BY <2>1, <4>1 DEF Assign, StartOffset, Covered
        <5> QED BY <4>1, <5>1 DEF StartOffset, Kept, Offsets
      <4>2. CASE committed = None /\ Reset = "earliest"
        BY <4>2 DEF StartOffset, Kept, Offsets
      <4> QED BY <4>1, <4>2, ResetAssumption DEF StartOffset
    <3> QED BY <1>14, <2>1, <3>1 DEF Library, Assign
  <2>2. CASE AutoCommit(c) \/ Revoke(c) \/ Expel(c) \/ Notice(c)
    BY <1>14, <2>2 DEF Library, AutoCommit, Revoke, Expel, Notice,
                       CommitStored, Forget
  <2> QED BY <1>14, <2>1, <2>2 DEF Library
<1>15. CASE Producers
  BY <1>15 DEF Producers, Append
<1>16. CASE UNCHANGED vars
  BY <1>16 DEF vars
<1> QED BY <1>7, <1>8, <1>9, <1>10, <1>11, <1>12, <1>13, <1>14, <1>15, <1>16
        DEF Next, ConsumeStep, CloseStep, Die, NullKey, NullClose

-----------------------------------------------------------------------------
(* The theorems about groups of any size.                                  *)

\* In every reachable state nothing is fetched, stored, committed or returned
\* before all the earlier offsets are covered.
THEOREM Invariance == Spec => []IInv
<1>1. Init => IInv
  BY InitHolds
<1>2. IInv /\ [Next]_vars => IInv'
  BY TypePreserved, CoverPreserved DEF IInv
<1> QED BY <1>1, <1>2, PTL DEF Spec

\* Every variable keeps its type; consume() never holds two messages.
THEOREM TypeCorrect == Spec => []TypeOK
<1>1. IInv => TypeOK
  BY DEF IInv
<1> QED BY <1>1, Invariance, PTL

\* What the group has committed has been returned, is being handled, was being
\* handled by a process that died, or precedes the group's first offset.
THEOREM NoSilentLoss == Spec => []LossOnlyByDeath
<1>1. IInv => LossOnlyByDeath
  BY DEF IInv, CoverInv, Safe, Covered, LossOnlyByDeath
<1> QED BY <1>1, Invariance, PTL

\* What consume() has returned, over all the members, has no gap but what is
\* being handled or was lost.
THEOREM Gapless == Spec => []NoGap
<1>1. IInv => NoGap
  <2> SUFFICES ASSUME IInv, NEW o \in received, NEW p \in 0 .. o - 1
               PROVE  p \in Covered
    BY DEF NoGap, Covered
  <2>1. o \in Offsets /\ p \in Offsets /\ p < o
    BY MaxLogAssumption DEF IInv, TypeOK, Offsets
  <2> QED BY <2>1 DEF IInv, CoverInv, Safe
<1> QED BY <1>1, Invariance, PTL

-----------------------------------------------------------------------------
(* The contract, for a consumer that has the group to itself.              *)

LEMMA AloneInit == Init => AloneInv
<1> SUFFICES ASSUME Init, NEW c \in Consumers
             PROVE  AloneAt(c)
  BY DEF AloneInv
<1>1. /\ end = 0 /\ committed = -1
      /\ position[c] = -1 /\ stored[c] = -1 /\ message[c] = -1
  BY DEF Init, RkInit, None
<1> QED BY <1>1, MaxLogAssumption DEF AloneAt, None, Offsets

LEMMA AlonePreserved ==
  ASSUME Alone, IInv, AloneInv, [Next]_vars
  PROVE  AloneInv'
<1> PICK c \in Consumers : Consumers = {c}
  BY DEF Alone
<1>0. TypeOK /\ PlaceInv
  BY DEF IInv
<1> USE <1>0, MaxLogAssumption
    DEF AloneInv, AloneAt, TypeOK, RkTypeOK, PlaceInv, Goto, None, ErrorEvent, Offsets,
        OffsetOrNone, rkVars, groupVars, objVars, history
<1>1. CASE InitFails(c) \/ InitNoConsumer(c) \/ InitNoSubscription(c)
             \/ InitOK(c) \/ CloseBegin(c) \/ Delete(c) \/ Restart(c)
  BY <1>1 DEF InitFails, InitNoConsumer, InitNoSubscription, InitOK,
              CloseBegin, Delete, Restart
<1>2. CASE Fetch(c)
  BY <1>2 DEF Fetch, NewMessage, RkFetch
<1>3. CASE FetchError(c)
  BY <1>3 DEF FetchError, NewMessage
<1>4. CASE ConsumeFails(c)
  BY <1>4 DEF ConsumeFails, DeleteMessage
<1>5. CASE ConsumeReturns(c)
  BY <1>5 DEF ConsumeReturns, DeleteMessage
<1>6. CASE CloseConsumer(c)
  BY <1>6 DEF CloseConsumer, RkClose, CommitStored, Forget
<1>7. CASE Perish(c)
  BY <1>7 DEF Perish, Forget
<1>8. CASE Library(c)
  <2>1. CASE Assign(c)
    BY <1>8, <2>1 DEF Library, Assign, StartOffset, Alone
  <2>2. CASE AutoCommit(c)
    BY <1>8, <2>2 DEF Library, AutoCommit
  <2>3. CASE Revoke(c)
    BY <1>8, <2>3 DEF Library, Revoke, CommitStored, Forget
  <2>4. CASE Expel(c) \/ Notice(c)
    BY <1>8, <2>4 DEF Library, Expel, Notice, Forget
  <2> QED BY <1>8, <2>1, <2>2, <2>3, <2>4 DEF Library
<1>9. CASE Producers
  BY <1>9 DEF Producers, Append
<1>10. CASE UNCHANGED vars
  BY <1>10 DEF vars
<1> QED BY <1>1, <1>2, <1>3, <1>4, <1>5, <1>6, <1>7, <1>8, <1>9, <1>10
        DEF Next, ConsumeStep, CloseStep, Die, NullKey, NullClose

\* The records no consume() will return, as the contract sees them.
Lost == {o \in Offsets : o < committed} \ (received \cup Held)

LEMMA ContractInit == Init => Contract!Init
BY MaxLogAssumption
   DEF Init, RkInit, Contract!Init, None, Offsets

\* What the message of a lone consumer is to the contract.
LEMMA HeldIsReached ==
  ASSUME Alone, IInv, AloneInv, NEW c \in Consumers, message[c] \in Offsets
  PROVE  /\ message[c] \in 0 .. end - 1
         /\ Contract!Reached(message[c])
<1>1. TypeOK /\ Consumers = {c} /\ Held = {message[c]}
  BY DEF IInv, Alone, Held
<1>2. message[c] < end /\ message[c] \in Nat /\ end \in Nat /\ end <= MaxLog
  BY <1>1, MaxLogAssumption DEF AloneInv, AloneAt, TypeOK, RkTypeOK, Offsets
<1>3. ASSUME NEW p \in 0 .. message[c] - 1
      PROVE  p \in received \cup Lost
  <2>1. p \in Offsets /\ p < message[c] /\ committed \in Int
    BY <1>1, <1>2, MaxLogAssumption DEF Offsets, TypeOK, RkTypeOK, OffsetOrNone, None
  <2>2. CASE committed <= p
    BY <2>1, <2>2 DEF AloneInv, AloneAt
  <2>3. CASE p < committed
    BY <1>1, <2>1, <2>3 DEF Lost, Offsets
  <2> QED BY <2>1, <2>2, <2>3 DEF Offsets
<1> QED BY <1>2, <1>3 DEF Contract!Reached, Lost

\* Every step of a lone consumer is a step of the contract or changes nothing
\* the contract speaks of.
LEMMA ContractStep ==
  ASSUME Alone, IInv, AloneInv, [Next]_vars
  PROVE  [Contract!Next]_(Contract!vars)
<1> DEFINE Same == /\ UNCHANGED <<end, received>>
                   /\ (\E c \in Consumers : started'[c]) <=> \E c \in Consumers : started[c]
                   /\ Lost' = Lost
<1>0. Same => UNCHANGED Contract!vars
  BY DEF Contract!vars, Lost
<1> PICK c \in Consumers : Consumers = {c}
  BY DEF Alone
<1> HIDE DEF Same
<1>00. TypeOK /\ PlaceInv /\ Held = {message[c]} \cap Offsets /\ Held' = {message'[c]} \cap Offsets
  BY DEF IInv, Held
<1> USE <1>00, MaxLogAssumption
    DEF AloneInv, AloneAt, TypeOK, RkTypeOK, PlaceInv, Goto, None, ErrorEvent, Offsets,
        OffsetOrNone, rkVars, groupVars, objVars, history
<1>1. CASE InitFails(c) \/ InitNoConsumer(c) \/ InitNoSubscription(c)
             \/ CloseBegin(c) \/ Restart(c)
  BY <1>0, <1>1 DEF InitFails, InitNoConsumer, InitNoSubscription, InitBegin,
                    CloseBegin, Restart, Same, Lost
<1>2. CASE InitOK(c)
  BY <1>2 DEF InitOK, InitBegin, Lost, Contract!Next, Contract!Open
<1>3. CASE Fetch(c)
  <2>1. Lost' = Lost
    BY <1>3 DEF Fetch, NewMessage, RkFetch, Lost
  <2> QED BY <1>0, <1>3, <2>1 DEF Fetch, NewMessage, RkFetch, Same
<1>4. CASE FetchError(c) \/ ConsumeFails(c)
  BY <1>0, <1>4 DEF FetchError, NewMessage, ConsumeFails, DeleteMessage, Same, Lost
<1>5. CASE ConsumeReturns(c)
  <2>1. message[c] \in Offsets /\ started[c]
    BY <1>5 DEF ConsumeReturns
  <2>2. message[c] \in 0 .. end - 1 /\ Contract!Reached(message[c])
    BY <2>1, HeldIsReached
  <2>3. Lost' = Lost /\ message[c] \notin Lost
    BY <1>5, <2>1 DEF ConsumeReturns, DeleteMessage, Lost
  <2>4. Contract!Deliver
    BY <1>5, <2>1, <2>2, <2>3 DEF ConsumeReturns, Contract!Deliver, Lost
  <2> QED BY <2>4 DEF Contract!Next
<1>6. CASE CloseConsumer(c)
  <2>1. Lost' = Lost
    BY <1>6 DEF CloseConsumer, RkClose, CommitStored, Lost
  <2> QED BY <1>0, <1>6, <2>1 DEF CloseConsumer, RkClose, Same
<1>7. CASE Delete(c)
  <2>1. CASE started[c]
    BY <1>7, <2>1 DEF Delete, Lost, Contract!Next, Contract!Close
  <2>2. CASE ~started[c]
    BY <1>0, <1>7, <2>2 DEF Delete, Lost, Same
  <2> QED BY <2>1, <2>2
<1>8. CASE Perish(c)
  <2>1. ~started'[c] /\ UNCHANGED <<end, received, committed>> /\ Held' = {}
    BY <1>8 DEF Perish
  <2>2. CASE message[c] \in Offsets /\ message[c] < committed /\ message[c] \notin received
    <3>1. Lost' = Lost \cup {message[c]} /\ started[c]
      BY <2>1, <2>2 DEF Lost
    <3>2. message[c] \in 0 .. end - 1 /\ Contract!Reached(message[c])
      BY <2>2, HeldIsReached
    <3>3. Contract!Die
      BY <2>1, <2>2, <3>1, <3>2 DEF Contract!Die, Lost
    <3> QED BY <3>3 DEF Contract!Next
  <2>3. CASE ~(message[c] \in Offsets /\ message[c] < committed /\ message[c] \notin received)
    <3>1. Lost' = Lost
      BY <2>1, <2>3 DEF Lost
    <3>2. CASE started[c]
      BY <2>1, <3>1, <3>2 DEF Contract!Next, Contract!Close, Lost
    <3>3. CASE ~started[c]
      BY <1>0, <2>1, <3>1, <3>3 DEF Same
    <3> QED BY <3>2, <3>3
  <2> QED BY <2>2, <2>3
<1>9. CASE Library(c)
  <2>1. UNCHANGED <<end, received, started, message>>
    BY <1>9 DEF Library, Assign, AutoCommit, Revoke, Expel, Notice
  <2>2. \/ committed' = committed
        \/ stored[c] # None /\ committed' = stored[c]
    BY <1>9 DEF Library, Assign, AutoCommit, Revoke, Expel, Notice, CommitStored
  <2>3. Lost' = Lost
    BY <2>1, <2>2 DEF Lost
  <2> QED BY <1>0, <2>1, <2>3 DEF Same
<1>10. CASE Producers
  BY <1>10 DEF Producers, Append, Lost, Contract!Next, Contract!Write
<1>11. CASE UNCHANGED vars
  BY <1>0, <1>11 DEF vars, Same, Lost
<1> QED BY <1>1, <1>2, <1>3, <1>4, <1>5, <1>6, <1>7, <1>8, <1>9, <1>10, <1>11
        DEF Next, ConsumeStep, CloseStep, Die, NullKey, NullClose

\* What a member that is alone has fetched past the committed offset is received
\* but for the record it holds, through every failure of initKafka and consume,
\* every commit, close, death and restart: a death loses that record only.
THEOREM AloneInvariance == ASSUME Alone PROVE Spec => []AloneInv
<1>1. Init => AloneInv
  BY AloneInit
<1>2. IInv /\ AloneInv /\ [Next]_vars => AloneInv'
  BY AlonePreserved
<1> QED BY <1>1, <1>2, Invariance, PTL DEF Spec

\* A consumer that has the group to itself and starts at the earliest record
\* implements the contract: closing loses no record, a death at most one.
THEOREM Implementation == ASSUME Alone PROVE Spec => ImplementsContract
<1>1. Init => Contract!Init /\ AloneInv
  BY ContractInit, AloneInit
<1>2. IInv /\ AloneInv /\ [Next]_vars => AloneInv' /\ [Contract!Next]_(Contract!vars)
  BY AlonePreserved, ContractStep
<1> QED BY <1>1, <1>2, Invariance, PTL DEF Spec, ImplementsContract, Contract!Spec

=============================================================================
