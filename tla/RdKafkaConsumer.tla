-------------------------- MODULE RdKafkaConsumer --------------------------
(***************************************************************************)
(* The librdkafka consumer handles that KafkaConsumer.cpp drives and the   *)
(* consumer group they are members of: one partition, its log, the offset  *)
(* the group has committed and the member the partition is assigned to.    *)
(*                                                                         *)
(* None of this is in the repository.  It is modelled from the             *)
(* documentation of rdkafkacpp.h and from the defaults the code leaves in  *)
(* place: offsets are stored when consume() hands a message over, and      *)
(* committed from time to time, when the partition is given up and on      *)
(* close().                                                                *)
(***************************************************************************)
EXTENDS Integers

CONSTANTS Consumers,  \* the members of the group, one process each
          NoOne,      \* no member
          Reset,      \* auto.offset.reset
          MaxLog      \* bound on the records of the partition

ASSUME ConsumersAssumption == NoOne \notin Consumers
ASSUME ResetAssumption == Reset \in {"earliest", "latest"}
ASSUME MaxLogAssumption == MaxLog \in Nat

None == -1  \* no offset (OFFSET_INVALID)

VARIABLES end,        \* the offset of the next record of the partition
          keyless,    \* the records that have no key
          committed,  \* the offset the group has committed
          assigned,   \* the member the partition is assigned to
          position,   \* the next offset each member fetches
          stored,     \* the offset each member would commit
          skipped     \* history: the offsets auto.offset.reset jumped over

groupVars == <<end, keyless, committed, assigned, skipped>>
rkVars == <<groupVars, position, stored>>

Offsets == 0 .. MaxLog - 1
OffsetOrNone == 0 .. MaxLog \cup {None}

RkTypeOK ==
  /\ end \in 0 .. MaxLog
  /\ keyless \subseteq Offsets
  /\ committed \in OffsetOrNone
  /\ assigned \in Consumers \cup {NoOne}
  /\ position \in [Consumers -> OffsetOrNone]
  /\ stored \in [Consumers -> OffsetOrNone]
  /\ skipped \subseteq Offsets

RkInit ==
  /\ end = 0
  /\ keyless = {}
  /\ committed = None
  /\ assigned = NoOne
  /\ position = [c \in Consumers |-> None]
  /\ stored = [c \in Consumers |-> None]
  /\ skipped = {}

-----------------------------------------------------------------------------
(* Calls of KafkaConsumer.                                                 *)

\* consume() hands the next record over: its offset is stored before the call
\* returns.
RkFetch(c) ==
  /\ position[c] # None
  /\ position[c] < end
  /\ position' = [position EXCEPT ![c] = @ + 1]
  /\ stored' = [stored EXCEPT ![c] = position[c] + 1]
  /\ UNCHANGED groupVars

\* The offset to commit of a member that is still in the group.
CommitStored(c) ==
  committed' = IF assigned = c /\ stored[c] # None THEN stored[c] ELSE committed

\* The member gives the partition up.
Forget(c) ==
  /\ position' = [position EXCEPT ![c] = None]
  /\ stored' = [stored EXCEPT ![c] = None]

Release(c) == assigned' = IF assigned = c THEN NoOne ELSE assigned

\* close(): offsets are committed and the group is left.
RkClose(c) ==
  /\ CommitStored(c)
  /\ Release(c)
  /\ Forget(c)
  /\ UNCHANGED <<end, keyless, skipped>>

-----------------------------------------------------------------------------
(* Producers, the group coordinator and the threads of librdkafka.         *)

\* Some producer, KafkaProducer::send (whose records always have a key) or
\* another program, appends a record.
Append ==
  /\ end < MaxLog
  /\ end' = end + 1
  /\ keyless' \in {keyless, keyless \cup {end}}
  /\ UNCHANGED <<committed, assigned, position, stored, skipped>>

StartOffset ==
  IF committed # None THEN committed
  ELSE IF Reset = "earliest" THEN 0 ELSE end

Assign(c) ==
  /\ assigned = NoOne
  /\ assigned' = c
  /\ position' = [position EXCEPT ![c] = StartOffset]
  /\ stored' = [stored EXCEPT ![c] = None]
  /\ skipped' = IF committed = None THEN skipped \cup 0 .. StartOffset - 1
                ELSE skipped
  /\ UNCHANGED <<end, keyless, committed>>

\* The timer of auto.commit.interval.ms.
AutoCommit(c) ==
  /\ assigned = c
  /\ stored[c] # None
  /\ committed' = stored[c]
  /\ UNCHANGED <<end, keyless, assigned, position, stored, skipped>>

\* The group rebalances: the member commits and gives the partition up.
Revoke(c) ==
  /\ assigned = c
  /\ CommitStored(c)
  /\ assigned' = NoOne
  /\ Forget(c)
  /\ UNCHANGED <<end, keyless, skipped>>

\* The member has not been heard of for session.timeout.ms.  It goes on with
\* what it has fetched until it notices.
Expel(c) ==
  /\ assigned = c
  /\ assigned' = NoOne
  /\ UNCHANGED <<end, keyless, committed, position, stored, skipped>>

Notice(c) ==
  /\ assigned # c
  /\ position[c] # None
  /\ Forget(c)
  /\ UNCHANGED groupVars

=============================================================================
