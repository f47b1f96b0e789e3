-------------------------- MODULE ConsumeContract --------------------------
(***************************************************************************)
(* What a single KafkaConsumer promises to its application, and to the one *)
(* that is started after it: the records arrive in order from the first;   *)
(* closing loses none, and a process that dies loses at most the one       *)
(* record it was being given.  A record may arrive again.                  *)
(***************************************************************************)
EXTENDS Naturals

VARIABLES written,    \* the number of records in the partition
          open,       \* the application has a consumer
          delivered,  \* the records consume() has returned
          lost        \* the records no consume() will return

vars == <<written, open, delivered, lost>>

\* Every record before o has been dealt with.
Reached(o) == o < written /\ 0 .. o - 1 \subseteq delivered \cup lost

Init ==
  /\ written = 0
  /\ open = FALSE
  /\ delivered = {}
  /\ lost = {}

Write == written' = written + 1 /\ UNCHANGED <<open, delivered, lost>>

Open == ~open /\ open' = TRUE /\ UNCHANGED <<written, delivered, lost>>

Deliver ==
  /\ open
  /\ \E o \in 0 .. written - 1 :
       Reached(o) /\ o \notin lost /\ delivered' = delivered \cup {o}
  /\ UNCHANGED <<written, open, lost>>

Close == open /\ open' = FALSE /\ UNCHANGED <<written, delivered, lost>>

Die ==
  /\ open
  /\ open' = FALSE
  /\ \E o \in 0 .. written - 1 :
       Reached(o) /\ o \notin delivered /\ lost' = lost \cup {o}
  /\ UNCHANGED <<written, delivered>>

Next == Write \/ Open \/ Deliver \/ Close \/ Die

Spec == Init /\ [][Next]_vars

=============================================================================
