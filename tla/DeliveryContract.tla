------------------------- MODULE DeliveryContract -------------------------
(***************************************************************************)
(* What an application may rely on when it sends through KafkaProducer and *)
(* registers a ProducerISendCallback, whatever threads deliver the         *)
(* reports: every message send() accepts is reported exactly once, through *)
(* success() or fail(); closeKafka() does not finish before that; and a    *)
(* message reported through fail() is not in the topic log and never will  *)
(* be, so that sending it again cannot duplicate it.  (A message reported  *)
(* through success() need not be in the log: dr_cb reports "possibly       *)
(* persisted" as a success.)                                               *)
(***************************************************************************)
EXTENDS Sequences

CONSTANT Msgs

VARIABLES open,      \* the producer can be used
          accepted,  \* messages for which send() has succeeded
          result,    \* the reports made on each message, in order
          written    \* messages in the topic log

vars == <<open, accepted, result, written>>

Verdicts == {"success", "fail"}

Init ==
  /\ open = FALSE
  /\ accepted = {}
  /\ result = [m \in Msgs |-> <<>>]
  /\ written = {}

Open ==
  /\ ~open
  /\ open' = TRUE
  /\ UNCHANGED <<accepted, result, written>>

Accept(m) ==
  /\ open
  /\ m \notin accepted
  /\ accepted' = accepted \cup {m}
  /\ UNCHANGED <<open, result, written>>

Write(m) ==
  /\ m \in accepted \ written
  /\ result[m] # <<"fail">>
  /\ written' = written \cup {m}
  /\ UNCHANGED <<open, accepted, result>>

Report(m, v) ==
  /\ open
  /\ m \in accepted
  /\ result[m] = <<>>
  /\ v = "fail" => m \notin written
  /\ result' = [result EXCEPT ![m] = <<v>>]
  /\ UNCHANGED <<open, accepted, written>>

Close ==
  /\ open
  /\ \A m \in accepted : result[m] # <<>>
  /\ open' = FALSE
  /\ UNCHANGED <<accepted, result, written>>

Next ==
  \/ Open
  \/ Close
  \/ \E m \in Msgs : Accept(m) \/ Write(m) \/ \E v \in Verdicts : Report(m, v)

Spec == Init /\ [][Next]_vars
=============================================================================
