-------------------------- MODULE MCKafkaProducer --------------------------
(***************************************************************************)
(* Small instances of KafkaProducer for TLC.                               *)
(***************************************************************************)
EXTENDS KafkaProducerProofs, TLC

\* Messages, and application threads, are interchangeable.  Only for runs
\* that check no liveness property.
Symmetry == Permutations(Msgs) \cup Permutations(AppThreads)
=============================================================================
