-------------------------- MODULE MCKafkaConsumer --------------------------
(***************************************************************************)
(* Small instances of KafkaConsumer for TLC.                               *)
(***************************************************************************)
EXTENDS KafkaConsumerProofs, TLC

\* The members of the group are interchangeable.
Symmetry == Permutations(Consumers)
=============================================================================
