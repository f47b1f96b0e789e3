------------------------ MODULE MCProducerLifecycle ------------------------
(***************************************************************************)
(* Small instances of ProducerLifecycle for TLC.                           *)
(***************************************************************************)
EXTENDS ProducerLifecycleProofs, TLC

\* The callbacks are interchangeable.
Symmetry == Permutations(Callbacks)
=============================================================================
