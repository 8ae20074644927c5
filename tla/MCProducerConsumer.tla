-------------------------- MODULE MCProducerConsumer --------------------------
(* An instance of ProducerConsumer for TLC.                                *)
EXTENDS ProducerConsumer
=============================================================================
