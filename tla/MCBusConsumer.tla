---------------------------- MODULE MCBusConsumer ----------------------------
(* Instances of BusConsumer for TLC.                                        *)
EXTENDS BusConsumer, TLC

Interchangeable == Permutations(Consumers)
=============================================================================
