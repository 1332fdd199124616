-------------------------- MODULE MCRetryTopology --------------------------
(* Small instances of RetryTopology: two consumers as model values.  They  *)
(* are not interchangeable, as one of them is poisoned in the main runs.   *)
EXTENDS RetryTopology

CONSTANTS c1, c2

MCConsumers == {c1, c2}
MCOnePoisoned == {c1}
MCNonePoisoned == {}
=============================================================================
