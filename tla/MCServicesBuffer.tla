-------------------------- MODULE MCServicesBuffer --------------------------
(* Model values and small bounds for ServicesBuffer.                       *)
EXTENDS ServicesBuffer, TLC

CONSTANTS l1, l2, s1

(* l2 does not fit into a batch at all, the others fill one.               *)
MCBytes == [m \in Messages \cup Subjects |-> IF m = l2 THEN 2 ELSE 1]
============================================================================
