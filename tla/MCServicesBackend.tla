------------------------- MODULE MCServicesBackend -------------------------
(* Model values and small bounds for ServicesBackend.                      *)
EXTENDS ServicesBackendProofs, TLC

MiddlemenSymmetry == Permutations(Middlemen)
============================================================================
