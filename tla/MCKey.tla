-------------------------------- MODULE MCKey --------------------------------
(* Two replicas and the keys they generate. *)
EXTENDS KeySynchronizer
CONSTANTS r1, r2, k1, k2, tampered, nothing, failed
=============================================================================
