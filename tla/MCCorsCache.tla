---------------------------- MODULE MCCorsCache ----------------------------
(***************************************************************************)
(* A small instance of CorsCache for TLC.  It checks liveness, so it uses  *)
(* no symmetry.                                                            *)
(***************************************************************************)
EXTENDS CorsCache
=============================================================================
