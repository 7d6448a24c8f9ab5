---------------------------------- MODULE MCLaunch ----------------------------------
(* Launch on a small instance. *)
EXTENDS Launch
===============================================================================
