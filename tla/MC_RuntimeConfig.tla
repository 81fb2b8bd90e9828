-------------------------- MODULE MC_RuntimeConfig --------------------------
(* Two configuration calls and one metrics collection: a size of 0, a valid *)
(* size, or none, each with or without the other settings.                 *)
EXTENDS RuntimeConfig
=============================================================================
