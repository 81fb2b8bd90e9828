----------------------------- MODULE MC_PoolApi -----------------------------
(* Three concurrent invocations against one config name: two opens can     *)
(* race each other, and a delete or close can land while an open is        *)
(* suspended connecting.                                                   *)
EXTENDS PoolApi

MC_Versions == {1, 3}

=============================================================================
