------------------------------ MODULE MC_Locator ------------------------------
(* Host threads make their first API call concurrently and creating the   *)
(* executor's threads may fail: four threads on lib.rs's Locator          *)
(* (MC_Locator.cfg), three on either copy (MC_Locator_poison.cfg).        *)
EXTENDS Locator
=============================================================================
