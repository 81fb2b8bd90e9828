------------------------- MODULE MC_InstrumentedPool -------------------------
(* Three commands on two pool threads (MC_InstrumentedPool.cfg) or two    *)
(* on one (MC_InstrumentedPool_starve.cfg), with a clock that can be set   *)
(* back between any two readings: a queued command waits for a worker,    *)
(* and a panicking task can take the worker it ran on.                     *)
EXTENDS InstrumentedPool

=============================================================================
