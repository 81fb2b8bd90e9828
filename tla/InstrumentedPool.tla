-------------------------- MODULE InstrumentedPool --------------------------
(***************************************************************************)
(* InstrumentedThreadPool::spawn_ok_instrumented (libindy/src/lib.rs):     *)
(* every API call is spawned on a futures ThreadPool of a fixed number of  *)
(* threads.  The task takes four wall-clock readings (get_cur_time, i.e.   *)
(* SystemTime::now() in ms): when it was requested, when it started, when  *)
(* the action finished and when the callback returned; after the callback *)
(* it subtracts them as u128 and hands the durations to the metrics        *)
(* service.                                                                *)
(*                                                                         *)
(* SystemTime is not monotonic: the wall clock may be set back between two *)
(* readings.  u128 subtraction then overflows, which panics in a build     *)
(* with overflow checks and wraps modulo 2^128 in one without.             *)
(*                                                                         *)
(* The futures ThreadPool runs a task on its worker thread without         *)
(* catching a panic: the panic unwinds the worker, which is not replaced   *)
(* (PanicKillsWorker).  The older copy of spawn_ok_instrumented in        *)
(* commands/mod.rs takes no cb_finished reading and records only the      *)
(* queue and execution times (RecordsCallback = FALSE).                   *)
(***************************************************************************)
EXTENDS Integers, FiniteSets

CONSTANTS
    Cmds,              \* spawned commands
    Threads,           \* pool_size of the executor
    MaxTime,           \* bound on the wall clock (ms since the epoch, scaled)
    Width,             \* bit width of the timestamps (u128, scaled)
    ClockMayStepBack,  \* whether the wall clock can be set back
    OverflowChecks,    \* the build panics on integer overflow
    PanicKillsWorker,  \* a panicking task takes its worker thread down
    RecordsCallback,   \* lib.rs (TRUE) or commands/mod.rs (FALSE) variant
    None

ASSUME /\ Threads \in Nat \ {0}
       /\ MaxTime < 2^Width

Stages == {"new", "queued", "running", "executed", "calledback", "recorded", "panicked"}

VARIABLES
    clock,      \* SystemTime::now() in ms
    stage,      \* where each command is in spawn_ok_instrumented
    ts,         \* cmd -> [requested, start, executed, cbFinished] readings
    durations,  \* cmd -> [queue, exec, cb] as handed to the metrics service
    delivered   \* commands whose callback has run

vars == <<clock, stage, ts, durations, delivered>>

Time == 0..MaxTime

NoTs == [requested |-> None, start |-> None, executed |-> None, cbFinished |-> None]

TypeOK ==
    /\ clock \in Time
    /\ stage \in [Cmds -> Stages]
    /\ ts \in [Cmds -> [requested : Time \cup {None}, start : Time \cup {None},
                        executed : Time \cup {None}, cbFinished : Time \cup {None}]]
    /\ durations \in [Cmds -> [queue : 0..2^Width - 1, exec : 0..2^Width - 1,
                               cb : 0..2^Width - 1] \cup {None}]
    /\ delivered \subseteq Cmds

\* u128 subtraction a - b: exact, or an overflow when b > a.
Overflows(a, b) == b > a
WrappingSub(a, b) == (a - b) % (2^Width)

\* The readings a task subtracts: start - requested and executed - start,
\* and in lib.rs also cb_finished - executed.
Measured(t) ==
    {<<t.start, t.requested>>, <<t.executed, t.start>>}
      \cup IF RecordsCallback THEN {<<t.cbFinished, t.executed>>} ELSE {}

Busy == {c \in Cmds : stage[c] \in {"running", "executed", "calledback"}}

\* Worker threads still alive: each panic unwinds the thread it ran on.
Alive == IF PanicKillsWorker
         THEN Threads - Cardinality({c \in Cmds : stage[c] = "panicked"})
         ELSE Threads

-----------------------------------------------------------------------------

\* let requested_time = get_cur_time(); self.executor.spawn_ok(...)
SpawnOkInstrumented(c) ==
    /\ stage[c] = "new"
    /\ stage' = [stage EXCEPT ![c] = "queued"]
    /\ ts' = [ts EXCEPT ![c].requested = clock]
    /\ UNCHANGED <<clock, durations, delivered>>

\* A pool thread polls the task: let start_time = get_cur_time().
Start(c) ==
    /\ stage[c] = "queued"
    /\ Cardinality(Busy) < Alive
    /\ stage' = [stage EXCEPT ![c] = "running"]
    /\ ts' = [ts EXCEPT ![c].start = clock]
    /\ UNCHANGED <<clock, durations, delivered>>

\* let res = action.await; let executed_time = get_cur_time();
Execute(c) ==
    /\ stage[c] = "running"
    /\ stage' = [stage EXCEPT ![c] = "executed"]
    /\ ts' = [ts EXCEPT ![c].executed = clock]
    /\ UNCHANGED <<clock, durations, delivered>>

\* Mutant: the metrics are recorded before the callback runs.
RecordBeforeCallback(c) ==
    /\ stage[c] = "executed"
    /\ LET t == ts[c] IN
       IF OverflowChecks /\ (Overflows(t.start, t.requested) \/ Overflows(t.executed, t.start))
       THEN /\ stage' = [stage EXCEPT ![c] = "panicked"]
            /\ UNCHANGED <<ts, delivered>>
       ELSE /\ stage' = [stage EXCEPT ![c] = "calledback"]
            /\ ts' = [ts EXCEPT ![c].cbFinished = clock]
            /\ delivered' = delivered \cup {c}
    /\ UNCHANGED <<clock, durations>>

\* cb(res); let cb_finished_time = get_cur_time(); (the older copy takes
\* no reading).
RunCallback(c) ==
    /\ stage[c] = "executed"
    /\ stage' = [stage EXCEPT ![c] = "calledback"]
    /\ ts' = IF RecordsCallback THEN [ts EXCEPT ![c].cbFinished = clock] ELSE ts
    /\ delivered' = delivered \cup {c}
    /\ UNCHANGED <<clock, durations>>

\* Mutant: the differences are taken as signed, unchecked integers.
RecordMetricsUnchecked(c) ==
    /\ stage[c] = "calledback"
    /\ LET t == ts[c] IN
       /\ stage' = [stage EXCEPT ![c] = "recorded"]
       /\ durations' = [durations EXCEPT ![c] =
             [queue |-> t.start - t.requested, exec |-> t.executed - t.start,
              cb |-> t.cbFinished - t.executed]]
    /\ UNCHANGED <<clock, ts, delivered>>

\* metrics_service.cmd_left_queue / cmd_executed / cmd_callback with the
\* three differences (the older copy: the first two, cb left at 0); an
\* overflow panics the task when checks are on.
RecordMetrics(c) ==
    /\ stage[c] = "calledback"
    /\ LET t == ts[c] IN
       IF OverflowChecks /\ \E pr \in Measured(t) : Overflows(pr[1], pr[2])
       THEN /\ stage' = [stage EXCEPT ![c] = "panicked"]
            /\ UNCHANGED durations
       ELSE /\ stage' = [stage EXCEPT ![c] = "recorded"]
            /\ durations' = [durations EXCEPT ![c] =
                  [queue |-> WrappingSub(t.start, t.requested),
                   exec |-> WrappingSub(t.executed, t.start),
                   cb |-> IF RecordsCallback THEN WrappingSub(t.cbFinished, t.executed)
                          ELSE 0]]
    /\ UNCHANGED <<clock, ts, delivered>>

\* The wall clock advances.
ClockTick ==
    /\ clock < MaxTime
    /\ clock' = clock + 1
    /\ UNCHANGED <<stage, ts, durations, delivered>>

\* The wall clock is set back (NTP correction, manual change).
ClockStepBack ==
    /\ ClockMayStepBack
    /\ \E t \in 0..clock - 1 : clock' = t
    /\ UNCHANGED <<stage, ts, durations, delivered>>

\* Every task has finished.
Finished ==
    /\ \A c \in Cmds : stage[c] \in {"recorded", "panicked"}
    /\ UNCHANGED vars

-----------------------------------------------------------------------------

Init ==
    /\ clock \in Time
    /\ stage = [c \in Cmds |-> "new"]
    /\ ts = [c \in Cmds |-> NoTs]
    /\ durations = [c \in Cmds |-> None]
    /\ delivered = {}

Task(c) ==
    \/ SpawnOkInstrumented(c)
    \/ Start(c)
    \/ Execute(c)
    \/ RunCallback(c)
    \/ RecordMetrics(c)

Next ==
    \/ \E c \in Cmds : Task(c)
    \/ ClockTick
    \/ ClockStepBack
    \/ Finished

\* The executor polls every spawned task until it completes; the clock is
\* not required to move.
Spec == Init /\ [][Next]_vars /\ \A c \in Cmds : WF_vars(Task(c))

-----------------------------------------------------------------------------
(* Properties *)

\* Every spawned call reaches its caller: the callback runs even when the
\* metrics arithmetic after it panics, because cb(res) comes first.
EveryCallCallsBack == \A c \in Cmds : <>(c \in delivered)

\* The metrics step never costs a caller its answer: a task that panics in
\* spawn_ok_instrumented (an overflowing u128 difference) has already run
\* cb(res), because the callback comes before the metrics calls.
PanicOnlyAfterCallback ==
    \A c \in Cmds : stage[c] = "panicked" => c \in delivered

=============================================================================
