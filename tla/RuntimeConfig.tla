---------------------------- MODULE RuntimeConfig ----------------------------
(***************************************************************************)
(* The process-wide settings of the older command layer                    *)
(* (libindy/src/commands/mod.rs, commands/metrics.rs; not compiled into    *)
(* the library, lib.rs declares no commands module).                       *)
(*                                                                         *)
(*   THREADPOOL                 a Mutex<threadpool::ThreadPool> of 4       *)
(*   indy_set_runtime_config    locks THREADPOOL and set_num_threads       *)
(*                              (crypto_thread_pool_size), then sets       *)
(*                              RUST_BACKTRACE and the freshness threshold *)
(*   MetricsController::collect locks THREADPOOL and reads its counters,   *)
(*                              then the wallet and command metrics        *)
(*                                                                         *)
(* threadpool's set_num_threads asserts num_threads >= 1, so a size of 0   *)
(* panics while the guard is held and poisons the mutex; every later       *)
(* lock().unwrap() panics in turn.                                         *)
(***************************************************************************)
EXTENDS Naturals

CONSTANTS
    Setters,     \* indy_set_runtime_config calls
    Collectors,  \* collect calls
    PoolSizes,   \* values given for crypto_thread_pool_size
    Thresholds,  \* values given for freshness_threshold
    None         \* an optional setting that was not given

\* An IndyConfig as the caller passes it.
Configs == [poolSize : PoolSizes \cup {None}, backtrace : {TRUE, FALSE, None},
            freshness : Thresholds \cup {None}]

VARIABLES
    tpThreads,   \* THREADPOOL's num_threads
    poisoned,    \* a thread panicked while holding the THREADPOOL lock
    backtrace,   \* RUST_BACKTRACE: "1", "0" or unset
    freshness,   \* the pool service's freshness threshold
    config,      \* setter -> the IndyConfig it passes
    setStage,    \* setter -> "new", "done" or "panicked"
    colStage,    \* collector -> "new", "done" or "panicked"
    reported     \* collector -> the max thread count it reported, or None

vars == <<tpThreads, poisoned, backtrace, freshness, config, setStage, colStage, reported>>

TypeOK ==
    /\ tpThreads \in Nat \ {0}
    /\ poisoned \in BOOLEAN
    /\ backtrace \in {"1", "0", None}
    /\ freshness \in Thresholds \cup {None}
    /\ config \in [Setters -> Configs]
    /\ setStage \in [Setters -> {"new", "done", "panicked"}]
    /\ colStage \in [Collectors -> {"new", "done", "panicked"}]
    /\ reported \in [Collectors -> (Nat \ {0}) \cup {None}]

-----------------------------------------------------------------------------

\* match config.collect_backtrace and if let Some(threshold): the settings
\* after the thread pool.
ApplyRest(cfg) ==
    /\ backtrace' = CASE cfg.backtrace = TRUE -> "1"
                      [] cfg.backtrace = FALSE -> "0"
                      [] OTHER -> backtrace
    /\ freshness' = IF cfg.freshness = None THEN freshness ELSE cfg.freshness

\* indy_set_runtime_config: THREADPOOL.lock().unwrap().set_num_threads(n)
\* when a size is given (the unwrap panics on a poisoned lock, the
\* assertion on n = 0 panics under the guard and poisons it); a panic skips
\* the settings after it.
SetRuntimeConfig(s) ==
    /\ setStage[s] = "new"
    /\ LET cfg == config[s] IN
       CASE cfg.poolSize = None ->
              /\ ApplyRest(cfg)
              /\ setStage' = [setStage EXCEPT ![s] = "done"]
              /\ UNCHANGED <<tpThreads, poisoned>>
         [] poisoned ->
              /\ setStage' = [setStage EXCEPT ![s] = "panicked"]
              /\ UNCHANGED <<tpThreads, poisoned, backtrace, freshness>>
         [] cfg.poolSize = 0 ->
              /\ poisoned' = TRUE
              /\ setStage' = [setStage EXCEPT ![s] = "panicked"]
              /\ UNCHANGED <<tpThreads, backtrace, freshness>>
         [] OTHER ->
              /\ tpThreads' = cfg.poolSize
              /\ ApplyRest(cfg)
              /\ setStage' = [setStage EXCEPT ![s] = "done"]
              /\ UNCHANGED poisoned
    /\ UNCHANGED <<config, colStage, reported>>

\* collect: append_threapool_metrics locks THREADPOOL (unwrap) and reports
\* active, queued, max and panic counts; the wallet and command metrics
\* that follow read counters only.
Collect(c) ==
    /\ colStage[c] = "new"
    /\ IF poisoned
       THEN /\ colStage' = [colStage EXCEPT ![c] = "panicked"]
            /\ UNCHANGED reported
       ELSE /\ colStage' = [colStage EXCEPT ![c] = "done"]
            /\ reported' = [reported EXCEPT ![c] = tpThreads]
    /\ UNCHANGED <<tpThreads, poisoned, backtrace, freshness, config, setStage>>

\* Every call has returned or panicked.
Finished ==
    /\ \A s \in Setters : setStage[s] # "new"
    /\ \A c \in Collectors : colStage[c] # "new"
    /\ UNCHANGED vars

-----------------------------------------------------------------------------

Init ==
    /\ tpThreads = 4
    /\ poisoned = FALSE
    /\ backtrace = None
    /\ freshness = None
    /\ config \in [Setters -> Configs]
    /\ setStage = [s \in Setters |-> "new"]
    /\ colStage = [c \in Collectors |-> "new"]
    /\ reported = [c \in Collectors |-> None]

Next ==
    \/ \E s \in Setters : SetRuntimeConfig(s)
    \/ \E c \in Collectors : Collect(c)
    \/ Finished

Spec == Init /\ [][Next]_vars

-----------------------------------------------------------------------------
(* Properties *)

\* Collecting metrics never panics, whatever runtime configuration callers
\* set before or concurrently (spec 7: local errors never crash; malformed
\* input is rejected before it takes effect).
CollectNeverPanics == \A c \in Collectors : colStage[c] # "panicked"

=============================================================================
