------------------------------- MODULE Locator -------------------------------
(***************************************************************************)
(* The process-wide Locator every FFI entry point reaches through          *)
(* Locator::instance() (libindy/src/lib.rs; the older copy in              *)
(* commands/mod.rs).                                                       *)
(*                                                                         *)
(*   LOCATOR            a lazy_static: the first dereference runs          *)
(*                      Locator::new under std's Once; a concurrent caller *)
(*                      blocks until it completes; a panic inside it       *)
(*                      poisons the Once and every later dereference       *)
(*                      panics                                             *)
(*   Locator::new       sets the panic hook and creates the executor       *)
(*                      (futures ThreadPool, create().unwrap()), in an     *)
(*                      order that differs between the two copies; the     *)
(*                      services and controllers it wires up hold no state *)
(*                      this module tells apart                            *)
(*                                                                         *)
(* Callers are threads of the host application, each making one API call.  *)
(***************************************************************************)
EXTENDS Naturals, Sequences, FiniteSets

CONSTANTS
    Callers,        \* host threads calling into the library
    Builds,         \* which Locator: "lib" (lib.rs) or "commands" (commands/mod.rs)
    CreateMayFail,  \* whether creating the executor's threads may fail
    None

ASSUME /\ Builds \subseteq {"lib", "commands"}
       /\ CreateMayFail \in BOOLEAN

Ids == 1..Cardinality(Callers)

VARIABLES
    build,        \* the Locator in use
    once,         \* LOCATOR's Once: "incomplete", "running", "complete", "poisoned"
    initializer,  \* the caller whose dereference runs Locator::new, or None
    step,         \* caller -> next step of Locator::new it runs (0: none)
    hook,         \* the process's panic hook: "default" or "custom"
    executors,    \* executor thread pools created
    built,        \* Locators constructed (the last one's id)
    pc,           \* caller -> "call", "wait", "init", "done" or "panicked"
    got           \* caller -> id of the Locator it obtained, or None

vars == <<build, once, initializer, step, hook, executors, built, pc, got>>

TypeOK ==
    /\ build \in Builds
    /\ once \in {"incomplete", "running", "complete", "poisoned"}
    /\ initializer \in Callers \cup {None}
    /\ step \in [Callers -> 0..3]
    /\ hook \in {"default", "custom"}
    /\ executors \in 0..Cardinality(Callers)
    /\ built \in 0..Cardinality(Callers)
    /\ pc \in [Callers -> {"call", "wait", "init", "done", "panicked"}]
    /\ got \in [Callers -> Ids \cup {None}]

-----------------------------------------------------------------------------

NewSteps == <<"hook", "executor">>

\* commands/mod.rs Locator::new: services, controllers, the executor, and
\* the panic hook last.
LegacyNewSteps == <<"executor", "hook">>

Steps == IF build = "lib" THEN NewSteps ELSE LegacyNewSteps

\* Locator::instance(): &LOCATOR.  The first dereference runs the
\* initialiser; one during initialisation blocks; after it, the Locator is
\* returned, or the poisoned Once panics.
Instance(c) ==
    /\ pc[c] = "call"
    /\ CASE once = "incomplete" ->
              /\ once' = "running"
              /\ initializer' = c
              /\ step' = [step EXCEPT ![c] = 1]
              /\ pc' = [pc EXCEPT ![c] = "init"]
              /\ UNCHANGED got
         [] once = "running" ->
              /\ pc' = [pc EXCEPT ![c] = "wait"]
              /\ UNCHANGED <<once, initializer, step, got>>
         [] once = "complete" ->
              /\ pc' = [pc EXCEPT ![c] = "done"]
              /\ got' = [got EXCEPT ![c] = built]
              /\ UNCHANGED <<once, initializer, step>>
         [] once = "poisoned" ->
              /\ pc' = [pc EXCEPT ![c] = "panicked"]
              /\ UNCHANGED <<once, initializer, step, got>>
    /\ UNCHANGED <<build, hook, executors, built>>

\* A caller blocked in call_once wakes when the initialisation completes
\* (and returns the Locator) or poisons the Once (and panics).
Wait(c) ==
    /\ pc[c] = "wait"
    /\ once \in {"complete", "poisoned"}
    /\ IF once = "complete"
       THEN /\ pc' = [pc EXCEPT ![c] = "done"]
            /\ got' = [got EXCEPT ![c] = built]
       ELSE /\ pc' = [pc EXCEPT ![c] = "panicked"]
            /\ UNCHANGED got
    /\ UNCHANGED <<build, once, initializer, step, hook, executors, built>>

\* One step of Locator::new: std::panic::set_hook, or
\* ThreadPool::builder().pool_size(n).create().unwrap(), whose failure
\* panics out of the initialiser and poisons the Once.
Construct(c) ==
    /\ pc[c] = "init" /\ step[c] <= Len(Steps)
    /\ CASE Steps[step[c]] = "hook" ->
              /\ hook' = "custom"
              /\ step' = [step EXCEPT ![c] = @ + 1]
              /\ UNCHANGED <<once, executors, pc>>
         [] Steps[step[c]] = "executor" ->
              \/ /\ executors' = executors + 1
                 /\ step' = [step EXCEPT ![c] = @ + 1]
                 /\ UNCHANGED <<once, hook, pc>>
              \/ /\ CreateMayFail
                 /\ once' = "poisoned"
                 /\ pc' = [pc EXCEPT ![c] = "panicked"]
                 /\ UNCHANGED <<step, hook, executors>>
    /\ UNCHANGED <<build, initializer, built, got>>

\* Mutant: the caller is handed the Locator before it is stored.
CompleteEarly(c) ==
    /\ pc[c] = "init" /\ step[c] > Len(Steps)
    /\ once' = "complete"
    /\ built' = built + 1
    /\ pc' = [pc EXCEPT ![c] = "done"]
    /\ got' = [got EXCEPT ![c] = built]
    /\ UNCHANGED <<build, initializer, step, hook, executors>>

\* Locator::new returns the Locator; the Once stores it and completes, and
\* the initialising caller obtains it.
Complete(c) ==
    /\ pc[c] = "init" /\ step[c] > Len(Steps)
    /\ once' = "complete"
    /\ built' = built + 1
    /\ pc' = [pc EXCEPT ![c] = "done"]
    /\ got' = [got EXCEPT ![c] = built + 1]
    /\ UNCHANGED <<build, initializer, step, hook, executors>>

\* Every call has been made; a caller blocked on the Once blocks only its
\* own thread, and the host's other threads keep running.
HostIdle ==
    /\ \A c \in Callers : pc[c] # "call"
    /\ UNCHANGED vars

-----------------------------------------------------------------------------

Init ==
    /\ build \in Builds
    /\ once = "incomplete"
    /\ initializer = None
    /\ step = [c \in Callers |-> 0]
    /\ hook = "default"
    /\ executors = 0
    /\ built = 0
    /\ pc = [c \in Callers |-> "call"]
    /\ got = [c \in Callers |-> None]

Step(c) == Instance(c) \/ Wait(c) \/ Construct(c) \/ Complete(c)

Next == (\E c \in Callers : Step(c)) \/ HostIdle

Spec == Init /\ [][Next]_vars

-----------------------------------------------------------------------------
(* Properties *)

PanicsOnlyInFailedInit ==
    \A c \in Callers : pc[c] = "panicked" => c = initializer

=============================================================================
