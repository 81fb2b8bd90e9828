------------------------------ MODULE PoolApi ------------------------------
(***************************************************************************)
(* The pool ledger API of libindy (api/pool.rs) and the pool lifecycle     *)
(* behind it.  Each indy_* entry point checks its arguments, spawns the    *)
(* controller call on the executor (InstrumentedThreadPool::               *)
(* spawn_ok_instrumented) and returns Success at once; the result reaches  *)
(* the caller later through its callback.  Calls therefore run            *)
(* concurrently, and an open suspends while it connects to the nodes.      *)
(*                                                                         *)
(* PoolController / PoolService are not in the repository: create, open,   *)
(* refresh, close, delete and set_protocol_version are modelled from the   *)
(* spec (sec. 4.4, 5): one open connection per alias, delete fails while   *)
(* the alias is open.                                                      *)
(***************************************************************************)
EXTENDS Naturals, FiniteSets

CONSTANTS
    Calls,        \* concurrent API invocations (their command handles)
    Names,        \* pool ledger config names
    MaxHandles,   \* bound on pool handles open can hand out
    Versions,     \* protocol versions callers pass
    None

Handles == 1..MaxHandles

ASSUME MaxHandles >= Cardinality(Calls)

\* An invocation: which entry point, its arguments, and whether the pointer
\* and JSON arguments pass the check_useful_* macros.
CallSpecs ==
    [op : {"create", "open", "delete", "list"}, name : Names, argsOk : BOOLEAN]
      \cup [op : {"refresh", "close"}, handle : Handles, argsOk : BOOLEAN]
      \cup [op : {"set_protocol_version"}, version : Versions, argsOk : BOOLEAN]

\* Versions the pool service accepts (Indy Node 1.3 and 1.4+).
SupportedVersions == {1, 2}

Outcomes == {"Ok", "AlreadyExists", "NotFound", "AlreadyOpened", "StillOpen",
             "InvalidHandle", "Timeout", "IncompatibleVersion"}

VARIABLES
    configs,          \* names of created pool ledger configs
    pools,            \* handle -> [name, state] or None
    nextHandle,       \* next pool handle to hand out
    protocolVersion,  \* the global PROTOCOL_VERSION
    call,             \* what each invocation asks for
    stage,            \* "new", "queued", "connecting", "returned", "done"
    ret,              \* error code the entry point returned synchronously
    cbResult,         \* result passed to the callback, None until it runs
    cbCount,          \* how often the callback ran
    conn              \* handle an open is connecting, None otherwise

vars == <<configs, pools, nextHandle, protocolVersion, call, stage, ret, cbResult, cbCount, conn>>

TypeOK ==
    /\ configs \subseteq Names
    /\ pools \in [Handles -> [name : Names, state : {"opening", "open", "closed"}] \cup {None}]
    /\ nextHandle \in 1..MaxHandles + 1
    /\ protocolVersion \in Versions
    /\ call \in [Calls -> CallSpecs]
    /\ stage \in [Calls -> {"new", "queued", "connecting", "returned", "done"}]
    /\ ret \in [Calls -> {None, "Success", "InvalidParam"}]
    /\ cbResult \in [Calls -> Outcomes \cup {None}]
    /\ cbCount \in [Calls -> 0..1]
    /\ conn \in [Calls -> Handles \cup {None}]

-----------------------------------------------------------------------------
(* Entry points: argument checks, spawn, immediate return *)

\* check_useful_* failed: the entry point returns the error code and never
\* spawns, so no callback will come.
Reject(c) ==
    /\ ~call[c].argsOk
    /\ ret' = [ret EXCEPT ![c] = "InvalidParam"]
    /\ stage' = [stage EXCEPT ![c] = "returned"]

\* executor.spawn_ok_instrumented(...); return ErrorCode::Success.
Spawn(c) ==
    /\ call[c].argsOk
    /\ ret' = [ret EXCEPT ![c] = "Success"]
    /\ stage' = [stage EXCEPT ![c] = "queued"]

\* Mutant: the arguments are checked only after the task was spawned.
SpawnThenCheck(c) ==
    /\ ret' = [ret EXCEPT ![c] = IF call[c].argsOk THEN "Success" ELSE "InvalidParam"]
    /\ stage' = [stage EXCEPT ![c] = "queued"]

Invoke(c) == Reject(c) \/ Spawn(c)

EntryPoint(c, op) ==
    /\ stage[c] = "new"
    /\ call[c].op = op
    /\ Invoke(c)
    /\ UNCHANGED <<configs, pools, nextHandle, protocolVersion, call, cbResult, cbCount, conn>>

indy_create_pool_ledger_config(c) == EntryPoint(c, "create")
indy_open_pool_ledger(c)          == EntryPoint(c, "open")
indy_refresh_pool_ledger(c)       == EntryPoint(c, "refresh")
indy_list_pools(c)                == EntryPoint(c, "list")
indy_close_pool_ledger(c)         == EntryPoint(c, "close")
indy_delete_pool_ledger_config(c) == EntryPoint(c, "delete")
indy_set_protocol_version(c)      == EntryPoint(c, "set_protocol_version")

-----------------------------------------------------------------------------
(* Spawned tasks: the controller call, then cb(res) *)

\* Mutant: the callback runs but the task is not retired.
CallbackKeepsTask(c, r) ==
    /\ stage' = stage
    /\ cbResult' = [cbResult EXCEPT ![c] = r]
    /\ cbCount' = [cbCount EXCEPT ![c] = @ + 1]

\* The task's future resolved: the wrapper hands the result to the callback.
Callback(c, r) ==
    /\ stage' = [stage EXCEPT ![c] = "done"]
    /\ cbResult' = [cbResult EXCEPT ![c] = r]
    /\ cbCount' = [cbCount EXCEPT ![c] = @ + 1]

Running(c, op) == stage[c] = "queued" /\ call[c].op = op

\* Handles whose pool is open or still connecting for a name.
Live(n) == {h \in Handles : pools[h] # None /\ pools[h].name = n
                            /\ pools[h].state \in {"opening", "open"}}

IsOpen(h) == pools[h] # None /\ pools[h].state = "open"

Create(c) ==
    /\ Running(c, "create")
    /\ IF call[c].name \in configs
       THEN Callback(c, "AlreadyExists") /\ UNCHANGED configs
       ELSE Callback(c, "Ok") /\ configs' = configs \cup {call[c].name}
    /\ UNCHANGED <<pools, nextHandle, protocolVersion, call, ret, conn>>

\* open: the state-machine check and the handle are taken before the task
\* suspends to connect to the nodes.
OpenBegin(c) ==
    /\ Running(c, "open")
    /\ CASE call[c].name \notin configs ->
              Callback(c, "NotFound") /\ UNCHANGED <<pools, nextHandle, conn>>
         [] Live(call[c].name) # {} ->
              Callback(c, "AlreadyOpened") /\ UNCHANGED <<pools, nextHandle, conn>>
         [] OTHER ->
              /\ nextHandle <= MaxHandles
              /\ pools' = [pools EXCEPT ![nextHandle] = [name |-> call[c].name, state |-> "opening"]]
              /\ nextHandle' = nextHandle + 1
              /\ conn' = [conn EXCEPT ![c] = nextHandle]
              /\ stage' = [stage EXCEPT ![c] = "connecting"]
              /\ UNCHANGED <<cbResult, cbCount>>
    /\ UNCHANGED <<configs, protocolVersion, call, ret>>

\* The connection attempt ends: the pool is open, or the nodes did not
\* answer in time and the handle is released.
OpenEnd(c) ==
    /\ stage[c] = "connecting"
    /\ LET h == conn[c] IN
       \/ /\ pools' = [pools EXCEPT ![h].state = "open"]
          /\ Callback(c, "Ok")
       \/ /\ pools' = [pools EXCEPT ![h] = None]
          /\ Callback(c, "Timeout")
    /\ conn' = [conn EXCEPT ![c] = None]
    /\ UNCHANGED <<configs, nextHandle, protocolVersion, call, ret>>

Refresh(c) ==
    /\ Running(c, "refresh")
    /\ Callback(c, IF IsOpen(call[c].handle) THEN "Ok" ELSE "InvalidHandle")
    /\ UNCHANGED <<configs, pools, nextHandle, protocolVersion, call, ret, conn>>

List(c) ==
    /\ Running(c, "list")
    /\ Callback(c, "Ok")
    /\ UNCHANGED <<configs, pools, nextHandle, protocolVersion, call, ret, conn>>

Close(c) ==
    /\ Running(c, "close")
    /\ IF IsOpen(call[c].handle)
       THEN /\ pools' = [pools EXCEPT ![call[c].handle].state = "closed"]
            /\ Callback(c, "Ok")
       ELSE /\ Callback(c, "InvalidHandle")
            /\ UNCHANGED pools
    /\ UNCHANGED <<configs, nextHandle, protocolVersion, call, ret, conn>>

Delete(c) ==
    /\ Running(c, "delete")
    /\ CASE Live(call[c].name) # {} ->
              Callback(c, "StillOpen") /\ UNCHANGED configs
         [] call[c].name \notin configs ->
              Callback(c, "NotFound") /\ UNCHANGED configs
         [] OTHER ->
              Callback(c, "Ok") /\ configs' = configs \ {call[c].name}
    /\ UNCHANGED <<pools, nextHandle, protocolVersion, call, ret, conn>>

SetProtocolVersion(c) ==
    /\ Running(c, "set_protocol_version")
    /\ IF call[c].version \in SupportedVersions
       THEN Callback(c, "Ok") /\ protocolVersion' = call[c].version
       ELSE Callback(c, "IncompatibleVersion") /\ UNCHANGED protocolVersion
    /\ UNCHANGED <<configs, pools, nextHandle, call, ret, conn>>

-----------------------------------------------------------------------------

Init ==
    /\ configs \in SUBSET Names
    /\ pools = [h \in Handles |-> None]
    /\ nextHandle = 1
    /\ protocolVersion = 1
    /\ call \in [Calls -> CallSpecs]
    /\ stage = [c \in Calls |-> "new"]
    /\ ret = [c \in Calls |-> None]
    /\ cbResult = [c \in Calls |-> None]
    /\ cbCount = [c \in Calls |-> 0]
    /\ conn = [c \in Calls |-> None]

Enter(c) ==
    \/ indy_create_pool_ledger_config(c)
    \/ indy_open_pool_ledger(c)
    \/ indy_refresh_pool_ledger(c)
    \/ indy_list_pools(c)
    \/ indy_close_pool_ledger(c)
    \/ indy_delete_pool_ledger_config(c)
    \/ indy_set_protocol_version(c)

Run(c) ==
    \/ Create(c)
    \/ OpenBegin(c)
    \/ OpenEnd(c)
    \/ Refresh(c)
    \/ List(c)
    \/ Close(c)
    \/ Delete(c)
    \/ SetProtocolVersion(c)

\* Every invocation has returned and every spawned task has called back.
Quiescent ==
    /\ \A c \in Calls : stage[c] \in {"returned", "done"}
    /\ UNCHANGED vars

Next == (\E c \in Calls : Enter(c) \/ Run(c)) \/ Quiescent

Spec == Init /\ [][Next]_vars

-----------------------------------------------------------------------------
(* Properties *)

\* The lifecycle state of an alias as the abstract PoolLifecycle sees it: open
\* while a handle of it has finished connecting, closed once one was closed.
AbstractState(n) ==
    LET hs == {h \in Handles : pools[h] # None /\ pools[h].name = n} IN
    IF \E h \in hs : pools[h].state = "open" THEN "open"
    ELSE IF \E h \in hs : pools[h].state = "closed" THEN "closed"
    ELSE "unopened"

PL == INSTANCE PoolLifecycle WITH configs <- configs,
                                  poolState <- [n \in Names |-> AbstractState(n)]

CallbackOnlyAfterSuccess ==
    \A c \in Calls : cbCount[c] > 0 => ret[c] = "Success"

=============================================================================
