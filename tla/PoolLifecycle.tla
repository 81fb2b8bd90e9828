---------------------------- MODULE PoolLifecycle ----------------------------
(***************************************************************************)
(* The pool lifecycle a caller of the pool API may rely on (spec 4.4):     *)
(* per alias Unopened -> Open -> Closed, only one open connection per      *)
(* alias, an alias opens only while its configuration exists, and a        *)
(* configuration is deleted only while its alias is not open.  Steps are   *)
(* atomic here; PoolApi, where open suspends to connect, implements it.    *)
(***************************************************************************)
CONSTANTS Names  \* pool ledger config names (aliases)

VARIABLES
    configs,    \* aliases whose configuration exists
    poolState   \* alias -> "unopened", "open" or "closed"

vars == <<configs, poolState>>

Init ==
    /\ configs \in SUBSET Names
    /\ poolState = [n \in Names |-> "unopened"]

CreateConfig(n) ==
    /\ n \notin configs
    /\ configs' = configs \cup {n}
    /\ UNCHANGED poolState

DeleteConfig(n) ==
    /\ n \in configs
    /\ poolState[n] # "open"
    /\ configs' = configs \ {n}
    /\ UNCHANGED poolState

Open(n) ==
    /\ n \in configs
    /\ poolState[n] # "open"
    /\ poolState' = [poolState EXCEPT ![n] = "open"]
    /\ UNCHANGED configs

Close(n) ==
    /\ poolState[n] = "open"
    /\ poolState' = [poolState EXCEPT ![n] = "closed"]
    /\ UNCHANGED configs

Next == \E n \in Names : CreateConfig(n) \/ DeleteConfig(n) \/ Open(n) \/ Close(n)

Spec == Init /\ [][Next]_vars

=============================================================================
