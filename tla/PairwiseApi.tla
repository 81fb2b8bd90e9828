---------------------------- MODULE PairwiseApi ----------------------------
(***************************************************************************)
(* The pairwise API of libindy (api/pairwise.rs): indy_is_pairwise_exists, *)
(* indy_create_pairwise, indy_list_pairwise, indy_get_pairwise and         *)
(* indy_set_pairwise_metadata.  Each entry point validates its DID and     *)
(* string arguments, spawns the controller call with                       *)
(* spawn_ok_instrumented and returns Success; cb(res) runs when the task   *)
(* has finished.  A caller that issues a second call before the first one  *)
(* has called back therefore races it.                                     *)
(*                                                                         *)
(* The pairwise controller is not in the repository.  Its operations are   *)
(* modelled on the wallet's record interface (spec sec. 6): a record per   *)
(* their_did, added with add_indy_object, which refuses an existing id     *)
(* (as controllers/cheqd_keys.rs store_key relies on).                     *)
(***************************************************************************)
EXTENDS Naturals, FiniteSets

CONSTANTS
    Calls,      \* concurrent API invocations (their command handles)
    TheirDids,  \* DIDs a pairwise is keyed by
    MyDids,     \* DIDs of the wallet owner
    Metas,      \* metadata values
    None        \* absent record, metadata or result

\* An invocation: its entry point, its arguments, and whether they pass
\* check_useful_validatable_string / check_useful_opt_c_str / the callback
\* check.
CallSpecs ==
    [op : {"exists", "get"}, their : TheirDids, argsOk : BOOLEAN]
      \cup [op : {"create"}, their : TheirDids, my : MyDids, meta : Metas \cup {None},
            argsOk : BOOLEAN]
      \cup [op : {"list"}, argsOk : BOOLEAN]
      \cup [op : {"set_metadata"}, their : TheirDids, meta : Metas \cup {None},
            argsOk : BOOLEAN]

Pair == [my : MyDids, meta : Metas \cup {None}]

\* What prepare_result hands to the callback: the error code and, for
\* exists, get and list, the value.
Results ==
    [err : {"Ok"}, val : Pair \cup {None}]
      \cup [err : {"Ok"}, exists : BOOLEAN]
      \cup [err : {"Ok"}, list : SUBSET TheirDids]
      \cup [err : {"AlreadyExists", "NotFound"}, val : {None}]

VARIABLES
    pairs,      \* their_did -> stored pairwise record, or None
    call,       \* what each invocation asks for
    stage,      \* "new", "queued", "returned", "done"
    ret,        \* error code the entry point returned synchronously
    cbResult    \* what the callback received, None until it runs

vars == <<pairs, call, stage, ret, cbResult>>

TypeOK ==
    /\ pairs \in [TheirDids -> Pair \cup {None}]
    /\ call \in [Calls -> CallSpecs]
    /\ stage \in [Calls -> {"new", "queued", "returned", "done"}]
    /\ ret \in [Calls -> {None, "Success", "InvalidParam"}]
    /\ cbResult \in [Calls -> Results \cup {None}]

-----------------------------------------------------------------------------
(* Entry points *)

\* Mutant: the arguments are checked only after the task was spawned.
EntryPointSpawnThenCheck(c, op) ==
    /\ stage[c] = "new"
    /\ call[c].op = op
    /\ ret' = [ret EXCEPT ![c] = IF call[c].argsOk THEN "Success" ELSE "InvalidParam"]
    /\ stage' = [stage EXCEPT ![c] = "queued"]
    /\ UNCHANGED <<pairs, call, cbResult>>

\* The argument checks fail: the error code is returned, nothing is spawned.
\* Otherwise executor.spawn_ok_instrumented(...) and ErrorCode::Success.
EntryPoint(c, op) ==
    /\ stage[c] = "new"
    /\ call[c].op = op
    /\ ret' = [ret EXCEPT ![c] = IF call[c].argsOk THEN "Success" ELSE "InvalidParam"]
    /\ stage' = [stage EXCEPT ![c] = IF call[c].argsOk THEN "queued" ELSE "returned"]
    /\ UNCHANGED <<pairs, call, cbResult>>

indy_is_pairwise_exists(c)    == EntryPoint(c, "exists")
indy_create_pairwise(c)       == EntryPoint(c, "create")
indy_list_pairwise(c)         == EntryPoint(c, "list")
indy_get_pairwise(c)          == EntryPoint(c, "get")
indy_set_pairwise_metadata(c) == EntryPoint(c, "set_metadata")

-----------------------------------------------------------------------------
(* Spawned tasks: controller call, then cb(res) with prepare_result *)

Ok(v) == [err |-> "Ok", val |-> v]
Err(e) == [err |-> e, val |-> None]

\* The task ran: the store is updated and the callback receives the result.
Complete(c, r) ==
    /\ stage' = [stage EXCEPT ![c] = "done"]
    /\ cbResult' = [cbResult EXCEPT ![c] = r]

Running(c, op) == stage[c] = "queued" /\ call[c].op = op

PairwiseExists(c) ==
    /\ Running(c, "exists")
    /\ Complete(c, [err |-> "Ok", exists |-> pairs[call[c].their] # None])
    /\ UNCHANGED pairs

\* add_indy_object of the pairwise record: refused if their_did has one.
CreatePairwise(c) ==
    /\ Running(c, "create")
    /\ IF pairs[call[c].their] = None
       THEN /\ pairs' = [pairs EXCEPT ![call[c].their] = [my |-> call[c].my, meta |-> call[c].meta]]
            /\ Complete(c, Ok(None))
       ELSE /\ Complete(c, Err("AlreadyExists"))
            /\ UNCHANGED pairs

ListPairwise(c) ==
    /\ Running(c, "list")
    /\ Complete(c, [err |-> "Ok", list |-> {d \in TheirDids : pairs[d] # None}])
    /\ UNCHANGED pairs

GetPairwise(c) ==
    /\ Running(c, "get")
    /\ Complete(c, IF pairs[call[c].their] = None THEN Err("NotFound")
                   ELSE Ok(pairs[call[c].their]))
    /\ UNCHANGED pairs

\* Mutant: setting metadata of an unknown their_did creates a record.
SetPairwiseMetadataUpsert(c) ==
    /\ Running(c, "set_metadata")
    /\ pairs' = [pairs EXCEPT ![call[c].their] =
                    IF @ = None THEN [my |-> None, meta |-> call[c].meta]
                    ELSE [@ EXCEPT !.meta = call[c].meta]]
    /\ Complete(c, Ok(None))

\* The stored record gets the new (possibly absent) metadata.
SetPairwiseMetadata(c) ==
    /\ Running(c, "set_metadata")
    /\ IF pairs[call[c].their] = None
       THEN /\ Complete(c, Err("NotFound"))
            /\ UNCHANGED pairs
       ELSE /\ pairs' = [pairs EXCEPT ![call[c].their].meta = call[c].meta]
            /\ Complete(c, Ok(None))

-----------------------------------------------------------------------------

Init ==
    /\ pairs = [d \in TheirDids |-> None]
    /\ call \in [Calls -> CallSpecs]
    /\ stage = [c \in Calls |-> "new"]
    /\ ret = [c \in Calls |-> None]
    /\ cbResult = [c \in Calls |-> None]

Enter(c) ==
    \/ indy_is_pairwise_exists(c)
    \/ indy_create_pairwise(c)
    \/ indy_list_pairwise(c)
    \/ indy_get_pairwise(c)
    \/ indy_set_pairwise_metadata(c)

Run(c) ==
    /\ \/ PairwiseExists(c)
       \/ CreatePairwise(c)
       \/ ListPairwise(c)
       \/ GetPairwise(c)
       \/ SetPairwiseMetadata(c)
    /\ UNCHANGED <<call, ret>>

\* Every invocation has returned and every spawned task has called back.
Quiescent ==
    /\ \A c \in Calls : stage[c] \in {"returned", "done"}
    /\ UNCHANGED vars

Next == (\E c \in Calls : Enter(c) \/ Run(c)) \/ Quiescent

Spec == Init /\ [][Next]_vars

-----------------------------------------------------------------------------
(* Properties *)

\* The FFI contract of every pairwise entry point: the argument checks
\* (check_useful_c_str / check_useful_validatable_string / the callback
\* check) return before spawn_ok_instrumented, so only an invocation that
\* returned Success is ever called back.
CallbackOnlyAfterSuccess ==
    \A c \in Calls : cbResult[c] # None => ret[c] = "Success"

=============================================================================
