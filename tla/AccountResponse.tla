--------------------------- MODULE AccountResponse ---------------------------
(***************************************************************************)
(* The two readers of the account query's JSON answer.                     *)
(*                                                                         *)
(*   auth.rs  auth_parse_query_account_resp   decodes the account (none    *)
(*            when the value is empty) into QueryAccountResponse::new      *)
(*            (result), which the controller returns as JSON               *)
(*   cli      get_base_account_number_and_sequence reads                   *)
(*            ["account"]["base_account"]["account_number" / "sequence"],  *)
(*            checking each level and returning Err when one is missing    *)
(*   harness  CheqdSetup::get_base_account_number_and_sequence reads       *)
(*            ["base_account"][...] and unwraps: a missing level panics    *)
(*                                                                         *)
(* The controller that serialises QueryAccountResponse is not in the       *)
(* repository, so the layout of the JSON is a constant: Layouts holds the  *)
(* candidates, "wrapped" (the account under "account", the layout the CLI  *)
(* reads) and "bare" (the account at the top level, the one the harness   *)
(* reads).  A JSON object is a function from its keys; serde_json's index  *)
(* yields Null for a missing key or a non-object.                          *)
(***************************************************************************)
EXTENDS Naturals, TLC

CONSTANTS
    Layouts,         \* candidate layouts of the serialised response
    AccountNumbers,  \* account numbers the chain may assign
    MaxSeq,          \* bound on the account's sequence
    Null,            \* the JSON null
    None             \* no account on the chain, no answer yet

ASSUME Layouts \subseteq {"wrapped", "bare"}

Readers == {"cli", "harness"}

Accounts == [num : AccountNumbers, seq : 0..MaxSeq]

\* A reader's failure: an Err returned to the caller or a panic.
Err == [error |-> "Err"]
Panic == [error |-> "Panic"]

VARIABLES
    layout,   \* the layout the controller produces
    chain,    \* the chain's account for the queried address, or None
    resp,     \* reader -> the JSON answer it received, or None
    out       \* reader -> the (number, sequence) it read, Err, Panic or None

vars == <<layout, chain, resp, out>>

-----------------------------------------------------------------------------

\* value[key] of serde_json.
Get(j, key) == IF j # Null /\ key \in DOMAIN j THEN j[key] ELSE Null

\* The JSON of a BaseAccount.
BaseAccountJson(a) == ("account_number" :> a.num) @@ ("sequence" :> a.seq)

\* auth_parse_query_account_resp: Some(Account::from_proto_bytes(value))
\* for a non-empty value, None otherwise; QueryAccountResponse::new(result)
\* serialised in the given layout.
ParseQueryAccountResp(l, a) ==
    LET acc == IF a = None THEN Null ELSE "base_account" :> BaseAccountJson(a) IN
    IF l = "wrapped" THEN "account" :> acc ELSE acc

TypeOK ==
    /\ layout \in Layouts
    /\ chain \in Accounts \cup {None}
    /\ resp \in [Readers -> {None} \cup {ParseQueryAccountResp(l, a) :
                                          l \in Layouts, a \in Accounts \cup {None}}]
    /\ out \in [Readers -> Accounts \cup {Err, Panic, None}]

\* CLI get_base_account_number_and_sequence, after parse: an absent
\* "account", "base_account", "account_number" or "sequence" is an Err.
CliExtract(j) ==
    LET account == Get(j, "account")
        base == Get(account, "base_account")
    IN CASE account = Null -> Err
         [] base = Null -> Err
         [] Get(base, "account_number") = Null -> Err
         [] Get(base, "sequence") = Null -> Err
         [] OTHER -> [num |-> base["account_number"], seq |-> base["sequence"]]

\* The harness: resp["base_account"].as_object().unwrap(), then
\* as_u64().unwrap() of both fields.
HarnessExtract(j) ==
    LET base == Get(j, "base_account") IN
    IF base = Null \/ Get(base, "account_number") = Null \/ Get(base, "sequence") = Null
    THEN Panic
    ELSE [num |-> base["account_number"], seq |-> base["sequence"]]

-----------------------------------------------------------------------------

\* The chain creates the account when the address is first funded.
CreateAccount(n) ==
    /\ chain = None
    /\ chain' = [num |-> n, seq |-> 0]
    /\ UNCHANGED <<layout, resp, out>>

\* Another transaction of the account is committed.
Commit ==
    /\ chain # None /\ chain.seq < MaxSeq
    /\ chain' = [chain EXCEPT !.seq = @ + 1]
    /\ UNCHANGED <<layout, resp, out>>

\* build_query_account, abci_query and parse_query_account_resp: the
\* reader receives the JSON of the chain's current account.
Query(r) ==
    /\ resp[r] = None
    /\ resp' = [resp EXCEPT ![r] = ParseQueryAccountResp(layout, chain)]
    /\ UNCHANGED <<layout, chain, out>>

\* The CLI parses the answer (create-nym's account read).
CliRead ==
    /\ resp["cli"] # None /\ out["cli"] = None
    /\ out' = [out EXCEPT !["cli"] = CliExtract(resp["cli"])]
    /\ UNCHANGED <<layout, chain, resp>>

\* The harness parses the answer (build_and_sign_and_broadcast_tx).
HarnessRead ==
    /\ resp["harness"] # None /\ out["harness"] = None
    /\ out' = [out EXCEPT !["harness"] = HarnessExtract(resp["harness"])]
    /\ UNCHANGED <<layout, chain, resp>>

\* Both readers are done and the chain is at its bound.
Finished ==
    /\ \A r \in Readers : out[r] # None
    /\ chain # None /\ chain.seq = MaxSeq
    /\ UNCHANGED vars

-----------------------------------------------------------------------------

Init ==
    /\ layout \in Layouts
    /\ chain = None
    /\ resp = [r \in Readers |-> None]
    /\ out = [r \in Readers |-> None]

Next ==
    \/ \E n \in AccountNumbers : CreateAccount(n)
    \/ Commit
    \/ \E r \in Readers : Query(r)
    \/ CliRead
    \/ HarnessRead
    \/ Finished

Spec == Init /\ [][Next]_vars

-----------------------------------------------------------------------------
(* Properties *)

\* The test harness and the CLI read the same answer the same way: given
\* the same JSON, the harness obtains an account exactly when the CLI does,
\* and the same one.
HarnessReadsWhatCliReads ==
    (/\ \A r \in Readers : out[r] # None
     /\ resp["cli"] = resp["harness"])
        => ((out["cli"] \in Accounts) = (out["harness"] \in Accounts)
            /\ (out["cli"] \in Accounts => out["cli"] = out["harness"]))

=============================================================================
