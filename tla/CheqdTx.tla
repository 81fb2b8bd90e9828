------------------------------ MODULE CheqdTx ------------------------------
(***************************************************************************)
(* Key custody and the build / sign / broadcast pipeline of the cheqd      *)
(* client, run as concurrent commands against one ledger node and a chain  *)
(* that enforces the account sequence.                                     *)
(*                                                                         *)
(*   controllers/cheqd_keys.rs      add_random, add_from_mnemonic,         *)
(*                                  get_info, sign (the key vault)         *)
(*   services/cheqd_ledger/auth.rs  auth_build_tx, query / parse account   *)
(*   cli/src/commands/cheqd_ledger  create-nym: get_info, read account,    *)
(*                                  build_tx, sign, broadcast_tx_commit;   *)
(*                                  get-account                            *)
(*   tests/utils/cheqd_setup.rs     build_and_sign_and_broadcast_tx with   *)
(*                                  timeout = last height + TIMEOUT        *)
(*                                                                         *)
(* Every public call runs as its own task on the worker pool, so the       *)
(* commands of different Procs interleave at every wallet or network       *)
(* round-trip.  The chain and the wallet's record store are external       *)
(* collaborators; they are modelled from the spec (sec. 3, 5, 6).          *)
(***************************************************************************)
EXTENDS Naturals, FiniteSets

CONSTANTS
    Procs,          \* concurrently running commands (tasks of the pool)
    Aliases,        \* key aliases of the wallet
    Mnemonics,      \* phrases for add_from_mnemonic (derivation is deterministic)
    RandKeys,       \* keys new_random may produce
    Funded,         \* keys whose address has an account on the chain
    AccountNumber,  \* [Keys -> Nat]: account numbers assigned by the chain
    TimeoutInputs,  \* values given for the CLI's timeout_height parameter
    MaxHeightRepr,  \* largest u64 that converts to a tendermint Height
    MaxHeight,      \* bound on the chain's block height
    HarnessTimeout, \* blocks the test harness adds to the last height (TIMEOUT)
    NodeMayLie,     \* whether the queried node may answer with a forged value
    Omitted,        \* the timeout_height parameter was not given
    Random,         \* the add command was given no mnemonic
    None            \* absent key, account, transaction or result

Keys == Mnemonics \cup RandKeys

ASSUME /\ Funded \subseteq Keys
       /\ AccountNumber \in [Keys -> Nat]
       /\ Cardinality(RandKeys) >= Cardinality(Procs)
       /\ MaxHeight + HarnessTimeout <= MaxHeightRepr

\* A command as issued: add a key, show a key's info, query an account,
\* create a nym with a
\* key (CLI), or build, sign and broadcast with a key (test harness).
Commands ==
    [kind : {"add"}, alias : Aliases, src : Mnemonics \cup {Random}]
      \cup [kind : {"account"}, key : Keys]
      \cup [kind : {"info"}, alias : Aliases]
      \cup [kind : {"nym"}, alias : Aliases, timeout : TimeoutInputs]
      \cup [kind : {"harness"}, alias : Aliases, src : Mnemonics]

Results == {"Ok", "FormatError", "IOError",
            "NoAccount", "ProofInvalid", "InvalidHeight",
            "TimeoutRejected", "SeqRejected", "SigRejected", "Panic"}

Stages == {"start", "query", "timeout", "build", "sign", "broadcast", "done"}

SeqValues == 0..Cardinality(Procs)

VARIABLES
    wallet,     \* alias -> stored key (the wallet's record store)
    chainSeq,   \* key (its address) -> the chain's current account sequence
    height,     \* last block height of the chain
    committed,  \* transactions the chain has included
    cmd,        \* command each task runs
    pc,         \* stage each task is at
    info,       \* key read by get_info (the address queried)
    acct,       \* account (number, sequence) read from the node
    tmo,        \* timeout_height the transaction will carry
    tx,         \* SignDoc built by auth_build_tx
    sig,        \* key whose secret produced the signature
    result      \* outcome reported to the caller

vars == <<wallet, chainSeq, height, committed, cmd, pc, info, acct, tmo, tx, sig, result>>

TypeOK ==
    /\ wallet \in [Aliases -> Keys \cup {None}]
    /\ chainSeq \in [Keys -> SeqValues]
    /\ height \in 1..MaxHeight
    /\ committed \subseteq [key : Keys, seq : SeqValues, proc : Procs]
    /\ cmd \in [Procs -> Commands]
    /\ pc \in [Procs -> Stages]
    /\ info \in [Procs -> Keys \cup {None}]
    /\ acct \in [Procs -> [num : Nat, seq : SeqValues] \cup {None}]
    /\ tmo \in [Procs -> Nat \cup {None}]
    /\ tx \in [Procs -> [key : Keys, num : Nat, seq : Nat, timeout : Nat] \cup {None}]
    /\ sig \in [Procs -> Keys \cup {None}]
    /\ result \in [Procs -> Results \cup {None}]

-----------------------------------------------------------------------------
(* Key vault *)

\* new_from_mnemonic derives the same key from the same phrase; new_random
\* draws a fresh key.
NewKeys(src) ==
    IF src = Random
    THEN RandKeys \ {wallet[a] : a \in Aliases}
    ELSE {src}

\* Mutant: the store upserts instead of refusing an existing alias.
StoreKeyOverwrite(w, a, k) == [wallet |-> [w EXCEPT ![a] = k], err |-> None]

\* store_key: add_indy_object refuses an alias the wallet already holds;
\* .to_indy(IndyErrorKind::IOError, ..) re-kinds whatever it failed with.
StoreKey(w, a, k) ==
    IF w[a] = None
    THEN [wallet |-> [w EXCEPT ![a] = k], err |-> None]
    ELSE [wallet |-> w, err |-> "IOError"]

\* load_key: get_indy_object by alias.
LoadKey(a) == wallet[a]

\* get_info: load_key, then the key's account id and public key (None when
\* the alias is unknown: load_key re-kinds the wallet's WalletItemNotFound
\* as IOError).
GetInfo(a) == LoadKey(a)

Finish(p, r) ==
    /\ pc' = [pc EXCEPT ![p] = "done"]
    /\ result' = [result EXCEPT ![p] = r]

\* add_random / add_from_mnemonic: create the key, store it, return its info.
AddKey(p) ==
    /\ pc[p] = "start"
    /\ cmd[p].kind = "add"
    /\ \E k \in NewKeys(cmd[p].src) :
         LET st == StoreKey(wallet, cmd[p].alias, k) IN
         /\ wallet' = st.wallet
         /\ Finish(p, IF st.err = None THEN "Ok" ELSE st.err)
    /\ UNCHANGED <<chainSeq, height, committed, cmd, info, acct, tmo, tx, sig>>

\* CLI get-info: CheqdKeys::get_info of the alias, printed or reported.
GetKeyInfo(p) ==
    /\ pc[p] = "start"
    /\ cmd[p].kind = "info"
    /\ info' = [info EXCEPT ![p] = GetInfo(cmd[p].alias)]
    /\ Finish(p, IF GetInfo(cmd[p].alias) = None THEN "IOError" ELSE "Ok")
    /\ UNCHANGED <<wallet, chainSeq, height, committed, cmd, acct, tmo, tx, sig>>

-----------------------------------------------------------------------------
(* Account query *)

\* What the node answers to build_query_account (a /store/acc/key query with
\* prove = true): the committed account with a valid proof, an empty value
\* for an address without account, or (a lying node) a forged sequence whose
\* proof fails.
HonestResponse(k) ==
    [value |-> IF k \in Funded THEN [num |-> AccountNumber[k], seq |-> chainSeq[k]]
                               ELSE None,
     proofOk |-> TRUE]

Responses(k) ==
    {HonestResponse(k)}
      \cup IF NodeMayLie
           THEN {[value |-> [num |-> AccountNumber[k], seq |-> s], proofOk |-> FALSE] :
                   s \in SeqValues \ {chainSeq[k]}}
           ELSE {}

\* Mutant: the response is taken without check_proofs.
ParseQueryAccountRespUnchecked(resp) == [err |-> None, account |-> resp.value]

\* auth_parse_query_account_resp: decode the value (empty: no account), then
\* check_proofs.
ParseQueryAccountResp(resp) ==
    IF resp.proofOk
    THEN [err |-> None, account |-> resp.value]
    ELSE [err |-> "ProofInvalid", account |-> None]

\* CLI get-account: query, parse and print the (possibly absent) account.
GetAccount(p) ==
    /\ pc[p] = "start"
    /\ cmd[p].kind = "account"
    /\ info' = [info EXCEPT ![p] = cmd[p].key]
    /\ \E resp \in Responses(cmd[p].key) :
         LET parsed == ParseQueryAccountResp(resp) IN
         /\ acct' = [acct EXCEPT ![p] = parsed.account]
         /\ Finish(p, IF parsed.err = None THEN "Ok" ELSE parsed.err)
    /\ UNCHANGED <<wallet, chainSeq, height, committed, cmd, tmo, tx, sig>>

-----------------------------------------------------------------------------
(* create-nym (CLI) and build_and_sign_and_broadcast_tx (test harness) *)

\* Mutant: the timeout_height parameter is used without being parsed.
NymGetInfoNoParse(p) ==
    /\ pc[p] = "start"
    /\ cmd[p].kind = "nym"
    /\ \/ /\ GetInfo(cmd[p].alias) = None
          /\ Finish(p, "IOError")
          /\ UNCHANGED <<info, tmo>>
       \/ /\ LoadKey(cmd[p].alias) # None
          /\ info' = [info EXCEPT ![p] = LoadKey(cmd[p].alias)]
          /\ tmo' = [tmo EXCEPT ![p] = cmd[p].timeout]
          /\ pc' = [pc EXCEPT ![p] = "query"]
          /\ UNCHANGED result
    /\ UNCHANGED <<wallet, chainSeq, height, committed, cmd, acct, tx, sig>>

\* create-nym parses its parameters first: an absent timeout_height is
\* parsed from "" and rejected.  Then CheqdKeys::get_info reads the
\* signer's public key.
NymGetInfo(p) ==
    /\ pc[p] = "start"
    /\ cmd[p].kind = "nym"
    /\ \/ /\ cmd[p].timeout = Omitted
          /\ Finish(p, "FormatError")
          /\ UNCHANGED <<info, tmo>>
       \/ /\ cmd[p].timeout # Omitted
          /\ GetInfo(cmd[p].alias) = None
          /\ Finish(p, "IOError")
          /\ UNCHANGED <<info, tmo>>
       \/ /\ cmd[p].timeout # Omitted
          /\ GetInfo(cmd[p].alias) # None
          /\ info' = [info EXCEPT ![p] = GetInfo(cmd[p].alias)]
          /\ tmo' = [tmo EXCEPT ![p] = cmd[p].timeout]
          /\ pc' = [pc EXCEPT ![p] = "query"]
          /\ UNCHANGED result
    /\ UNCHANGED <<wallet, chainSeq, height, committed, cmd, acct, tx, sig>>

\* CheqdSetup::create_key: add_from_mnemonic under the setup's alias,
\* unwrapped (a refused alias panics); the account id and public key it
\* returns are the ones the harness queries and declares.
HarnessStart(p) ==
    /\ pc[p] = "start"
    /\ cmd[p].kind = "harness"
    /\ LET st == StoreKey(wallet, cmd[p].alias, cmd[p].src) IN
       \/ /\ st.err # None
          /\ Finish(p, "Panic")
          /\ UNCHANGED <<wallet, info>>
       \/ /\ st.err = None
          /\ wallet' = st.wallet
          /\ info' = [info EXCEPT ![p] = cmd[p].src]
          /\ pc' = [pc EXCEPT ![p] = "query"]
          /\ UNCHANGED result
    /\ UNCHANGED <<chainSeq, height, committed, cmd, acct, tmo, tx, sig>>

\* get_base_account_number_and_sequence: query, parse, and fail when the
\* response carries no account.  The CLI returns an error; the harness
\* unwraps and panics.
QueryAccount(p) ==
    /\ pc[p] = "query"
    /\ \E resp \in Responses(info[p]) :
         LET parsed == ParseQueryAccountResp(resp)
             fail(r) == Finish(p, IF cmd[p].kind = "harness" THEN "Panic" ELSE r)
         IN
         \/ /\ parsed.err # None
            /\ fail(parsed.err)
            /\ UNCHANGED acct
         \/ /\ parsed.err = None
            /\ parsed.account = None
            /\ fail("NoAccount")
            /\ UNCHANGED acct
         \/ /\ parsed.err = None
            /\ parsed.account # None
            /\ acct' = [acct EXCEPT ![p] = parsed.account]
            /\ pc' = [pc EXCEPT ![p] = IF cmd[p].kind = "harness" THEN "timeout" ELSE "build"]
            /\ UNCHANGED result
    /\ UNCHANGED <<wallet, chainSeq, height, committed, cmd, info, tmo, tx, sig>>

\* get_timeout_height: abci_info's last_block_height + TIMEOUT.
GetTimeoutHeight(p) ==
    /\ pc[p] = "timeout"
    /\ tmo' = [tmo EXCEPT ![p] = height + HarnessTimeout]
    /\ pc' = [pc EXCEPT ![p] = "build"]
    /\ UNCHANGED <<wallet, chainSeq, height, committed, cmd, info, acct, tx, sig, result>>

\* Mutant: account number and sequence passed in each other's place.
BuildTxSwapped(p) ==
    /\ pc[p] = "build"
    /\ \/ /\ tmo[p] > MaxHeightRepr
          /\ Finish(p, "InvalidHeight")
          /\ UNCHANGED tx
       \/ /\ tmo[p] <= MaxHeightRepr
          /\ tx' = [tx EXCEPT ![p] = [key |-> info[p], num |-> acct[p].seq,
                                      seq |-> acct[p].num, timeout |-> tmo[p]]]
          /\ pc' = [pc EXCEPT ![p] = "sign"]
          /\ UNCHANGED result
    /\ UNCHANGED <<wallet, chainSeq, height, committed, cmd, info, acct, tmo, sig>>

\* auth_build_tx: timeout_height must convert to a Height; the SignDoc
\* covers the signer's key, account number, sequence and timeout.
BuildTx(p) ==
    /\ pc[p] = "build"
    /\ \/ /\ tmo[p] > MaxHeightRepr
          /\ Finish(p, "InvalidHeight")
          /\ UNCHANGED tx
       \/ /\ tmo[p] <= MaxHeightRepr
          /\ tx' = [tx EXCEPT ![p] = [key |-> info[p], num |-> acct[p].num,
                                      seq |-> acct[p].seq, timeout |-> tmo[p]]]
          /\ pc' = [pc EXCEPT ![p] = "sign"]
          /\ UNCHANGED result
    /\ UNCHANGED <<wallet, chainSeq, height, committed, cmd, info, acct, tmo, sig>>

\* CheqdKeysController::sign loads the key by alias again and signs.  Its
\* load failure (IOError) is unreachable here: get_info found the alias and no
\* operation of the repository removes a key.
Sign(p) ==
    /\ pc[p] = "sign"
    /\ LoadKey(cmd[p].alias) # None
    /\ sig' = [sig EXCEPT ![p] = LoadKey(cmd[p].alias)]
    /\ pc' = [pc EXCEPT ![p] = "broadcast"]
    /\ UNCHANGED <<wallet, chainSeq, height, committed, cmd, info, acct, tmo, tx, result>>

\* The chain's ante handler: timeout height, then sequence, then signature.
ChainVerdict(t, signer) ==
    CASE t.timeout # 0 /\ height + 1 > t.timeout -> "TimeoutRejected"
      [] t.seq # chainSeq[t.key] \/ t.num # AccountNumber[t.key] -> "SeqRejected"
      [] signer # t.key -> "SigRejected"
      [] OTHER -> "Ok"

\* The chain includes the transaction: the account's sequence advances.
Include(t, p) ==
    /\ chainSeq' = [chainSeq EXCEPT ![t.key] = @ + 1]
    /\ committed' = committed \cup {[key |-> t.key, seq |-> t.seq, proc |-> p]}

\* broadcast_tx_commit: the chain includes the transaction or rejects it.
Broadcast(p) ==
    /\ pc[p] = "broadcast"
    /\ LET v == ChainVerdict(tx[p], sig[p]) IN
       /\ IF v = "Ok" THEN Include(tx[p], p) ELSE UNCHANGED <<chainSeq, committed>>
       /\ Finish(p, v)
    /\ UNCHANGED <<wallet, height, cmd, info, acct, tmo, tx, sig>>

\* The chain produces a block.
Tick ==
    /\ height < MaxHeight
    /\ height' = height + 1
    /\ UNCHANGED <<wallet, chainSeq, committed, cmd, pc, info, acct, tmo, tx, sig, result>>

\* Every command has returned; the process is idle.
Terminated ==
    /\ \A p \in Procs : pc[p] = "done"
    /\ UNCHANGED vars

-----------------------------------------------------------------------------

Init ==
    /\ wallet = [a \in Aliases |-> None]
    /\ chainSeq = [k \in Keys |-> 0]
    /\ height = 1
    /\ committed = {}
    /\ cmd \in [Procs -> Commands]
    /\ pc = [p \in Procs |-> "start"]
    /\ info = [p \in Procs |-> None]
    /\ acct = [p \in Procs |-> None]
    /\ tmo = [p \in Procs |-> None]
    /\ tx = [p \in Procs |-> None]
    /\ sig = [p \in Procs |-> None]
    /\ result = [p \in Procs |-> None]

Step(p) ==
    \/ AddKey(p)
    \/ GetKeyInfo(p)
    \/ GetAccount(p)
    \/ NymGetInfo(p)
    \/ HarnessStart(p)
    \/ QueryAccount(p)
    \/ GetTimeoutHeight(p)
    \/ BuildTx(p)
    \/ Sign(p)
    \/ Broadcast(p)

Next ==
    \/ \E p \in Procs : Step(p)
    \/ Tick
    \/ Terminated

Spec == Init /\ [][Next]_vars

-----------------------------------------------------------------------------
(* Properties *)

\* The public key create-nym reads with get_info and the key sign loads
\* later by the same alias are the same key: a concurrent add of that alias
\* never replaces it, so no transaction is signed by a key other than the
\* one its SignDoc declares.
SignerMatchesDeclaredKey ==
    \A p \in Procs : sig[p] # None => sig[p] = tx[p].key

\* Fail closed: an account the client accepts from the node (for get-account
\* or to build a transaction) is one the chain really had: its number is the
\* chain's and its sequence is not ahead of the chain's.
AcceptedAccountIsGenuine ==
    \A p \in Procs :
        acct[p] # None =>
            /\ acct[p].num = AccountNumber[info[p]]
            /\ acct[p].seq <= chainSeq[info[p]]

\* The client never invents a sequence: a transaction the chain rejects for
\* its sequence carries one that another task's committed transaction of the
\* same account already used (the account was read, then another broadcast
\* of that account landed first).
StaleRejectionExplained ==
    \A p \in Procs :
        result[p] = "SeqRejected" =>
            \E c \in committed : c.key = tx[p].key /\ c.seq = tx[p].seq /\ c.proc # p

\* KeyVault.create of an alias the wallet already holds fails with
\* DuplicateAlias (spec 4.1, 8), for the CLI's add command as well.
DuplicateAliasReported ==
    \A p \in Procs :
        cmd[p].kind = "add" /\ result[p] \notin {None, "Ok"} => result[p] = "DuplicateAlias"

\* An omitted (optional) timeout_height behaves as no timeout: it is never
\* the reason a create-nym fails.
OmittedTimeoutAccepted ==
    \A p \in Procs : cmd[p].kind = "nym" /\ cmd[p].timeout = Omitted =>
                        result[p] # "FormatError"

=============================================================================
