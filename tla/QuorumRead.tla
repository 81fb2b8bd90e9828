----------------------------- MODULE QuorumRead -----------------------------
(***************************************************************************)
(* The read protocol of an open pool (PoolQuorumClient.query, spec 4.4;    *)
(* the open config of indy_open_pool_ledger, api/pool.rs): a read goes to  *)
(* number_read_nodes nodes, preordered_nodes first; if no response comes   *)
(* or no state proof verifies, it goes again to twice as many nodes, and   *)
(* so on until a verified answer arrives or every node has been tried.     *)
(* A round begins only after the previous one has fully resolved: every   *)
(* node asked has answered or timed out.                                   *)
(*                                                                         *)
(* Nodes lag behind the chain, and Faulty nodes may answer with a forged   *)
(* value whose proof does not verify.  Among verified answers the latest   *)
(* height wins.  The pool service is not in the repository: this module    *)
(* follows the spec and the doc comment of indy_open_pool_ledger.          *)
(***************************************************************************)
EXTENDS Naturals, Sequences, SequencesExt, FiniteSets

CONSTANTS
    Nodes,            \* the pool's nodes
    Preordered,       \* preordered_nodes: a sequence of distinct nodes
    NumberReadNodes,  \* number_read_nodes (2 by default)
    Faulty,           \* nodes that may forge an answer
    MaxHeight,        \* bound on the chain's height
    None

ASSUME /\ NumberReadNodes \in Nat \ {0}
       /\ Faulty \subseteq Nodes
       /\ Range(Preordered) \subseteq Nodes
       /\ Len(Preordered) = Cardinality(Range(Preordered))

VARIABLES
    chainH,     \* height of the chain
    nodeH,      \* height each node has synced to
    order,      \* order in which the read contacts the nodes
    k,          \* fan-out of the current round
    tried,      \* nodes asked so far
    pending,    \* nodes asked in this round that have not answered or timed out
    inRound,    \* a round is in flight
    responses,  \* answers received: [node, value, height, proof]
    result      \* what the read returns, None until it has decided

vars == <<chainH, nodeH, order, k, tried, pending, inRound, responses, result>>

\* Refinement mapping: the abstract read sees the chain's height and the
\* read's result; node heights, the order, the fan-out and the answers
\* collected so far are hidden.
VR == INSTANCE VerifiedRead WITH height <- chainH, answer <- result,
                                 MaxHeight <- MaxHeight, None <- None

Response == [node : Nodes, value : Nat, height : 1..MaxHeight, proof : {"valid", "tampered"}]

TypeOK ==
    /\ chainH \in 1..MaxHeight
    /\ nodeH \in [Nodes -> 1..MaxHeight]
    /\ order \in Seq(Nodes)
    /\ k \in 1..2 * (Cardinality(Nodes) + NumberReadNodes)
    /\ tried \subseteq Nodes /\ pending \subseteq tried
    /\ inRound \in BOOLEAN
    /\ responses \subseteq Response
    /\ result \in {None} \cup VR!Failures \cup [value : Nat, height : 1..MaxHeight]

-----------------------------------------------------------------------------

\* preordered_nodes first, the other nodes in some order.
Orders == {Preordered \o rest : rest \in SetToSeqs(Nodes \ Range(Preordered))}

\* A round goes to the first k nodes of the order (all of them once k
\* exceeds the pool).
Fanout(n) == {order[i] : i \in 1..(IF n < Len(order) THEN n ELSE Len(order))}

Verify(r) == r.proof = "valid"

Verified == {r \in responses : Verify(r)}

\* A later height supersedes: the verified answer with the greatest height.
Latest(V) == CHOOSE r \in V : \A s \in V : s.height <= r.height

\* Mutant: the round's nodes are not recorded as tried.
SendRoundForgetsTried ==
    /\ result = None /\ ~inRound
    /\ pending' = Fanout(k) \ tried
    /\ inRound' = TRUE
    /\ UNCHANGED <<chainH, nodeH, order, k, tried, responses, result>>

\* Send the request to the round's nodes not asked before.
SendRound ==
    /\ result = None /\ ~inRound
    /\ pending' = Fanout(k) \ tried
    /\ tried' = tried \cup Fanout(k)
    /\ inRound' = TRUE
    /\ UNCHANGED <<chainH, nodeH, order, k, responses, result>>

\* An asked node answers from the state it has synced: an honest answer
\* carries a valid proof; a faulty node may instead forge value and height.
Reply(n) ==
    /\ n \in pending
    /\ \/ responses' = responses \cup {[node |-> n, value |-> VR!Val(nodeH[n]),
                                        height |-> nodeH[n], proof |-> "valid"]}
       \/ /\ n \in Faulty
          /\ \E h \in 1..MaxHeight :
               responses' = responses \cup {[node |-> n, value |-> VR!Val(h) + 1,
                                             height |-> h, proof |-> "tampered"]}
    /\ pending' = pending \ {n}
    /\ UNCHANGED <<chainH, nodeH, order, k, tried, inRound, result>>

\* The node does not answer within the timeout (or its answer is lost).
NodeTimeout(n) ==
    /\ n \in pending
    /\ pending' = pending \ {n}
    /\ UNCHANGED <<chainH, nodeH, order, k, tried, inRound, responses, result>>

\* The round has resolved: accept the latest verified answer, give up once
\* every node was tried, or double the fan-out.
Resolve ==
    /\ inRound /\ pending = {}
    /\ inRound' = FALSE
    /\ CASE Verified # {} ->
              /\ LET r == Latest(Verified) IN result' = [value |-> r.value, height |-> r.height]
              /\ UNCHANGED k
         [] tried = Nodes ->
              /\ result' = VR!Fail(IF responses = {} THEN "QueryUnreachable" ELSE "ProofInvalid")
              /\ UNCHANGED k
         [] OTHER ->
              /\ k' = 2 * k
              /\ UNCHANGED result
    /\ UNCHANGED <<chainH, nodeH, order, tried, pending, responses>>

\* The chain produces a block.
Tick ==
    /\ chainH < MaxHeight
    /\ chainH' = chainH + 1
    /\ UNCHANGED <<nodeH, order, k, tried, pending, inRound, responses, result>>

\* A node syncs one more block.
CatchUp(n) ==
    /\ nodeH[n] < chainH
    /\ nodeH' = [nodeH EXCEPT ![n] = @ + 1]
    /\ UNCHANGED <<chainH, order, k, tried, pending, inRound, responses, result>>

\* The read has returned and the chain has stopped within its bound.
Finished ==
    /\ result # None /\ chainH = MaxHeight /\ \A n \in Nodes : nodeH[n] = chainH
    /\ UNCHANGED vars

-----------------------------------------------------------------------------

Init ==
    /\ chainH = 1
    /\ nodeH = [n \in Nodes |-> 1]
    /\ order \in Orders
    /\ k = NumberReadNodes
    /\ tried = {}
    /\ pending = {}
    /\ inRound = FALSE
    /\ responses = {}
    /\ result = None

Next ==
    \/ SendRound
    \/ \E n \in Nodes : Reply(n) \/ NodeTimeout(n) \/ CatchUp(n)
    \/ Resolve
    \/ Tick
    \/ Finished

\* Every node contact ends, by an answer or by the per-node timeout, and
\* the client moves on; blocks and node syncing need not happen.
Fairness ==
    /\ WF_vars(SendRound)
    /\ WF_vars(Resolve)
    /\ \A n \in Nodes : WF_vars(Reply(n) \/ NodeTimeout(n))

Spec == Init /\ [][Next]_vars /\ Fairness

-----------------------------------------------------------------------------
(* Properties *)

=============================================================================
