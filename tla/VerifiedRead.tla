---------------------------- MODULE VerifiedRead ----------------------------
(***************************************************************************)
(* What a pool read promises its caller (spec 4.3, 4.4, 7): the query ends *)
(* and returns either a value the chain really committed, at a height the  *)
(* chain has reached, or a typed failure.  It never returns a value no     *)
(* proof backs.  The chain keeps producing blocks meanwhile.               *)
(***************************************************************************)
EXTENDS Naturals

CONSTANTS
    MaxHeight,  \* bound on the chain's height
    None        \* no result yet

\* The value the chain committed at height h (e.g. an account's sequence);
\* different heights commit different values.
Val(h) == h

\* The typed failures, as records so that they compare with answers.
Fail(e) == [error |-> e]
Failures == {Fail("QueryUnreachable"), Fail("ProofInvalid")}

VARIABLES
    height,  \* the chain's height
    answer   \* what the read has returned, None until it decides

\* Results the read may return while the chain is at height `height'.
Answers == {[value |-> Val(h), height |-> h] : h \in 1..height}

Init ==
    /\ height = 1
    /\ answer = None

Tick ==
    /\ height < MaxHeight
    /\ height' = height + 1
    /\ UNCHANGED answer

Decide ==
    /\ answer = None
    /\ answer' \in Answers \cup Failures
    /\ UNCHANGED height

Spec == Init /\ [][Tick \/ Decide]_<<height, answer>> /\ WF_<<height, answer>>(Decide)

=============================================================================
