--------------------------- MODULE MC_PairwiseApi ---------------------------
(* Three concurrent invocations on one wallet: one their_did, two my_dids  *)
(* so that racing creates are told apart, one metadata value besides none. *)
EXTENDS PairwiseApi
=============================================================================
