---------------------------- MODULE MCReviewLoop ----------------------------
(* Small instances of ReviewLoop for TLC; the cfg files give the constants. *)
EXTENDS ReviewLoop
=============================================================================
