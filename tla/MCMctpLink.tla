----------------------------- MODULE MCMctpLink -----------------------------
(* MctpLink for TLC: messages of one, two and five packets, so that the      *)
(* sequence number wraps around; one of them fills the buffer exactly.       *)
EXTENDS MctpLink

MCLens == {2, 3, 9}
MCTags == {0, 1}
=============================================================================
