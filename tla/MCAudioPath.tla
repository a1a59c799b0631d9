----------------------------- MODULE MCAudioPath -----------------------------
(* AudioPath with viewers that may be exchanged for each other.            *)
EXTENDS AudioPath, TLC

ViewerSymmetry == Permutations(Viewers)
=============================================================================
