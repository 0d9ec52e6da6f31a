---------------------------- MODULE MCNostrIngest ----------------------------
(* Instance of NostrIngest for TLC. *)
EXTENDS NostrIngest, TLC

WrapSymmetry == Permutations(Wraps)
=============================================================================
