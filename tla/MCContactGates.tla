--------------------------- MODULE MCContactGates ---------------------------
(* Instances of ContactGates for TLC.                                        *)
EXTENDS ContactGates, TLC

\* Peers, invites and operation slots are interchangeable.
GatesSymmetry ==
    Permutations(Peers) \cup Permutations(Invites) \cup Permutations(Calls)
=============================================================================
