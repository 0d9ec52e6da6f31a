--------------------------- MODULE MCNostrPublish ----------------------------
(* Instance of NostrPublish for TLC. *)
EXTENDS NostrPublish, TLC

PublishSymmetry == Permutations(Relays) \cup Permutations(Events)
=============================================================================
