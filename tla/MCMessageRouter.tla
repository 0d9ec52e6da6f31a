--------------------------- MODULE MCMessageRouter ---------------------------
(* Small instances of MessageRouter for TLC. *)
EXTENDS MessageRouter, TLC

\* Timer tasks, call slots and messages are interchangeable.
RouterSymmetry == Permutations(TaskIds) \cup Permutations(Calls)
                  \cup Permutations(MsgIds)
=============================================================================
