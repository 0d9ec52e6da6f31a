--------------------------- MODULE MCMessageInbox ---------------------------
(* Small instances of MessageInbox for TLC. *)
EXTENDS MessageInbox, TLC

\* Timer tasks, call slots, wire ids and rows are interchangeable.
InboxSymmetry == Permutations(TaskIds) \cup Permutations(Calls)
                 \cup Permutations(MsgIds) \cup Permutations(Rows)

\* `out` is an output port; seen, emitted and the inbound side are not read by
\* the outbound path.
InboxView == <<outbox, timeouts, task, calls, handoffs, inboxVars>>
=============================================================================
