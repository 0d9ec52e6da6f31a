--------------------------- MODULE DeliveryStatus ---------------------------
(***************************************************************************)
(* What the transcript promises about an outbound text, with no router, no *)
(* transport and no acknowledgement in sight: each message shows a status, *)
(* and a status that claims something about the world is shown only when   *)
(* the world is so.  MessageInbox implements this specification.           *)
(***************************************************************************)
CONSTANTS Messages

VARIABLES
    shown,    \* the status each message shows
    relayed,  \* messages some relay has taken
    held      \* messages the peer has stored

statusVars == <<shown, relayed, held>>

Statuses == {"none", "pending", "cast", "failed", "delivered"}

StatusInit ==
    /\ shown = [m \in Messages |-> "none"]
    /\ relayed = {} /\ held = {}

Write(m) ==
    /\ shown[m] = "none"
    /\ shown' = [shown EXCEPT ![m] = "pending"]
    /\ UNCHANGED <<relayed, held>>

\* What the peer or a relay does shows only later, if ever.
Spread(m) ==
    /\ shown[m] # "none"
    /\ relayed' \in {relayed, relayed \cup {m}}
    /\ held' \in {held, held \cup {m}}
    /\ UNCHANGED shown

\* A report may come late, may be a failure although the peer holds the
\* message, and concerns one message; it never claims what is not so.
Report(m, status) ==
    /\ shown[m] # "none"
    /\ status # "none"
    /\ status = "cast" => m \in relayed
    /\ status = "delivered" => m \in held
    /\ shown' = [shown EXCEPT ![m] = status]
    /\ UNCHANGED <<relayed, held>>

\* A restart gives up exactly what was pending and keeps every other status.
Restart ==
    /\ shown' = [m \in Messages |->
                   IF shown[m] = "pending" THEN "failed" ELSE shown[m]]
    /\ UNCHANGED <<relayed, held>>

StatusNext ==
    \/ \E m \in Messages : Write(m) \/ Spread(m)
    \/ \E m \in Messages, status \in Statuses : Report(m, status)
    \/ Restart

StatusSpec == StatusInit /\ [][StatusNext]_statusVars
=============================================================================
