--------------------------- MODULE MCUnreadSweep ---------------------------
(* Small instances of UnreadSweep for TLC. *)
EXTENDS UnreadSweep

CONSTANTS dm, chan

\* Prunes the search for a known scenario to pulls in which nothing fails,
\* no deadline passes and the operator opens no conversation.
NothingFails ==
    /\ ~ Deadline
    /\ \A c \in Conversations : ~ Open(c)
    /\ \A p \in Phases :
         /\ ~ Fail(p)
         /\ \A c \in Conversations, why \in {"error", "rate limit"} : ~ ReadFails(p, c, why)
=============================================================================
