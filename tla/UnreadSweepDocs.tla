-------------------------- MODULE UnreadSweepDocs --------------------------
(***************************************************************************)
(* What the repository's documents and comments say of the unread sweep    *)
(* where the code does something else. Each property is one sentence of    *)
(* theirs, stated over the model of the code; TLC finds it violated.       *)
(***************************************************************************)
EXTENDS MCUnreadSweep

PullReturns == stage # "idle" /\ stage' = "idle"

\* docs/adr/132: "A sweep no longer loses its DM window to a deadline in
\* the unread pass". A pull whose unread pass the deadline cut returns the
\* window it has read: the code returns a note instead, without the window
\* (the unread pass reports the deadline as its error, which sweepUnread
\* passes on).
WindowSurvivesTheCut ==
    [][ PullReturns /\ "unread" \in cut /\ phase["dm-window"] = "done"
          => got["dm-window"] \subseteq shown' ]_vars

\* docs/adr/131: "a DM someone new opens is never hidden for longer than a
\* minute". A pull that ran on the cached listing moves the cursor over the
\* DM's message, and every later pull filters it out.
HiddenAtMostAMinute ==
    [][ PullReturns /\ phase["unread"] = "done" /\ cut = {} =>
          \A m \in log :
             /\ m.conv \in DirectMessages /\ m.kind = "top" /\ Owed(m)
             /\ start - m.ts >= JoinedTTL
             /\ m \notin missed /\ ~ Buried(m)
             => m \in shown' ]_vars

\* docs/adr/125: "A sweep cut by its deadline always says so and always
\* holds its cursor, whichever phase was cut". A read that a rate limit
\* would carry beyond the deadline is given up before the deadline passes,
\* so no phase is cut and the cursor moves.
DeadlineHoldsTheCursor == [][ PullReturns /\ starved # {} => after' = after ]_vars
=============================================================================
