------------------------ MODULE WorkspaceCursorsDocs ------------------------
(***************************************************************************)
(* What the documentation says of the combined cursor and some             *)
(* configurations do not give.                                             *)
(***************************************************************************)
EXTENDS MCWorkspaceCursors

\* internal/tools/unread_helpers.go:64: combinedCursor renders "the single
\* token parseAfterCursor round-trips". What the next pull reads from a
\* combined token is what the pull before wrote into it.
TokenRoundTrips ==
    [][AnswerAll => \A w \in Workspaces : CursorOf(w) # 0 => held'[w] = CursorOf(w)]_cursorVars
=============================================================================
