------------------------- MODULE MCWorkspaceCursors -------------------------
(* Small instances of WorkspaceCursors for TLC. *)
EXTENDS WorkspaceCursors

CONSTANTS work, side, quiet, bots

Ordered == <<work, side, quiet, bots>>

Distinct == [w \in {work, side, quiet, bots} |-> w]
=============================================================================
