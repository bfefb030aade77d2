------------------------------ MODULE MCWrites ------------------------------
(***************************************************************************)
(* Small instances of what the server writes and fetches into places that  *)
(* outlive a call: the corpus file, a channel, a canvas, the temp directory *)
(* and the cursor a caller keeps. They do not touch each other's state, so *)
(* each behaviour runs one of them, the part chosen at the start.          *)
(***************************************************************************)
EXTENDS ExportCorpus, PostMessage, CanvasEdit, CanvasDelta, FileTools,
    MCWorkspaceCursors, TLC

CONSTANTS k1, k2

VARIABLE part

\* ExportCorpus: what the operator does not do, and broadcasts.
Posts == {[shape |-> "top", mine |-> TRUE], [shape |-> "broadcast", mine |-> FALSE]}

\* CanvasEdit: an older canvas of two sections, a newer one of one.
Sections   == (k1 :> {1, 2}) @@ (k2 :> {3})
CreatedAt  == (k1 :> 1) @@ (k2 :> 2)
Shown(u)   == [i \in {"user"} |-> u]
ShownTo(b, u) == [i \in {"bot", "user"} |-> IF i = "bot" THEN b ELSE u]
WhatIsShown == {Shown({k1, k2}), ShownTo({}, {k1, k2}), ShownTo({k1, k2}, {})}

\* FileTools: all attachments bear one name.
SameName(a) == "n"

writesVars == <<part, exportVars, postVars, canvasVars, deltaVars, fileVars,
    cursorVars>>

Init ==
    /\ part \in {"export", "post", "canvas", "delta", "files", "cursors"}
    /\ ExportInit /\ PostInit /\ CanvasInit /\ DeltaInit /\ FileInit
    /\ CursorsInit
    /\ part = "post" \/ tokens = "user"
    /\ part = "canvas" \/ (tab = NoCanvas /\ shared = {} /\ views = Shown({k1, k2}))

Next ==
    \/ /\ part = "export" /\ ExportNext
       /\ UNCHANGED <<part, postVars, canvasVars, deltaVars, fileVars, cursorVars>>
    \/ /\ part = "post" /\ PostNext
       /\ UNCHANGED <<part, exportVars, canvasVars, deltaVars, fileVars, cursorVars>>
    \/ /\ part = "canvas" /\ CanvasNext
       /\ UNCHANGED <<part, exportVars, postVars, deltaVars, fileVars, cursorVars>>
    \/ /\ part = "delta" /\ DeltaNext
       /\ UNCHANGED <<part, exportVars, postVars, canvasVars, fileVars, cursorVars>>
    \/ /\ part = "files" /\ FileNext
       /\ UNCHANGED <<part, exportVars, postVars, canvasVars, deltaVars, cursorVars>>
    \/ /\ part = "cursors" /\ CursorsNext
       /\ UNCHANGED <<part, exportVars, postVars, canvasVars, deltaVars, fileVars>>

Spec == Init /\ [][Next]_writesVars

\* Every variable of the six parts stays in its type, whichever of them runs.
TypeOK ==
    /\ ExportTypeOK /\ PostTypeOK /\ CanvasTypeOK /\ DeltaTypeOK /\ FileTypeOK
    /\ CursorsTypeOK
=============================================================================
