----------------------------- MODULE CanvasDelta -----------------------------
(***************************************************************************)
(* The canvas section of get_unread_summary (internal/tools/               *)
(* canvas_delta.go, internal/slack/canvas_recent.go): the canvases edited  *)
(* since the cursor, over pulls that each pass the cursor the one before   *)
(* returned, while canvases are created and edited.                        *)
(*                                                                         *)
(* How the message sweep chooses that cursor is UnreadSweep; here it is    *)
(* any instant up to the start of the pull, or stays where it was. Whether *)
(* a listed canvas tags the operator is left out.                          *)
(***************************************************************************)
EXTENDS Naturals, FiniteSets

CONSTANTS
    Document,       \* the canvases, numbered in the order of their creation
    ListPage,       \* canvasListPageSize
    DeltaLimit,     \* canvasDeltaLimit
    SecondLength,   \* instants in one second: Slack stamps edits in seconds
    LastInstant     \* bound: the clock stops here

ASSUME DeltaAssumption ==
    /\ Document \subseteq Nat
    /\ ListPage \in Nat \ {0} /\ DeltaLimit \in Nat \ {0}
    /\ SecondLength \in Nat \ {0} /\ LastInstant \in Nat

VARIABLES
    instant,    \* one clock for Slack and the server
    editedAt,   \* Slack: when a canvas was edited last; 0 for one that is not there
    cursorD,    \* what the caller passes next; 0 for none
    pulling,    \* "no", "listing" or "writing"
    started,    \* when the pull started
    refs,       \* the canvases it lists
    owed,       \* history: edits no pull has listed, as <<canvas, instant>>
    cuts,       \* history: the seconds of the cursors pulls were called with
    partial     \* history: a list failed, or held more than it may

deltaVars == <<instant, editedAt, cursorD, pulling, started, refs, owed, cuts, partial>>

SecondOf(t) == t \div SecondLength
There == {d \in Document : editedAt[d] > 0}

DeltaInit ==
    /\ instant = SecondLength /\ editedAt = [d \in Document |-> 0]
    /\ cursorD = 0 /\ pulling = "no" /\ started = 0 /\ refs = {}
    /\ owed = {} /\ cuts = {} /\ partial = FALSE

EditDocument(d) ==
    /\ editedAt' = [editedAt EXCEPT ![d] = instant]
    /\ owed' = {e \in owed : e[1] # d} \cup {<<d, instant>>}

Elapses ==
    /\ instant < LastInstant /\ instant' = instant + 1
    /\ \/ \E d \in Document : EditDocument(d)
       \/ UNCHANGED <<editedAt, owed>>
    /\ UNCHANGED <<cursorD, pulling, started, refs, cuts, partial>>

\* canvasSince cuts the cursor to its second; without one, the window of canvas_hours
\* reaches back further than the model does.
StartPull ==
    /\ pulling = "no" /\ pulling' = "listing" /\ started' = instant
    /\ instant < LastInstant /\ instant' = instant + 1
    /\ cuts' = cuts \cup (IF cursorD = 0 THEN {} ELSE {SecondOf(cursorD)})
    /\ UNCHANGED <<editedAt, cursorD, refs, owed, partial>>

\* selectRecentCanvases over the page of the newest canvases: those edited after that
\* second, the latest edits first, cut at the limit. Edits of one second tie.
ListedPage == {d \in There : Cardinality({e \in There : e > d}) < ListPage}
EditedSince(d) == cursorD = 0 \/ SecondOf(editedAt[d]) > SecondOf(cursorD)
Latest(ds) ==
    {s \in SUBSET ds :
        /\ Cardinality(s) = (IF Cardinality(ds) <= DeltaLimit THEN Cardinality(ds) ELSE DeltaLimit)
        /\ \A d \in s, e \in ds \ s : SecondOf(editedAt[d]) >= SecondOf(editedAt[e])}

RecentCanvases ==
    /\ pulling = "listing" /\ pulling' = "writing"
    /\ refs' \in Latest({d \in ListedPage : EditedSince(d)})
    /\ owed' = {e \in owed : e[1] \notin refs'}
    /\ partial' = (partial \/ {d \in There : EditedSince(d)} # refs')
    /\ UNCHANGED <<instant, editedAt, cursorD, started, cuts>>

\* Any failure leaves the section out, and the pull goes on without it.
ListFails ==
    /\ pulling = "listing" /\ pulling' = "writing" /\ partial' = TRUE
    /\ UNCHANGED <<instant, editedAt, cursorD, started, refs, owed, cuts>>

\* The newest message, capped at the start of the pull; or the caller's cursor again.
MutantCapsAtTheEnd == {cursorD} \cup (cursorD .. instant)

NextCursor == {cursorD} \cup (cursorD .. started)

WriteSummary ==
    /\ pulling = "writing" /\ pulling' = "no"
    /\ cursorD' \in NextCursor
    /\ refs' = {} /\ started' = 0
    /\ UNCHANGED <<instant, editedAt, owed, cuts, partial>>

DeltaNext == Elapses \/ StartPull \/ RecentCanvases \/ ListFails \/ WriteSummary

DeltaSpec == DeltaInit /\ [][DeltaNext]_deltaVars
-----------------------------------------------------------------------------
DeltaTypeOK ==
    /\ instant \in Nat /\ editedAt \in [Document -> Nat] /\ cursorD \in Nat
    /\ pulling \in {"no", "listing", "writing"} /\ started \in Nat
    /\ refs \subseteq Document /\ owed \subseteq Document \X Nat
    /\ cuts \subseteq Nat /\ partial \in BOOLEAN

\* No edit is passed over: the cursor moves past an edit only after some pull has
\* listed that canvas, unless a list failed or was cut, or the edit was made in the
\* very second of a cursor.
EditsAreNotPassed ==
    partial \/ \A e \in owed : e[2] > cursorD \/ SecondOf(e[2]) \in cuts
=============================================================================
