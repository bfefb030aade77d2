----------------------------- MODULE CanvasEdit -----------------------------
(***************************************************************************)
(* edit_canvas and read_canvas (internal/tools/canvas_edit.go, canvas.go):  *)
(* which canvas of a channel a call is about, found through two identities *)
(* that see different things and may fail, then the section the edit is    *)
(* for, then the edit, while others edit the same canvases.                *)
(***************************************************************************)
EXTENDS Naturals, FiniteSets

CONSTANTS
    Canvas,
    NoCanvas,       \* the channel has no canvas tab
    SectionsOf,     \* the sections a canvas may ever have
    Words,          \* the texts people write and search for
    Created,        \* when a canvas was created
    Views,          \* what the identities may be shown: [identity -> canvases]
    FilesPage       \* canvases one files.list returns

ASSUME CanvasAssumption ==
    /\ IsFiniteSet(Canvas) /\ NoCanvas \notin Canvas /\ FilesPage \in Nat \ {0}
    /\ Created \in [Canvas -> Nat] /\ \A k, l \in Canvas : Created[k] = Created[l] => k = l
    /\ DOMAIN SectionsOf = Canvas /\ \A k \in Canvas : IsFiniteSet(SectionsOf[k])
    /\ Words \cap {"any", "unborn", "gone"} = {}
    /\ \A k, l \in Canvas : k # l => SectionsOf[k] \cap SectionsOf[l] = {}
    /\ Views \subseteq [{"user"} -> SUBSET Canvas] \cup [{"bot", "user"} -> SUBSET Canvas]

VARIABLES
    body,       \* Slack: what every section holds
    tab,        \* Slack: the canvas attached to the channel
    shared,     \* Slack: the canvases shared into it as files
    views,      \* per identity, the canvases it is shown
    canvasStep, \* "idle", "tab", "files", "info", "lookup", "edit"
    order,      \* the call
    unasked,        \* identities that have not answered the current question
    refused,    \* one of them failed
    candidates, \* what the canvas is picked from
    target,     \* the canvas picked
    section,    \* the section found
    alike       \* history: the sections that held the text when it was looked up

canvasWorld      == <<body, tab, shared, views>>
picking    == <<unasked, refused, candidates, target>>
canvasVars == <<canvasWorld, canvasStep, order, picking, section, alike>>

Section == UNION {SectionsOf[k] : k \in Canvas}

\* A section not written yet, one that was deleted, and what the tool writes.
Content == Words \cup {"unborn", "gone", "mine"}
Written(t) == t \notin {"unborn", "gone"}

Operations == {"read", "insert_at_end", "insert_after", "replace", "delete", "rename"}
Order == [via : {"id", "channel", "match"}, op : Operations, contains : Words \cup {"any"}]
NoOrder == [via |-> "id", op |-> "read", contains |-> "any"]

\* validate: an operation on a section names its text; a replace that names none must
\* say that it is for the whole canvas.
Valid(o) ==
    /\ o.op \in {"insert_after", "delete"} => o.contains # "any"
    /\ o.op \in {"insert_at_end", "rename", "read"} => o.contains = "any"
ReplacesAll(o) == o.op = "replace" /\ o.contains = "any"

Identities == DOMAIN views
PrimaryFirst == IF "bot" \in Identities THEN "bot" ELSE "user"
NextAsked(first) == IF first \in unasked THEN first ELSE CHOOSE i \in unasked : TRUE

Newest(ks) == CHOOSE k \in ks : \A l \in ks : Created[l] <= Created[k]
PageOf(ks) == {k \in ks : Cardinality({l \in ks : Created[l] > Created[k]}) < FilesPage}

CanvasInit ==
    /\ body = [s \in Section |-> "unborn"]
    /\ tab \in Canvas \cup {NoCanvas} /\ shared \in SUBSET Canvas /\ views \in Views
    /\ canvasStep = "idle"
    /\ order = NoOrder /\ unasked = {} /\ refused = FALSE /\ candidates = {} /\ target = NoCanvas
    /\ section = {} /\ alike = {}

\* Others write, rewrite and delete sections.
OthersEdit ==
    /\ \E s \in Section, t \in Words \cup {"gone"} :
         /\ Written(body[s]) \/ (body[s] = "unborn" /\ t # "gone")
         /\ body' = [body EXCEPT ![s] = t]
    /\ UNCHANGED <<tab, shared, views, canvasStep, order, picking, section, alike>>

(***************************************************************************)
(* One call.                                                               *)
(***************************************************************************)
\* The call returns, and leaves nothing behind.
Give == /\ canvasStep' = "idle" /\ order' = NoOrder
        /\ unasked' = {} /\ refused' = FALSE /\ candidates' = {} /\ target' = NoCanvas
        /\ section' = {} /\ alike' = {}

CallCanvas(o) ==
    /\ canvasStep = "idle" /\ Valid(o)
    /\ order' = o
    /\ canvasStep' = CASE o.via = "id" -> "info" [] o.via = "channel" -> "tab" [] o.via = "match" -> "files"
    /\ unasked' = Identities
    /\ target' \in IF o.via = "id" THEN Canvas ELSE {NoCanvas}
    /\ UNCHANGED <<canvasWorld, refused, candidates, section, alike>>

\* ChannelCanvas: each identity is asked for the tab, the primary first.
TabFound ==
    IF order.via = "match"
      THEN candidates' = candidates \cup {tab} /\ unasked' = {} /\ UNCHANGED <<canvasStep, target>>
      ELSE target' = tab /\ canvasStep' = "info" /\ UNCHANGED <<candidates, unasked>>

FindTab ==
    /\ canvasStep = "tab" /\ unasked # {}
    /\ LET i == NextAsked(PrimaryFirst) IN
          \/ tab \in views[i] /\ TabFound /\ UNCHANGED refused
          \/ /\ \/ tab \notin views[i] /\ UNCHANGED refused
                \/ refused' = TRUE
             /\ unasked' = unasked \ {i} /\ UNCHANGED <<canvasStep, candidates, target>>
    /\ UNCHANGED <<canvasWorld, order, section, alike>>

\* An identity that failed might have seen the tab.
MutantLastAnswerCounts == FALSE

TabUnknown == refused

NoTabFound ==
    /\ canvasStep = "tab" /\ unasked = {} /\ order.via = "channel"
    /\ \/ TabUnknown /\ Give
       \/ /\ ~ TabUnknown
          /\ canvasStep' = "files" /\ unasked' = Identities /\ refused' = FALSE
          /\ UNCHANGED <<order, candidates, target, section, alike>>
    /\ UNCHANGED canvasWorld

\* CanvasFiles: the user first, and the first who is shown any.
ListFiles ==
    /\ canvasStep = "files" /\ unasked # {}
    /\ LET i    == NextAsked("user")
           page == PageOf(shared \cap views[i]) IN
          \/ page # {} /\ candidates' = page /\ unasked' = {} /\ refused' = FALSE
          \/ page = {} /\ unasked' = unasked \ {i} /\ UNCHANGED <<candidates, refused>>
          \/ refused' = TRUE /\ unasked' = unasked \ {i} /\ UNCHANGED candidates
    /\ UNCHANGED <<canvasWorld, canvasStep, order, target, section, alike>>

\* Without a selector an edit takes the only canvas, a read the newest. With one,
\* the tab joins the candidates before one is picked.
FilesListed ==
    /\ canvasStep = "files" /\ unasked = {} /\ UNCHANGED canvasWorld
    /\ \/ /\ ~ refused /\ order.via = "match"
          /\ canvasStep' = "tab" /\ unasked' = Identities
          /\ UNCHANGED <<order, refused, candidates, target, section, alike>>
       \/ /\ order.via = "channel" /\ candidates # {}
          /\ order.op = "read" \/ Cardinality(candidates) = 1
          /\ canvasStep' = "lookup" /\ target' = Newest(candidates)
          /\ UNCHANGED <<order, unasked, refused, candidates, section, alike>>
       \/ /\ refused \/ (order.via = "channel"
                           /\ (candidates = {} \/ (order.op # "read" /\ Cardinality(candidates) > 1)))
          /\ Give

\* The newest candidate whose title matches, which any of them may be. The tab could be
\* missing from the candidates: a failure to find it is ignored.
Select ==
    /\ canvasStep = "tab" /\ unasked = {} /\ order.via = "match" /\ UNCHANGED canvasWorld
    /\ \/ Give
       \/ /\ canvasStep' = "lookup" /\ target' \in candidates
          /\ UNCHANGED <<order, unasked, refused, candidates, section, alike>>

\* files.info of the canvas. It and every step after it may fail, or end a dry run.
FileInfo ==
    /\ canvasStep = "info" /\ canvasStep' = "lookup"
    /\ UNCHANGED <<canvasWorld, order, picking, section, alike>>

Fail == canvasStep \in {"info", "lookup", "edit"} /\ Give /\ UNCHANGED canvasWorld

Download == canvasStep = "lookup" /\ order.op = "read" /\ Give /\ UNCHANGED canvasWorld

\* canvases.sections.lookup: exactly one section, or nothing changes.
MutantFirstOfSeveral(found) == found # {}

Unique(found) == Cardinality(found) = 1

Lookup ==
    /\ canvasStep = "lookup" /\ order.op # "read" /\ UNCHANGED canvasWorld
    /\ LET found == {s \in SectionsOf[target] : body[s] = order.contains} IN
          \/ /\ order.contains = "any" \/ Unique(found)
             /\ section' \in {f \in SUBSET found : Cardinality(f) = (IF found = {} THEN 0 ELSE 1)}
             /\ alike' = found /\ canvasStep' = "edit" /\ UNCHANGED <<order, picking>>
          \/ order.contains # "any" /\ ~ Unique(found) /\ Give

\* What an edit removes and adds: Slack knows the section by its id, whatever it holds
\* by now, and new content is a section that was not there.
Removed ==
    IF ReplacesAll(order) THEN {s \in SectionsOf[target] : Written(body[s])}
    ELSE IF order.op \in {"delete", "replace"} THEN section ELSE {}
Added == IF order.op \in {"delete", "rename"} THEN {{}}
         ELSE {{s} : s \in {x \in SectionsOf[target] : body[x] = "unborn"}}

EditCanvas ==
    /\ canvasStep = "edit" /\ \A s \in section : Written(body[s])
    /\ \E new \in Added :
         body' = [s \in Section |-> IF s \in new THEN "mine"
                                   ELSE IF s \in Removed THEN "gone" ELSE body[s]]
    /\ Give /\ UNCHANGED <<tab, shared, views>>

CanvasNext ==
    \/ OthersEdit
    \/ \E o \in Order : CallCanvas(o)
    \/ FindTab \/ NoTabFound \/ ListFiles \/ FilesListed \/ Select
    \/ FileInfo \/ Fail \/ Download \/ Lookup \/ EditCanvas

CanvasSpec == CanvasInit /\ [][CanvasNext]_canvasVars
----------------------------------------------------------------------------
CanvasTypeOK ==
    /\ body \in [Section -> Content] /\ alike \subseteq Section
    /\ tab \in Canvas \cup {NoCanvas} /\ shared \subseteq Canvas /\ views \in Views
    /\ canvasStep \in {"idle", "tab", "files", "info", "lookup", "edit"}
    /\ order \in Order /\ unasked \subseteq Identities /\ refused \in BOOLEAN
    /\ candidates \subseteq Canvas /\ target \in Canvas \cup {NoCanvas}
    /\ section \subseteq Section

\* "Through a channel it never guesses": a call that names only the channel works on
\* the tab when any identity sees it, whatever the other one answers or fails to.
TheTabIsTheTarget ==
    (canvasStep \in {"lookup", "edit"} /\ order.via = "channel"
        /\ \E i \in Identities : tab \in views[i]) => target = tab

\* An edit removes a section only when its text was asked for and, when it was
\* looked up, no other section of that canvas held it, whatever is edited
\* meanwhile; only replace_all removes more.
OnlyTheSectionAskedFor ==
    [][(canvasStep = "edit" /\ canvasStep' = "idle") =>
         \A s \in Section : (Written(body[s]) /\ body'[s] # body[s]) =>
             /\ s \in SectionsOf[target]
             /\ \/ ReplacesAll(order)
                \/ alike = {s}
      ]_canvasVars
=============================================================================
