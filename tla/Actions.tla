------------------------------- MODULE Actions -------------------------------
(***************************************************************************)
(* get_my_actions (internal/tools/actions.go, internal/actions): what the  *)
(* operator promised, was asked for and still waits for, found by two      *)
(* searches, judged by what followed each commitment. Conversations are    *)
(* judged apart from each other, so one is modelled: a one-to-one DM, a    *)
(* group DM or a thread of a channel. People keep writing while the call   *)
(* runs. A text is the set of things its phrases say.                      *)
(***************************************************************************)
EXTENDS Naturals, FiniteSets, SlackPages

CONSTANTS
    ActionRoom,     \* conversations: "dm", "group", "thread"
    TurnKind,       \* what may be written: [by, says, to, and the days it
                    \* names from its own on, strong ones and weak ones]
    DueView,        \* today, week, all: the argument due
    ActionLimit,    \* limit
    ActionPage,     \* searchPageMax
    SearchPages,    \* searchPages: pages a query reads
    FollowPage,     \* 200 of a DM's history; the page bound of a thread
    StaleAfter,     \* stale_hours, in ticks
    DayLength,      \* ticks of a day
    MaxTurns        \* bound: messages

ASSUME ActionsAssumption ==
    /\ ActionLimit \in Nat /\ ActionPage \in Nat \ {0} /\ SearchPages \in Nat \ {0} /\ FollowPage \in Nat \ {0}
    /\ \A k \in TurnKind : k.strong \cup k.weak \subseteq Nat
    /\ StaleAfter \in Nat \ {0} /\ DayLength \in Nat \ {0} /\ MaxTurns \in Nat

VARIABLES
    place,      \* the conversation
    turns,      \* its messages: a kind and a ts, from 1 on
    marked,     \* ts of the messages with a done reaction
    actionAt,   \* idle, searching, read, listed, failed
    view,       \* the argument due of the call
    cutShort,   \* the sweep's deadline has passed
    ownPages,   \* pages of from:me read
    ownFound,   \* copies the pages of from:me held: [note, copy]
    toMe,       \* hits of the mention searches
    toMeRead,   \* they have answered
    commitments,\* the items: [note, copy, status, at, checked]
    startedAt   \* history: the newest message when the call began

turnVars == <<place, turns, marked>>
callVars == <<actionAt, view, cutShort, ownPages, ownFound, toMe, toMeRead, commitments, startedAt>>
actionVars == <<turnVars, callVars>>

ActionsInit ==
    /\ place \in ActionRoom /\ turns = {} /\ marked = {}
    /\ actionAt = "idle" /\ view = "today" /\ cutShort = FALSE
    /\ ownPages = 0 /\ ownFound = {} /\ toMe = {} /\ toMeRead = FALSE
    /\ commitments = {} /\ startedAt = 0

TurnNow == Cardinality(turns)
Says(n) == n.kind.says

WriteTurn(k) ==
    /\ TurnNow < MaxTurns /\ actionAt \notin {"listed", "failed"}
    /\ turns' = turns \cup {[ts |-> TurnNow + 1, kind |-> k]}
    /\ UNCHANGED <<place, marked, callVars>>

React(n) ==
    /\ actionAt \notin {"listed", "failed"}
    /\ marked' = marked \cup {n.ts}
    /\ UNCHANGED <<place, turns, callVars>>

(***************************************************************************)
(* What a message commits to.                                              *)
(***************************************************************************)
IsOwnTurn(n) == n.kind.by = "me"

\* Due: the earliest strong deadline, a weak one only when there is none.
DaysNamed(n) == IF n.kind.strong # {} THEN n.kind.strong ELSE n.kind.weak
Dated(n) == DaysNamed(n) # {}
DueDay(n) == n.ts \div DayLength + (CHOOSE d \in DaysNamed(n) : \A e \in DaysNamed(n) : d <= e)

AddressedTo(n) ==
    IF IsOwnTurn(n) THEN place = "dm" \/ n.kind.to \ {"me"} # {}
    ELSE place = "group" => "me" \in n.kind.to

CommitmentKind(n) ==
    IF IsOwnTurn(n) THEN
        IF AddressedTo(n) /\ "request" \in Says(n) THEN "waiting"
        ELSE IF "promise" \in Says(n) THEN "promise"
        ELSE "none"
    ELSE IF ~ AddressedTo(n) THEN "none"
    ELSE IF "request" \in Says(n) \/ n.kind.strong # {} THEN "ask"
    ELSE IF "question" \in Says(n) THEN "question"
    ELSE "none"

DirectTo(n) == IF place = "thread" THEN n.kind.to \subseteq {"me"} ELSE place = "dm"

\* A reply to an ask looks like one to a question.
FamilyOf(k) == IF k = "question" THEN "ask" ELSE k

(***************************************************************************)
(* The searches, side by side. Pages are counted from the newest message   *)
(* at the moment each is read, so one message may be on two of them.       *)
(***************************************************************************)
CallActions(v) ==
    /\ actionAt = "idle"
    /\ actionAt' = "searching" /\ view' = v /\ startedAt' = TurnNow
    /\ UNCHANGED <<turnVars, cutShort, ownPages, ownFound, toMe, toMeRead, commitments>>

SearchOwn ==
    /\ actionAt = "searching" /\ ownPages < SearchPages /\ ~ cutShort
    /\ LET mine == {n \in turns : IsOwnTurn(n)}
           page == NewestOf(mine, (ownPages + 1) * ActionPage) \ NewestOf(mine, ownPages * ActionPage)
       IN  /\ ownFound' = ownFound \cup {[note |-> n, copy |-> ownPages + 1] : n \in page}
           /\ ownPages' = IF Cardinality(page) < ActionPage THEN SearchPages ELSE ownPages + 1
    /\ UNCHANGED <<turnVars, actionAt, view, cutShort, toMe, toMeRead, commitments, startedAt>>

SearchToMe ==
    /\ actionAt = "searching" /\ ~ toMeRead /\ ~ cutShort
    /\ toMe' = NewestOf({n \in turns : ~ IsOwnTurn(n) /\ (place = "thread" => "me" \in n.kind.to)},
                        SearchPages * ActionPage)
    /\ toMeRead' = TRUE
    /\ UNCHANGED <<turnVars, actionAt, view, cutShort, ownPages, ownFound, commitments, startedAt>>

\* A search fails for another reason than the sweep's deadline.
SearchBreaks ==
    /\ actionAt = "searching" /\ ~ cutShort
    /\ actionAt' = "failed"
    /\ UNCHANGED <<turnVars, view, cutShort, ownPages, ownFound, toMe, toMeRead, commitments, startedAt>>

OutOfTime ==
    /\ actionAt \in {"searching", "read"} /\ ~ cutShort
    /\ cutShort' = TRUE
    /\ UNCHANGED <<turnVars, actionAt, view, ownPages, ownFound, toMe, toMeRead, commitments, startedAt>>


\* The newest ActionLimit items of what the searches found.
IsBefore(x, y) == x.note.ts < y.note.ts \/ (x.note.ts = y.note.ts /\ x.copy < y.copy)

FoundItems ==
    LET hits == ownFound \cup {[note |-> n, copy |-> 1] : n \in toMe}
        items == {h \in hits : CommitmentKind(h.note) # "none"}
    IN  {h \in items : Cardinality({x \in items : IsBefore(h, x)}) < ActionLimit}

Searched ==
    /\ actionAt = "searching" /\ (cutShort \/ (ownPages = SearchPages /\ toMeRead))
    /\ actionAt' = "read"
    /\ commitments' = {[note |-> h.note, copy |-> h.copy, status |-> "open", at |-> 0,
                        checked |-> FALSE] : h \in FoundItems}
    /\ UNCHANGED <<turnVars, view, cutShort, ownPages, ownFound, toMe, toMeRead, startedAt>>

(***************************************************************************)
(* What followed: one read of the thread, or of the DM from its oldest     *)
(* commitment on; both begin with the oldest messages.                     *)
(***************************************************************************)
FollowUps ==
    IF place = "thread" THEN OldestOf(turns, FollowPage)
    ELSE OldestOf({m \in turns : \E c \in commitments : c.note.ts <= m.ts}, FollowPage)

\* nextTurnCutoffs: replies after the next item of the same side and family
\* belong to that one.
MutantAnybodysTurn(c) == {d \in commitments : IsBefore(c, d)}

NextTurns(c) ==
    {d \in commitments :
        /\ IsBefore(c, d) /\ d.note.kind.by = c.note.kind.by
        /\ FamilyOf(CommitmentKind(d.note)) = FamilyOf(CommitmentKind(c.note))}

InTurn(c, msgs) ==
    {m \in msgs : m.ts > c.note.ts /\ \A d \in NextTurns(c) : m.ts < d.note.ts}

Responsible(c, m) == IF CommitmentKind(c.note) = "waiting" THEN ~ IsOwnTurn(m) ELSE IsOwnTurn(m)

FirstOf(msgs) == CHOOSE m \in msgs : \A x \in msgs : m.ts <= x.ts
LastOf(msgs) == CHOOSE m \in msgs : \A x \in msgs : m.ts >= x.ts

\* Resolve, and AnsweredByOther for what was put to several people.
Resolve(c, msgs) ==
    LET replies == {m \in InTurn(c, msgs) : Responsible(c, m)}
        finish == {m \in replies : Says(m) \cap {"done", "file"} # {}}
        kind == CommitmentKind(c.note)
        others == {m \in InTurn(c, msgs) : m.kind.by \notin {"me", c.note.kind.by}}
    IN  IF c.note \in msgs /\ c.note.ts \in marked THEN [status |-> "closed", at |-> 0]
        ELSE IF kind = "question" /\ replies # {} /\ FirstOf(replies) \notin finish
             THEN [status |-> "answered", at |-> FirstOf(replies).ts]
        ELSE IF finish # {} THEN [status |-> "closed", at |-> FirstOf(finish).ts]
        ELSE IF replies # {} THEN [status |-> "acked", at |-> LastOf(replies).ts]
        ELSE IF ~ DirectTo(c.note) /\ kind \in {"ask", "question"} /\ others # {}
             THEN [status |-> "answered", at |-> FirstOf(others).ts]
        ELSE [status |-> "open", at |-> 0]

ListActions(read) ==
    /\ actionAt = "read" /\ (read => ~ cutShort)
    /\ actionAt' = "listed"
    /\ commitments' = IF ~ read THEN commitments
         ELSE {LET o == Resolve(c, FollowUps)
               IN  [c EXCEPT !.status = o.status, !.at = o.at, !.checked = TRUE] : c \in commitments}
    /\ UNCHANGED <<turnVars, view, cutShort, ownPages, ownFound, toMe, toMeRead, startedAt>>

ActionsNext ==
    \/ \E k \in TurnKind : WriteTurn(k)
    \/ \E n \in turns : React(n)
    \/ \E v \in DueView : CallActions(v)
    \/ SearchOwn \/ SearchToMe \/ SearchBreaks \/ OutOfTime \/ Searched
    \/ \E read \in BOOLEAN : ListActions(read)

ActionsSpec == ActionsInit /\ [][ActionsNext]_actionVars

(***************************************************************************)
(* The listing. A promise that is the reply to an item is folded into it.  *)
(***************************************************************************)
Folded ==
    {c \in commitments :
        /\ CommitmentKind(c.note) = "promise"
        /\ \E a \in commitments : CommitmentKind(a.note) \in {"ask", "question"} /\ a.at = c.note.ts}

IsClosed(c) == c.status \in {"answered", "closed"}
ListedItems == {c \in commitments \ Folded : ~ IsClosed(c)}

Horizon == startedAt \div DayLength + (IF view = "week" THEN 7 ELSE 0)
Overtaken(c) == c.status = "acked" /\ DueDay(c.note) + 2 < startedAt \div DayLength
Stale(c) == c.status = "open" /\ startedAt >= c.note.ts + StaleAfter

\* bucketFor: what a view lists now, and what it only counts (due=all lists it).
DueNow(c) ==
    IF Dated(c.note) THEN ~ Overtaken(c) /\ DueDay(c.note) <= Horizon
    ELSE Stale(c) /\ ( \/ CommitmentKind(c.note) = "waiting"
                       \/ CommitmentKind(c.note) # "promise" /\ DirectTo(c.note))

----------------------------------------------------------------------------
ActionsTypeOK ==
    /\ place \in ActionRoom /\ turns \subseteq [ts : 1 .. MaxTurns, kind : TurnKind]
    /\ marked \subseteq 1 .. MaxTurns
    /\ actionAt \in {"idle", "searching", "read", "listed", "failed"}
    /\ view \in DueView \cup {"today"} /\ cutShort \in BOOLEAN
    /\ ownPages \in 0 .. SearchPages /\ ownFound \subseteq [note : turns, copy : 1 .. SearchPages]
    /\ toMe \subseteq turns /\ toMeRead \in BOOLEAN /\ startedAt \in 0 .. MaxTurns
    /\ commitments \subseteq [note : turns, copy : 1 .. SearchPages, checked : BOOLEAN, at : 0 .. MaxTurns,
                              status : {"open", "acked", "answered", "closed"}]

\* The ping list: an ask or a question listed for today as unanswered was not
\* replied to by the operator before the same person asked again, whatever
\* was written while the searches and the reads ran, as long as the
\* conversation fits one read.
PingsAreUnanswered ==
    actionAt = "listed" /\ Cardinality(turns) <= FollowPage =>
        \A c \in {x \in ListedItems : DueNow(x)} :
            CommitmentKind(c.note) \in {"ask", "question"} /\ c.checked /\ c.status = "open" =>
                ~ \E m \in turns :
                    /\ IsOwnTurn(m) /\ c.note.ts < m.ts
                    /\ \A n \in turns :
                         n.kind.by = c.note.kind.by /\ c.note.ts < n.ts /\ n.ts <= m.ts =>
                             FamilyOf(CommitmentKind(n)) # "ask"

\* "due=all lists every open item", and an own promise is only folded "into
\* the ask, which carries the deadline" (ADR 133).
EveryOpenItemListed ==
    actionAt = "listed" /\ view = "all" =>
        \A c \in commitments :
            ~ IsClosed(c) => \/ c \in ListedItems
                             \/ \E a \in ListedItems : a.at = c.note.ts
=============================================================================
