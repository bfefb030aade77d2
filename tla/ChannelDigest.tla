----------------------------- MODULE ChannelDigest -----------------------------
(***************************************************************************)
(* get_channel_digest (internal/tools/digest.go, history.go) and the       *)
(* layout of its answer (format.ChannelDigest): the window's newest page,  *)
(* a second page of older threads that moved inside the window, one read   *)
(* per thread. People keep posting meanwhile. One tick separates any two   *)
(* posts; bounds sent to Slack are whole seconds, and so is every timestamp *)
(* the code compares with its own bounds, which may fall inside a second.  *)
(***************************************************************************)
EXTENDS Naturals, FiniteSets, SlackPages

CONSTANTS
    DigestPage,     \* MaxMessagesPerChannel
    Lookback,       \* threadDiscoveryLookback
    MaxShow,        \* max_messages
    ReplyCap,       \* thread_preview_replies
    TickSecond,     \* ticks of a second
    DigestAsk,      \* arguments: [oldest, latest (0: none), replies]
    MaxPosts        \* bound: posts

ASSUME DigestAssumption ==
    /\ DigestPage \in Nat \ {0} /\ MaxShow \in Nat \ {0} /\ ReplyCap \in Nat \ {0}
    /\ Lookback \in Nat /\ TickSecond \in Nat \ {0} /\ MaxPosts \in Nat
    /\ DigestAsk \subseteq [oldest : Nat, latest : Nat, replies : BOOLEAN]

VARIABLES
    wall,       \* posts of the channel: [ts, root (0: top level), body]
    digestAt,   \* idle, asked, paged, reading, given, error
    ask,        \* the call's arguments
    askedAt,    \* history: the newest post when the call began
    inWindow,   \* the window's page: [ts, body, last]
    earlier,    \* older parents that moved in the window
    toRead,     \* threads still to be read
    fetchedReps,\* the replies read, trimmed to the window
    troubled    \* a read failed and was skipped

digestVars == <<wall, digestAt, ask, askedAt, inWindow, earlier, toRead, fetchedReps, troubled>>

Tops == {p \in wall : p.root = 0}
RepliesIn(t) == {p \in wall : p.root = t}
LatestReply(t) == IF RepliesIn(t) = {} THEN 0
                  ELSE CHOOSE x \in {p.ts : p \in RepliesIn(t)} : \A p \in RepliesIn(t) : p.ts <= x

DigestInit ==
    /\ wall = {} /\ digestAt = "idle" /\ ask \in DigestAsk /\ askedAt = 0
    /\ inWindow = {} /\ earlier = {} /\ toRead = {} /\ fetchedReps = {} /\ troubled = FALSE

PostOnWall(root, body) ==
    /\ Cardinality(wall) < MaxPosts /\ digestAt \notin {"given", "error"}
    /\ root = 0 \/ (body /\ \E p \in Tops : p.ts = root)
    /\ wall' = wall \cup {[ts |-> Cardinality(wall) + 1, root |-> root, body |-> body]}
    /\ UNCHANGED <<digestAt, ask, askedAt, inWindow, earlier, toRead, fetchedReps, troubled>>

(***************************************************************************)
(* The pages. A message on a page carries its thread's latest reply.       *)
(***************************************************************************)
OnPage(ps) == {[ts |-> p.ts, body |-> p.body, last |-> LatestReply(p.ts)] : p \in ps}

\* format.ParseTS drops the fraction of a second.
WholeSec(t) == (t \div TickSecond) * TickSecond

WithinTS(t, lo, hi) == WholeSec(t) >= lo /\ (hi = 0 \/ WholeSec(t) <= hi)
UpTo(hi) == {p \in Tops : hi = 0 \/ p.ts <= hi}

RecentPage == {m \in OnPage(NewestOf(UpTo(WholeSec(ask.latest)), DigestPage)) :
                 WithinTS(m.ts, ask.oldest, ask.latest)}

\* threadMovedInWindow of a thread parent.
Moved(m) == WholeSec(m.last) >= ask.oldest /\ m.last > 0

ParentsBefore ==
    {m \in OnPage(NewestOf({p \in Tops : p.ts <= WholeSec(ask.oldest)}, DigestPage)) :
        /\ m.ts \notin {x.ts : x \in inWindow}
        /\ WholeSec(m.ts) + Lookback >= ask.oldest /\ Moved(m)}

AskDigest ==
    /\ digestAt = "idle" /\ digestAt' = "asked" /\ askedAt' = Cardinality(wall)
    /\ UNCHANGED <<wall, ask, inWindow, earlier, toRead, fetchedReps, troubled>>

ReadWindow ==
    /\ digestAt = "asked"
    /\ \/ digestAt' = "paged" /\ inWindow' = RecentPage
       \/ digestAt' = "error" /\ UNCHANGED inWindow
    /\ UNCHANGED <<wall, ask, askedAt, earlier, toRead, fetchedReps, troubled>>

\* Older parents are looked for when replies were asked for or nothing else
\* is there to show; a failure costs them, not the digest.
FindParents ==
    /\ digestAt = "paged" /\ digestAt' = "reading"
    /\ IF ask.replies \/ inWindow = {}
       THEN \/ earlier' = ParentsBefore /\ troubled' = troubled
            \/ earlier' = {} /\ troubled' = TRUE
       ELSE earlier' = {} /\ troubled' = troubled
    /\ toRead' = IF ask.replies THEN {m.ts : m \in {x \in inWindow \cup earlier' : Moved(x)}} ELSE {}
    /\ UNCHANGED <<wall, ask, askedAt, inWindow, fetchedReps>>

ReadReplies(t) ==
    /\ digestAt = "reading" /\ t \in toRead
    /\ \/ /\ fetchedReps' = fetchedReps \cup {p \in RepliesIn(t) : WithinTS(p.ts, ask.oldest, ask.latest)}
          /\ troubled' = troubled
       \/ fetchedReps' = fetchedReps /\ troubled' = TRUE
    /\ toRead' = toRead \ {t}
    /\ UNCHANGED <<wall, digestAt, ask, askedAt, inWindow, earlier>>

GiveDigest ==
    /\ digestAt = "reading" /\ toRead = {} /\ digestAt' = "given"
    /\ UNCHANGED <<wall, ask, askedAt, inWindow, earlier, toRead, fetchedReps, troubled>>

DigestNext ==
    \/ \E root \in 0 .. MaxPosts, body \in BOOLEAN : PostOnWall(root, body)
    \/ AskDigest \/ ReadWindow \/ FindParents \/ GiveDigest
    \/ \E t \in toRead : ReadReplies(t)

DigestSpec == DigestInit /\ [][DigestNext]_digestVars

(***************************************************************************)
(* The answer. HasContent: a message without a body or replies is left out. *)
(***************************************************************************)
Lines == {m \in inWindow : m.body \/ m.last > 0}
LinesShown == NewestOf(Lines, MaxShow)
LinesHidden == Lines \ LinesShown
RepsOf(t) == {p \in fetchedReps : p.root = t}

MutantOrphansOnlyAlone == IF Lines = {} THEN {p.root : p \in fetchedReps} ELSE {}

\* orphanReplies: threads whose parent is not a line of the window.
Orphans == {p.root : p \in fetchedReps} \ {m.ts : m \in Lines}

ThreadsShown == Orphans \cup {m.ts : m \in LinesShown}
RepliesShown == UNION {OldestOf(RepsOf(t), ReplyCap) : t \in ThreadsShown}
MoreReplies == UNION {RepsOf(t) \ RepliesShown : t \in ThreadsShown}
MovedNote == IF inWindow = {} /\ ~ ask.replies THEN {m.ts : m \in {x \in earlier : Moved(x)}} ELSE {}

----------------------------------------------------------------------------
DigestTypeOK ==
    /\ wall \subseteq [ts : 1 .. MaxPosts, root : 0 .. MaxPosts, body : BOOLEAN]
    /\ digestAt \in {"idle", "asked", "paged", "reading", "given", "error"}
    /\ ask \in DigestAsk /\ askedAt \in 0 .. MaxPosts
    /\ inWindow \cup earlier \subseteq [ts : 1 .. MaxPosts, body : BOOLEAN, last : 0 .. MaxPosts]
    /\ toRead \subseteq 1 .. MaxPosts /\ fetchedReps \subseteq wall /\ troubled \in BOOLEAN

\* In the window; of these, the posts of the second its lower bound falls in,
\* when it falls inside one: read to the second, they lie before the window.
InWindow(t) == t >= ask.oldest /\ (ask.latest = 0 \/ t <= ask.latest)
InBoundSecond(t) == InWindow(t) /\ WholeSec(t) < ask.oldest

\* Still on the window's page, so on it whenever it was read; and on the page
\* below the window, which ends with the beginning of the bound's second.
OnWindowPage(t) ==
    /\ InWindow(t) /\ ~ InBoundSecond(t)
    /\ t \in {p.ts : p \in NewestOf(UpTo(WholeSec(ask.latest)), DigestPage)}

OnParentsPage(t) ==
    /\ WholeSec(t) + Lookback >= ask.oldest
    /\ t \in {p.ts : p \in NewestOf({x \in Tops : x.ts <= WholeSec(ask.oldest)}, DigestPage)}

InReach(t) == OnWindowPage(t) \/ OnParentsPage(t)

\* What was posted in the window before the call, later than its lower bound's
\* own second, and is in reach, reaches the reader: a message as a line or in the
\* count of hidden ones; a reply, when replies are asked for, with its thread or
\* in the thread's "+n more", unless its parent is a hidden line; and when
\* neither was asked for nor anything else is there, as a thread that moved.
\* What the code loses in the bound's second (tsWithin and threadMovedInWindow
\* compare whole seconds with a finer bound) is left out by name.
WindowIsCovered ==
    digestAt = "given" /\ ~ troubled =>
        \A p \in wall :
            p.ts <= askedAt /\ InWindow(p.ts) /\ ~ InBoundSecond(p.ts) =>
                /\ p.root = 0 /\ p.body /\ OnWindowPage(p.ts) =>
                     \E m \in LinesShown \cup LinesHidden : m.ts = p.ts
                /\ p.root # 0 /\ InReach(p.root) /\ ask.replies =>
                     \/ p \in RepliesShown \cup MoreReplies
                     \/ \E m \in LinesHidden : m.ts = p.root
                /\ p.root # 0 /\ InReach(p.root) /\ inWindow = {} /\ ~ ask.replies => MovedNote # {}
================================================================================
