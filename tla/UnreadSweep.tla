---------------------------- MODULE UnreadSweep ----------------------------
(***************************************************************************)
(* The delta loop of get_unread_summary over one workspace: a caller pulls *)
(* again and again, each time passing back the cursor of the pull before.  *)
(* A pull runs its fetch phases side by side (tools/unread.go,             *)
(* sweepUnread), each phase reads conversations one at a time while        *)
(* messages keep arriving, the deadline may cut any of them, and what was  *)
(* read is merged, filtered by the cursor and turned into the next cursor. *)
(*                                                                         *)
(* Messages are records: the conversation, the Slack timestamp and a kind. *)
(* "top" and "mine" are top-level messages of others and of the operator.  *)
(* "mention", "reply" and "answer" sit in one long-running thread of the   *)
(* conversation whose parent lies behind both last_read and the 12-hour    *)
(* lookback, so that only the search backstops can reach them: a reply     *)
(* that tags the operator, one that does not, and the operator's own.      *)
(***************************************************************************)
EXTENDS Integers, FiniteSets, Timestamps

CONSTANTS
    Conversations,          \* every conversation there may ever be
    DirectMessages,         \* those that are DMs or group DMs
    PriorityConversations,  \* the configured priority channels
    Joined0,                \* what the operator has joined at the start
    Unmarked0,              \* those that may have no read marker at the start
    Kinds,                  \* the kinds of message that are posted
    Phases,                 \* the phases this call switches on
    UseCounts,              \* unread_source = "counts"
    ShowAnswered,           \* show_answered
    Capped,                 \* max_chars bounds the output, as by default
    DMWindow,               \* dm_window_hours, in clock ticks
    PageLimit,              \* messages on one conversations.history page
    SecondTicks,            \* clock ticks in a second
    JoinedTTL,              \* joinedTTL, in clock ticks
    MaxTime,                \* bound: the last clock tick
    MaxPulls                \* bound: pulls the caller makes

AllKinds == {"top", "mine", "mention", "reply", "answer"}

AllPhases == {"unread", "dm-window", "priority",
              "thread-mentions", "own-threads", "canvases"}

ASSUME ConversationsAssumption ==
    /\ DirectMessages \subseteq Conversations
    /\ PriorityConversations \subseteq Conversations
    /\ Joined0 \subseteq Conversations
    /\ Unmarked0 \subseteq Conversations

ASSUME ParametersAssumption ==
    /\ Kinds \subseteq AllKinds
    /\ Phases \subseteq AllPhases
    /\ "unread" \in Phases
    /\ UseCounts \in BOOLEAN
    /\ ShowAnswered \in BOOLEAN
    /\ Capped \in BOOLEAN

ASSUME NumbersAssumption ==
    /\ DMWindow \in Nat
    /\ PageLimit \in Nat
    /\ SecondTicks \in Nat \ {0}
    /\ JoinedTTL \in Nat
    /\ MaxTime \in Nat
    /\ MaxPulls \in Nat

VARIABLES
    clock,      \* the time, Slack's and the server's alike
    log,        \* every message posted
    joined,     \* the conversations the operator is a member of
    lastRead,   \* the operator's read marker in each conversation
    indexed,    \* the messages Slack's search index knows of
    cached,     \* joinedCache: the last listing and when it was fetched
    after,      \* the cursor the caller holds, 0 for none
    pulls,      \* pulls started so far
    shown,      \* history: messages some pull has returned
    passed,     \* history: messages the cursor moved past, shown by no pull
    stage,      \* where the pull in progress is
    start,      \* sweep.start
    expired,    \* the sweep deadline has passed
    phase,      \* how far each phase is
    todo,       \* conversations a phase still has to read
    got,        \* messages each phase has read
    cut,        \* sweep.cut
    starved,    \* history: phases that gave up a read to a rate limit
    missed,     \* history: messages the pull in progress did not see
    results,    \* the merged and filtered result
    probes,     \* DMs the answered-DM probe still has to look at
    hidden      \* DMs the probe found answered

slackVars == <<clock, log, joined, lastRead, indexed>>
callerVars == <<after, pulls, shown, passed>>
fetchVars == <<phase, todo, got, cut, starved, missed>>
renderVars == <<results, probes, hidden>>
pullVars == <<stage, start, expired, fetchVars, renderVars>>
vars == <<slackVars, cached, callerVars, pullVars>>

\* last_read is "": Slack reports no read marker, which lies before any message.
NoMarker == -1

Message == [conv : Conversations, ts : Nat, kind : AllKinds]

(***************************************************************************)
(* What Slack answers at this moment.                                      *)
(***************************************************************************)
TopLevel(m) == m.kind \in {"top", "mine"}

\* The page is anchored at now: a message is on it while fewer than n
\* top-level messages of its conversation are newer.
Newer(m) == {x \in log : x.conv = m.conv /\ TopLevel(x) /\ x.ts > m.ts}

OnPage(m) == Cardinality(Newer(m)) < PageLimit

NewestPage(c) == {m \in log : m.conv = c /\ TopLevel(m) /\ OnPage(m)}

HasUnreads(c) ==
    \E m \in log : m.conv = c /\ m.kind = "top" /\ m.ts > lastRead[c]

(***************************************************************************)
(* What a pull owes the operator: messages of others that are unread and   *)
(* unanswered, each kind through the phase that is there to find it.       *)
(***************************************************************************)
ReaderOf == [top |-> "unread", mine |-> "nobody", mention |-> "thread-mentions",
             reply |-> "own-threads", answer |-> "nobody"]

OwedTop(m) ==
    /\ m.ts > lastRead[m.conv]
    /\ m.conv \in DirectMessages =>
         ~ \E a \in log : a.conv = m.conv /\ a.kind = "mine" /\ a.ts > m.ts

\* The operator's posts in the thread message m belongs to.
Answers(m) == {a \in log : a.conv = m.conv /\ a.kind = "answer"}

OwedMention(m) == \A a \in Answers(m) : a.ts < m.ts

OwedReply(m) == OwedMention(m) /\ Answers(m) # {}

Owed(m) ==
    /\ ReaderOf[m.kind] \in Phases
    /\ m.kind = "top" => OwedTop(m)
    /\ m.kind = "mention" => OwedMention(m)
    /\ m.kind = "reply" => OwedReply(m)

\* A top-level message that a full page of newer ones has pushed out.
Buried(m) == m.kind = "top" /\ ~ OnPage(m)

\* The messages phase p is there to find in the conversations C.
PassedOver(p, C) == {m \in log : ReaderOf[m.kind] = p /\ m.conv \in C}

-----------------------------------------------------------------------------
NoListing == [convs |-> {}, at |-> 0]

Rest ==
    /\ expired = FALSE
    /\ phase = [p \in Phases |-> "ready"]
    /\ todo = [p \in Phases |-> {}]
    /\ got = [p \in Phases |-> {}]
    /\ cut = {} /\ starved = {} /\ missed = {}
    /\ results = {} /\ probes = {} /\ hidden = {}

Init ==
    /\ clock = 1 /\ log = {} /\ indexed = {}
    /\ joined = Joined0
    /\ \E unmarked \in SUBSET Unmarked0 :
         lastRead = [c \in Conversations |-> IF c \in unmarked THEN NoMarker ELSE 0]
    /\ cached = NoListing
    /\ after = 0 /\ pulls = 0 /\ shown = {} /\ passed = {}
    /\ stage = "idle" /\ start = 0
    /\ Rest

(***************************************************************************)
(* Slack, its users and the operator's own client.                         *)
(***************************************************************************)
Tick ==
    /\ clock < MaxTime
    /\ clock' = clock + 1
    /\ UNCHANGED <<log, joined, lastRead, indexed, cached, callerVars, pullVars>>

\* Somebody opens a conversation with the operator, or adds them to one.
Join(c) ==
    /\ c \in Conversations \ joined
    /\ joined' = joined \cup {c}
    /\ UNCHANGED <<clock, log, lastRead, indexed, cached, callerVars, pullVars>>

Post(c, k) ==
    /\ c \in joined /\ k \in Kinds
    /\ clock < MaxTime
    /\ clock' = clock + 1
    /\ log' = log \cup {[conv |-> c, ts |-> clock + 1, kind |-> k]}
    /\ UNCHANGED <<joined, lastRead, indexed, cached, callerVars, pullVars>>

\* The operator reads a conversation in their own client.
Open(c) ==
    /\ \E m \in log : m.conv = c /\ m.ts > lastRead[c]
    /\ lastRead' = [lastRead EXCEPT ![c] = clock]
    /\ UNCHANGED <<clock, log, joined, indexed, cached, callerVars, pullVars>>

\* The search index catches up with one thread message.
Index(m) ==
    /\ m \in log \ indexed /\ ~ TopLevel(m)
    /\ indexed' = indexed \cup {m}
    /\ UNCHANGED <<clock, log, joined, lastRead, cached, callerVars, pullVars>>

(***************************************************************************)
(* A pull starts: every phase is spawned at once (sweepUnread).            *)
(***************************************************************************)
Begin ==
    /\ stage = "idle" /\ pulls < MaxPulls
    /\ pulls' = pulls + 1
    /\ stage' = "fetching"
    /\ start' = clock
    /\ UNCHANGED <<slackVars, cached, after, shown, passed,
                   expired, fetchVars, renderVars>>

Deadline ==
    /\ stage # "idle" /\ ~ expired
    /\ expired' = TRUE
    /\ UNCHANGED <<slackVars, cached, callerVars, stage, start, fetchVars, renderVars>>

\* runPhase: a phase that fails, or never starts, because of the deadline.
Cut(p) ==
    /\ stage = "fetching" /\ expired
    /\ phase[p] \in {"ready", "reading"}
    /\ phase' = [phase EXCEPT ![p] = "cut"]
    /\ cut' = cut \cup {p}
    /\ UNCHANGED <<slackVars, cached, callerVars, stage, start, expired,
                   todo, got, starved, missed, renderVars>>

\* A phase fails on an error of its own; nothing is recorded as cut.
Fail(p) ==
    /\ stage = "fetching" /\ ~ expired
    /\ phase[p] = "ready" /\ p # "canvases"
    /\ phase' = [phase EXCEPT ![p] = "failed"]
    /\ missed' = missed \cup PassedOver(p, Conversations)
    /\ UNCHANGED <<slackVars, cached, callerVars, stage, start, expired,
                   todo, got, cut, starved, renderVars>>

\* The conversations a phase may take from the listing it was handed: with
\* client.counts the unread pass keeps the unread ones, or all when the
\* call fails.
Targets(p, listing) ==
    CASE p = "unread" -> {listing} \cup
             (IF UseCounts THEN {{c \in listing : HasUnreads(c)}} ELSE {})
      [] p = "dm-window" -> {listing \cap DirectMessages}
      [] p = "priority" -> {listing \cap PriorityConversations}
      [] OTHER -> {}

\* joinedCache.get: a fresh enough listing is reused, an empty one never.
Reusable == cached.convs # {} /\ clock - cached.at < JoinedTTL

Listing == IF Reusable THEN cached.convs ELSE joined

List(p) ==
    /\ stage = "fetching" /\ ~ expired
    /\ p \in {"unread", "dm-window", "priority"} /\ phase[p] = "ready"
    /\ cached' = IF Reusable THEN cached ELSE [convs |-> joined, at |-> clock]
    /\ phase' = [phase EXCEPT ![p] = "reading"]
    /\ \E t \in Targets(p, Listing) : todo' = [todo EXCEPT ![p] = t]
    /\ missed' = missed \cup PassedOver(p, Conversations \ Listing)
    /\ UNCHANGED <<slackVars, callerVars, stage, start, expired,
                   got, cut, starved, renderVars>>

\* answeredLater: the operator posted in the thread after the mention, as
\* far as their own posts are known.
AnsweredLater(own, m) ==
    \E a \in own : a.conv = m.conv /\ a.kind = "answer" /\ a.ts > m.ts

\* UnreadThreadMentions: what the index holds when the query runs. Without
\* the operator's own posts, whose lookup may fail, every mention is kept.
SearchMentions ==
    /\ stage = "fetching" /\ ~ expired
    /\ phase["thread-mentions"] = "ready"
    /\ \E own \in {indexed, {}} :
         got' = [got EXCEPT !["thread-mentions"] =
                   {m \in indexed : m.kind = "mention" /\ ~ AnsweredLater(own, m)}]
    /\ missed' = missed \cup {m \in log \ indexed : m.kind = "mention"}
    /\ phase' = [phase EXCEPT !["thread-mentions"] = "done"]
    /\ UNCHANGED <<slackVars, cached, callerVars, stage, start, expired,
                   todo, cut, starved, renderVars>>

\* UnreadOwnThreads, first half: the threads the operator's indexed posts
\* sit in.
FindThreads ==
    /\ stage = "fetching" /\ ~ expired
    /\ phase["own-threads"] = "ready"
    /\ LET found == {a.conv : a \in {x \in indexed : x.kind = "answer"}}
       IN  /\ todo' = [todo EXCEPT !["own-threads"] = found]
           /\ missed' = missed \cup PassedOver("own-threads", Conversations \ found)
    /\ phase' = [phase EXCEPT !["own-threads"] = "reading"]
    /\ UNCHANGED <<slackVars, cached, callerVars, stage, start, expired,
                   got, cut, starved, renderVars>>

\* unseenAfterMine: what others wrote in the thread after the operator's
\* last post there.
UnseenAfterMine(c) ==
    {m \in log : /\ m.conv = c /\ m.kind \in {"mention", "reply"}
                 /\ \A a \in log : a.conv = c /\ a.kind = "answer" => a.ts < m.ts}

\* Without a read marker the unread pass returns before it reads a page.
ReadsNoPage(p, c) == p = "unread" /\ lastRead[c] = NoMarker

\* What one read of a conversation yields.
ReadBy(p, c) ==
    CASE p = "unread" -> {m \in NewestPage(c) : ~ ReadsNoPage(p, c) /\ m.ts > lastRead[c]}
      [] p = "dm-window" -> {m \in NewestPage(c) : m.ts > start - DMWindow}
      [] p = "priority" -> {m \in NewestPage(c) : m.ts > after}
      [] OTHER -> UnseenAfterMine(c)

Read(p, c) ==
    /\ stage = "fetching" /\ phase[p] = "reading" /\ c \in todo[p]
    /\ got' = [got EXCEPT ![p] = @ \cup ReadBy(p, c)]
    /\ todo' = [todo EXCEPT ![p] = @ \ {c}]
    /\ missed' = missed \cup (IF ReadsNoPage(p, c) THEN PassedOver(p, {c}) ELSE {})
    /\ UNCHANGED <<slackVars, cached, callerVars, stage, start, expired,
                   phase, cut, starved, renderVars>>

\* One conversation's read fails while the deadline has not passed yet: an
\* API error, or a rate limit that ratelimit.Do will not wait out because
\* the wait would end beyond the deadline.
ReadFails(p, c, why) ==
    /\ stage = "fetching" /\ ~ expired
    /\ phase[p] = "reading" /\ c \in todo[p]
    /\ todo' = [todo EXCEPT ![p] = @ \ {c}]
    /\ starved' = IF why = "rate limit" THEN starved \cup {p} ELSE starved
    /\ missed' = missed \cup PassedOver(p, {c})
    /\ UNCHANGED <<slackVars, cached, callerVars, stage, start, expired,
                   phase, got, cut, renderVars>>

\* The pool has drained and the context is still good.
Done(p) ==
    /\ stage = "fetching" /\ ~ expired
    /\ \/ phase[p] = "reading" /\ todo[p] = {}
       \/ phase[p] = "ready" /\ p = "canvases"
    /\ phase' = [phase EXCEPT ![p] = "done"]
    /\ UNCHANGED <<slackVars, cached, callerVars, stage, start, expired,
                   todo, got, cut, starved, missed, renderVars>>

(***************************************************************************)
(* Merging and rendering, after every phase has returned.                  *)
(***************************************************************************)
MutantErrorsNeverReturn == \A p \in Phases : phase[p] \in {"done", "cut"}

AllReturned == \A p \in Phases : phase[p] \in {"done", "failed", "cut"}

GotBy(p) == IF p \in Phases THEN got[p] ELSE {}

\* mergeDMOverride: a DM the window returned anything for is shown as the
\* window saw it, whatever the unread pass found there.
MutantOverriddenByNothing == IF "dm-window" \in Phases THEN DirectMessages ELSE {}

Overridden == {m.conv : m \in GotBy("dm-window")}

Merged ==
    {m \in GotBy("unread") : m.conv \notin Overridden}
      \cup UNION {GotBy(p) : p \in {"dm-window", "priority",
                                    "thread-mentions", "own-threads"}}

\* filterAfter
MutantUnfiltered == Merged

Filtered == {m \in Merged : m.ts > after}

Clear ==
    /\ stage' = "idle"
    /\ start' = 0
    /\ expired' = FALSE
    /\ phase' = [p \in Phases |-> "ready"]
    /\ todo' = [p \in Phases |-> {}]
    /\ got' = [p \in Phases |-> {}]
    /\ cut' = {} /\ starved' = {} /\ missed' = {}
    /\ results' = {} /\ probes' = {} /\ hidden' = {}

\* The unread pass failed or was cut: the pull returns a note, or an error,
\* and the cursor it was given.
GiveUp ==
    /\ stage = "fetching" /\ AllReturned
    /\ phase["unread"] # "done"
    /\ Clear
    /\ UNCHANGED <<slackVars, cached, callerVars>>

Merge ==
    /\ stage = "fetching" /\ AllReturned
    /\ phase["unread"] = "done"
    /\ stage' = "probing"
    /\ results' = Filtered
    /\ probes' = IF ShowAnswered \/ "dm-window" \in Phases \/ expired THEN {}
                 ELSE {m.conv : m \in Filtered} \cap DirectMessages
    /\ missed' = missed \cup 
         {m \in GotBy("unread") \ Merged :
             \E w \in GotBy("dm-window") : w.conv = m.conv}
    /\ UNCHANGED <<slackVars, cached, callerVars, start, expired,
                   phase, todo, got, cut, starved, hidden>>

\* isAnsweredDM, on the window the probe reads now: the newest top-level
\* message is the operator's, and no thread of the DM ends with another's.
MutantSpokeInDM(c) == \E a \in log : a.conv = c /\ a.kind = "mine"

IsAnsweredDM(c) ==
    /\ \E a \in log : /\ a.conv = c /\ a.kind = "mine"
                      /\ \A m \in log : m.conv = c /\ m.kind = "top" => m.ts < a.ts
    /\ ~ \E r \in results : r.conv = c /\ ~ TopLevel(r)

\* dropAnsweredDMs for one DM; when the probe fails the DM stays.
Probe(c) ==
    /\ stage = "probing" /\ c \in probes
    /\ probes' = probes \ {c}
    /\ \/ ~ expired /\ IsAnsweredDM(c) /\ hidden' = hidden \cup {c}
       \/ hidden' = hidden
    /\ UNCHANGED <<slackVars, cached, callerVars, stage, start, expired,
                   fetchVars, results>>

Visible == {m \in results : m.conv \notin hidden}

\* capCursor: never past the whole second the sweep began in.
MutantSecondBefore(t) == (t \div SecondTicks - 1) * SecondTicks

WholeSecond(t) == (t \div SecondTicks) * SecondTicks

MutantUncapped(t) == t

CapCursor(t) == IF t <= WholeSecond(start) THEN t ELSE WholeSecond(start)

\* sweep.incomplete: only a phase the deadline cut holds the cursor.
MutantAlwaysComplete == TRUE

Complete == cut = {}

\* budgetAppend: conversations that no longer fit are only counted and
\* named; which ones do depends on how long each renders.
MayBeOmitted == IF Capped THEN {m.conv : m \in Visible} ELSE {}

Finish ==
    /\ stage = "probing" /\ probes = {}
    /\ after' = IF Visible # {} /\ Complete THEN CapCursor(NewestTS(Visible)) ELSE after
    /\ \E omitted \in SUBSET MayBeOmitted :
         LET out == {m \in Visible : m.conv \in omitted}
         IN  /\ shown' = shown \cup (Visible \ out)
             /\ passed' = passed \cup
                  {m \in (missed \cup out) \ shown' : m.ts > after /\ m.ts <= after'}
    /\ Clear
    /\ UNCHANGED <<slackVars, cached, pulls>>

-----------------------------------------------------------------------------
Environment ==
    \/ Tick
    \/ \E c \in Conversations : Join(c) \/ Open(c)
    \/ \E c \in Conversations, k \in AllKinds : Post(c, k)
    \/ \E m \in log : Index(m)

Fetch(p) ==
    \/ Cut(p) \/ Fail(p) \/ List(p) \/ Done(p)
    \/ p = "thread-mentions" /\ SearchMentions
    \/ p = "own-threads" /\ FindThreads
    \/ \E c \in Conversations :
         Read(p, c) \/ \E why \in {"error", "rate limit"} : ReadFails(p, c, why)

Render == GiveUp \/ Merge \/ Finish \/ \E c \in DirectMessages : Probe(c)

Next ==
    \/ Environment
    \/ Begin \/ Deadline
    \/ \E p \in Phases : Fetch(p)
    \/ Render

Spec == Init /\ [][Next]_vars

\* Every call a phase makes returns: the transport bounds dialling and the
\* wait for headers, and the deadline bounds the rest. The deadline itself
\* is a timer. Nothing is assumed of Slack's users or of the caller.
Fairness ==
    /\ \A p \in AllPhases : p \in Phases => WF_vars(Fetch(p))
    /\ WF_vars(Render)

FairSpec == Spec /\ Fairness

-----------------------------------------------------------------------------
\* What the sweep and its caller hold is well typed.
TypeOK ==
    /\ clock \in Nat /\ start \in Nat /\ after \in Nat /\ pulls \in Nat
    /\ log \subseteq Message /\ indexed \subseteq log
    /\ joined \subseteq Conversations
    /\ lastRead \in [Conversations -> Nat \cup {NoMarker}]
    /\ cached \in [convs : SUBSET Conversations, at : Nat]
    /\ shown \subseteq log /\ passed \subseteq log
    /\ stage \in {"idle", "fetching", "probing"}
    /\ expired \in BOOLEAN
    /\ phase \in [Phases -> {"ready", "reading", "done", "failed", "cut"}]
    /\ todo \in [Phases -> SUBSET Conversations]
    /\ got \in [Phases -> SUBSET Message]
    /\ \A p \in Phases : got[p] \subseteq log
    /\ cut \subseteq Phases
    /\ starved \subseteq Phases
    /\ missed \subseteq log /\ results \subseteq log
    /\ probes \subseteq DirectMessages /\ hidden \subseteq DirectMessages

\* The delta loop loses nothing: a message the operator is owed has been
\* returned, or is still newer than the cursor so that the next pull can
\* return it, unless it was pushed off the history page or the pull that
\* moved the cursor could not see it and went on without it (an unlisted
\* conversation, one without a read marker, a failed read, a search index
\* behind, the DM window, the output cap).
\* What arrives while a pull is running is never such a message.
NoLoss ==
    \A m \in log :
        Owed(m) => \/ m \in shown
                   \/ m.ts > after
                   \/ m \in passed
                   \/ Buried(m)

\* A DM the answered-DM probe hides holds nothing the operator still owes
\* an answer to, although the conversation was read some time before the
\* probe looked at it and messages arrived in between (dropAnsweredDMs).
HiddenIsAnswered ==
    \A m \in results : m.conv \in hidden => ~ Owed(m)

\* The cursor a caller holds never moves back and never past the clock,
\* although each pull computes it from whatever that pull happened to keep.
CursorMonotone == [][after <= after' /\ after' <= clock]_after

\* The loop, its phases, failures and deadline, is an implementation of the
\* delivery the cursor promises (DeltaDelivery).
Settled == {m \in log : ~ Owed(m) \/ Buried(m)}

Delivery == INSTANCE DeltaDelivery WITH posted <- log, settled <- Settled

\* The loop implements the abstract delivery: what is owed and not pushed out of
\* its page is shown or passed over on record before the cursor is beyond it.
Delivers == Delivery!Spec

\* Every pull ends, whatever fails in it.
PullEnds == stage # "idle" ~> stage = "idle"
=============================================================================
