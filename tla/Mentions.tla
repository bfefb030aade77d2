------------------------------ MODULE Mentions ------------------------------
(***************************************************************************)
(* get_mentions over one workspace (internal/tools/unread.go,              *)
(* sweepMentions): two searches whose index lags, the DM backstop that     *)
(* reads history, the filters, and for pending_only the check whether the  *)
(* operator has answered, while everybody goes on writing.                 *)
(*                                                                         *)
(* Every message is inside the window (hours): how far back the sweep      *)
(* looks is not modelled.                                                  *)
(***************************************************************************)
EXTENDS Naturals, FiniteSets, SlackPages

CONSTANTS
    MentionRoom,
    MentionDMs,     \* the rooms that are direct messages
    MentionKinds,   \* the kinds of message that get written (bounds the model)
    MentionCalls,   \* the calls that are made, as option records
    MentionLimit,   \* limit: of one query, of one DM page and of the list
    ReplyPage,      \* messages operatorRepliedSince reads after a mention
    MaxFeed         \* bound: messages written

\* "ask" and "ack" tag the operator, the latter as a closing phrase; "chat" does
\* not; "blank" is a message without text; "feed" an automation sender that tags;
\* "mine" and "react" are the operator's, with and without text.
FeedKinds == {"ask", "ack", "chat", "blank", "feed", "mine", "react"}
CallOptions == [dmHistory : BOOLEAN, pendingOnly : BOOLEAN, dropAcks : BOOLEAN, strict : BOOLEAN]

ASSUME MentionsAssumption ==
    /\ MentionDMs \subseteq MentionRoom /\ MentionKinds \subseteq FeedKinds
    /\ MentionCalls \subseteq CallOptions
    /\ MentionLimit \in Nat \ {0} /\ ReplyPage \in Nat /\ MaxFeed \in Nat

VARIABLES
    feed,       \* Slack: every message
    searchable, \* Slack: the messages its search index knows
    sweepStep,  \* "idle", "search-1", "search-2", "dm-history", "pending-check", "done", "failed"
    options,    \* the call
    identity,   \* what auth.test told: "none", "handle" (the second time only) or "full"
    expiredM,   \* the sweep's deadline has passed
    noted,      \* the list will say that a phase was cut
    hits,       \* messages found so far
    dmsLeft,    \* DMs the backstop has not read
    unchecked,  \* pending matches still to be checked
    halfChecked,\* those whose history was read and held no answer
    answered,   \* those found answered
    listing,    \* what the call returns
    asOf,       \* history: the messages that existed when the call was made
    lapses      \* history: a DM or an answer could not be read

mSlack  == <<feed, searchable>>
mFound  == <<hits, dmsLeft>>
mCheck  == <<unchecked, halfChecked, answered>>
mCall   == <<options, identity, asOf>>
mentionVars == <<mSlack, sweepStep, mCall, expiredM, noted, mFound, mCheck, listing, lapses>>

FeedMessage == [room : MentionRoom, ts : Nat, root : Nat, kind : FeedKinds]

Mine(m)  == m.kind \in {"mine", "react"}
Tags(m)  == m.kind \in {"ask", "ack", "feed"}
TopIn(r) == {m \in feed : m.room = r /\ m.root = 0}
ThreadOf(m) == {x \in feed : x.room = m.room /\ (IF m.root = 0 THEN m.ts ELSE m.root) \in {x.ts, x.root}}

\* MentionQueries: `to:me` is what reached the operator in a DM, the handle query
\* everything their handle is attached to, their own messages included.
Matches(q) ==
    CASE q = "search-1" -> {m \in searchable : m.room \in MentionDMs /\ ~ Mine(m)}
      [] q = "search-2" -> {m \in searchable : Tags(m) \/ Mine(m)}
SearchMessages(q) == NewestOf(Matches(q), MentionLimit)

\* recentActivity and fetchReplies: the newest page and its threads.
RecentActivity(r) ==
    LET page == NewestOf(TopIn(r), MentionLimit)
    IN  page \cup {m \in feed : m.room = r /\ \E p \in page : m.root = p.ts}
DMHits(r) == {m \in RecentActivity(r) : ~ Mine(m)}

\* The filters before the reply check, and the one after it.
Actionable(m) == m.kind # "feed"
WorthAnswering(m) == m.kind # "blank" /\ (options.dropAcks => m.kind # "ack")
FilterOwn(ms) == IF identity = "full" THEN {m \in ms : ~ Mine(m)} ELSE ms
StrictlyTags(m) == options.strict => Tags(m)

MutantAnyOwnText(ms, m) == \E x \in ms : x.kind = "mine"

OperatorTextSince(ms, m) == \E x \in ms : x.kind = "mine" /\ x.ts > m.ts
HistorySince(m) == OldestOf({x \in TopIn(m.room) : x.ts > m.ts}, ReplyPage)

MentionsInit ==
    /\ feed = {} /\ searchable = {} /\ sweepStep = "idle"
    /\ options = [dmHistory |-> FALSE, pendingOnly |-> FALSE, dropAcks |-> FALSE, strict |-> FALSE]
    /\ identity = "none" /\ asOf = {} /\ expiredM = FALSE /\ noted = FALSE
    /\ hits = {} /\ dmsLeft = {} /\ unchecked = {} /\ halfChecked = {} /\ answered = {}
    /\ listing = {} /\ lapses = FALSE

(* Slack, and the clock. *)
Write(r, k) ==
    /\ Cardinality(feed) < MaxFeed /\ sweepStep \notin {"done", "failed"}
    /\ \E root \in {0} \cup {m.ts : m \in TopIn(r)} :
         feed' = feed \cup {[room |-> r, ts |-> Cardinality(feed) + 1, root |-> root, kind |-> k]}
    /\ UNCHANGED <<searchable, sweepStep, mCall, expiredM, noted, mFound, mCheck, listing, lapses>>

IndexCatchesUp ==
    /\ searchable # feed /\ searchable' = feed /\ sweepStep \notin {"done", "failed"}
    /\ UNCHANGED <<feed, sweepStep, mCall, expiredM, noted, mFound, mCheck, listing, lapses>>

MentionDeadline ==
    /\ sweepStep \notin {"idle", "failed", "done"} /\ ~ expiredM /\ expiredM' = TRUE
    /\ UNCHANGED <<mSlack, sweepStep, mCall, noted, mFound, mCheck, listing, lapses>>

(* The sweep. *)
CallMentions(o) ==
    /\ sweepStep = "idle" /\ sweepStep' = "search-1"
    /\ options' = o /\ identity' \in {"none", "handle", "full"} /\ asOf' = feed
    /\ expiredM' = FALSE /\ noted' = FALSE
    /\ UNCHANGED <<mSlack, mFound, mCheck, listing, lapses>>

\* Where the searches lead: the own-message filter, then the backstop.
AfterSearch(q, found) ==
    IF q = "search-1" /\ identity # "none"
      THEN /\ hits' = found /\ sweepStep' = "search-2" /\ UNCHANGED dmsLeft
      ELSE /\ hits' = FilterOwn(found) /\ sweepStep' = "dm-history"
           /\ dmsLeft' = IF options.dmHistory /\ identity = "full" THEN MentionDMs ELSE {}

SearchStep(q) ==
    /\ sweepStep = q /\ q \in {"search-1", "search-2"} /\ ~ expiredM
    /\ AfterSearch(q, hits \cup SearchMessages(q))
    /\ UNCHANGED <<mSlack, mCall, expiredM, noted, mCheck, listing, lapses>>

\* A search that fails for its own reasons fails the call: nothing is listed.
SearchFails(q) ==
    /\ sweepStep = q /\ q \in {"search-1", "search-2"} /\ ~ expiredM
    /\ sweepStep' = "failed" /\ hits' = {}
    /\ UNCHANGED <<mSlack, mCall, expiredM, noted, dmsLeft, mCheck, listing, lapses>>

SearchCut(q) ==
    /\ sweepStep = q /\ q \in {"search-1", "search-2"} /\ expiredM
    /\ noted' = TRUE /\ sweepStep' = "dm-history" /\ hits' = FilterOwn(hits) /\ dmsLeft' = {}
    /\ UNCHANGED <<mSlack, mCall, expiredM, mCheck, listing, lapses>>

ReadDM(r) ==
    /\ sweepStep = "dm-history" /\ r \in dmsLeft /\ ~ expiredM
    /\ dmsLeft' = dmsLeft \ {r} /\ hits' = hits \cup DMHits(r)
    /\ UNCHANGED <<mSlack, sweepStep, mCall, expiredM, noted, mCheck, listing, lapses>>

\* One conversation failing is tolerated; the deadline leaves the rest unread.
ReadDMFails(r) ==
    /\ sweepStep = "dm-history" /\ r \in dmsLeft /\ ~ expiredM
    /\ dmsLeft' = dmsLeft \ {r} /\ lapses' = TRUE
    /\ UNCHANGED <<mSlack, sweepStep, mCall, expiredM, noted, hits, mCheck, listing>>

DMsCut ==
    /\ sweepStep = "dm-history" /\ dmsLeft # {} /\ expiredM
    /\ dmsLeft' = {} /\ noted' = TRUE
    /\ UNCHANGED <<mSlack, sweepStep, mCall, expiredM, hits, mCheck, listing, lapses>>

\* filterBotSenders, filterEmptyMentions, filterClosingAcks; a sweep past its
\* deadline does not start the reply check.
StartCheck ==
    /\ sweepStep = "dm-history" /\ dmsLeft = {}
    /\ ~ (options.pendingOnly /\ identity # "full")
    /\ sweepStep' = "pending-check"
    /\ unchecked' = IF options.pendingOnly /\ ~ expiredM
                      THEN {m \in hits : Actionable(m) /\ WorthAnswering(m)} ELSE {}
    /\ UNCHANGED <<mSlack, mCall, expiredM, noted, mFound, halfChecked, answered, listing, lapses>>

\* pending_only and strict_mention need to know who the operator is.
RefuseCall ==
    /\ sweepStep \in {"dm-history", "pending-check"} /\ dmsLeft = {} /\ unchecked = {}
    /\ identity # "full"
    /\ \/ sweepStep = "dm-history" /\ options.pendingOnly
       \/ sweepStep = "pending-check" /\ options.strict
    /\ sweepStep' = "failed" /\ hits' = {}
    /\ UNCHANGED <<mSlack, mCall, expiredM, noted, dmsLeft, mCheck, listing, lapses>>

\* operatorRepliedSince: the channel first, then the thread.
CheckHistory(m) ==
    /\ m \in unchecked /\ unchecked' = unchecked \ {m}
    /\ IF ~ expiredM /\ OperatorTextSince(HistorySince(m), m)
         THEN answered' = answered \cup {m} /\ UNCHANGED halfChecked
         ELSE halfChecked' = halfChecked \cup {m} /\ UNCHANGED answered
    /\ lapses' = (lapses \/ expiredM)
    /\ UNCHANGED <<mSlack, sweepStep, mCall, expiredM, noted, mFound, listing>>

MutantRootIsTheMention(m) == {x \in feed : x.room = m.room /\ m.ts \in {x.ts, x.root}}

ThreadReplies(m) == ThreadOf(m)

CheckThread(m) ==
    /\ m \in halfChecked /\ halfChecked' = halfChecked \ {m}
    /\ IF ~ expiredM /\ OperatorTextSince(ThreadReplies(m), m)
         THEN answered' = answered \cup {m} ELSE UNCHANGED answered
    /\ lapses' = (lapses \/ expiredM)
    /\ UNCHANGED <<mSlack, sweepStep, mCall, expiredM, noted, mFound, unchecked, listing>>

\* A failed look-up finds no answer.
CheckFails(m) ==
    /\ lapses' = TRUE
    /\ \/ /\ m \in unchecked /\ unchecked' = unchecked \ {m}
          /\ halfChecked' = halfChecked \cup {m}
       \/ m \in halfChecked /\ halfChecked' = halfChecked \ {m} /\ UNCHANGED unchecked
    /\ UNCHANGED <<mSlack, sweepStep, mCall, expiredM, noted, mFound, answered, listing>>

Kept == {m \in hits \ answered :
            /\ Actionable(m) /\ StrictlyTags(m)
            /\ options.pendingOnly => WorthAnswering(m)}

ListMentions ==
    /\ sweepStep = "pending-check" /\ unchecked = {} /\ halfChecked = {}
    /\ ~ (options.strict /\ identity # "full")
    /\ listing' = NewestOf(Kept, MentionLimit)
    /\ sweepStep' = "done"
    /\ lapses' = (lapses \/ (options.pendingOnly /\ expiredM))
    /\ UNCHANGED <<mSlack, mCall, expiredM, noted, mFound, mCheck>>

MentionsNext ==
    \/ \E r \in MentionRoom, k \in MentionKinds : Write(r, k)
    \/ IndexCatchesUp \/ MentionDeadline
    \/ \E o \in MentionCalls : CallMentions(o)
    \/ \E q \in {"search-1", "search-2"} : SearchStep(q) \/ SearchFails(q) \/ SearchCut(q)
    \/ \E r \in MentionDMs : ReadDM(r) \/ ReadDMFails(r)
    \/ DMsCut \/ StartCheck \/ RefuseCall
    \/ \E m \in feed : CheckHistory(m) \/ CheckThread(m) \/ CheckFails(m)
    \/ ListMentions

MentionsSpec == MentionsInit /\ [][MentionsNext]_mentionVars
----------------------------------------------------------------------------
MentionsTypeOK ==
    /\ feed \subseteq FeedMessage /\ searchable \subseteq feed /\ asOf \subseteq feed
    /\ sweepStep \in {"idle", "search-1", "search-2", "dm-history", "pending-check", "done", "failed"}
    /\ options \in CallOptions /\ identity \in {"none", "handle", "full"}
    /\ expiredM \in BOOLEAN /\ noted \in BOOLEAN /\ lapses \in BOOLEAN
    /\ hits \subseteq feed /\ dmsLeft \subseteq MentionDMs
    /\ unchecked \subseteq hits /\ halfChecked \subseteq hits /\ answered \subseteq hits
    /\ listing \subseteq hits

\* A reason for message m not to be in the list of a finished call.
LeftOutFor(m) ==
    \/ ~ Actionable(m) \/ ~ StrictlyTags(m)
    \/ options.pendingOnly /\ (~ WorthAnswering(m)
         \/ \E x \in feed : x.room = m.room /\ x.kind = "mine" /\ x.ts > m.ts)
    \/ Cardinality(listing) = MentionLimit /\ \A x \in listing : x.ts > m.ts

\* What the backstop promises: a message in a DM that was there when the call was
\* made and is still on the DM's page, however far the index lags.
FreshDM(m) == options.dmHistory /\ identity = "full" /\ ~ noted /\ ~ lapses
                /\ m \in asOf /\ m.room \in MentionDMs /\ ~ Mine(m)
                /\ m \in NewestOf(TopIn(m.room), MentionLimit)

\* No ask is dropped without a reason: a message the sweep found, or one waiting in
\* a DM, is listed unless the operator has written something after it, a filter the
\* call asked for removes it, or newer ones fill the list.
EveryAskAccounted ==
    sweepStep = "done" => \A m \in feed :
        (m \in hits \/ FreshDM(m)) => m \in listing \/ LeftOutFor(m)

\* "pending (no text reply from you)": unless a look-up failed, nothing listed was
\* answered when the call was made, by an answer in its thread or one of the next
\* messages of the channel.
PendingIsUnanswered ==
    (sweepStep = "done" /\ options.pendingOnly /\ ~ lapses) => \A m \in listing :
        ~ \E x \in asOf \cap (ThreadOf(m) \cup HistorySince(m)) : x.kind = "mine" /\ x.ts > m.ts
=============================================================================
